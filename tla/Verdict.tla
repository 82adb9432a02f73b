------------------------------ MODULE Verdict ------------------------------
(***************************************************************************)
(* What a Document promises about its verdict and its errors, with no      *)
(* pattern in sight: valid? turns false with an error that says why, and   *)
(* stays false until a schema is loaded or a document begun.  An exception *)
(* that a datatype library raises inside a start tag is the one way back.  *)
(*                                                                         *)
(* Session implements this specification.                                  *)
(***************************************************************************)
CONSTANT Faults     \* codes of the errors that make a document invalid

VARIABLES
  loaded,    \* a schema was loaded at least once
  valid,     \* every step so far was accepted
  faults,    \* the faults reported since start_document
  tag        \* a start tag is being processed

vars == <<loaded, valid, faults, tag>>

Init == loaded = FALSE /\ valid = FALSE /\ faults = {} /\ tag = FALSE

Load ==
  /\ ~tag
  /\ loaded' = TRUE /\ valid' = TRUE
  /\ UNCHANGED <<faults, tag>>

Begin ==
  /\ loaded /\ ~tag
  /\ valid' = TRUE /\ faults' = {}
  /\ UNCHANGED <<loaded, tag>>

Reject(F) ==
  /\ loaded /\ F # {}
  /\ valid' = FALSE /\ faults' = faults \cup F
  /\ tag' \in BOOLEAN
  /\ UNCHANGED loaded

Accept ==
  /\ loaded
  /\ tag' \in BOOLEAN
  /\ UNCHANGED <<loaded, valid, faults>>

Abandon ==
  /\ tag
  /\ tag' = FALSE /\ valid' \in {valid, TRUE}
  /\ UNCHANGED <<loaded, faults>>

Next ==
  \/ Load
  \/ Begin
  \/ \E F \in SUBSET Faults : Reject(F)
  \/ Accept
  \/ Abandon

Spec == Init /\ [][Next]_vars
=============================================================================
