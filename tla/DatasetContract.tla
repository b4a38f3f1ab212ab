--------------------------- MODULE DatasetContract ---------------------------
(***************************************************************************)
(* What the import of a data set promises to its caller, whatever happens  *)
(* on channels and in goroutines: cards and sets are imported one by one,  *)
(* no face together with one of another card, and the answer "ok" comes    *)
(* last, when all that is required has been imported.  An error may come   *)
(* any time, and some imports may still come after it.                     *)
(***************************************************************************)
VARIABLES
  unit,      \* for every face or set of the data set the card or set it belongs to
  required,  \* faces and sets without which there is no success
  imported,  \* faces and sets imported so far
  answer     \* "none", "ok" or "error"

vars == <<unit, required, imported, answer>>

Init ==
  /\ required \subseteq DOMAIN unit
  /\ imported = {}
  /\ answer = "none"

\* One card with some faces of it, or one set.
ImportUnit ==
  /\ answer # "ok"
  /\ \E part \in SUBSET (DOMAIN unit \ imported) :
       /\ \A i, j \in part : unit[i] = unit[j]
       /\ imported' = imported \cup part
  /\ UNCHANGED <<unit, required, answer>>

Answer ==
  /\ answer = "none"
  /\ \/ answer' = "error"
     \/ answer' = "ok" /\ required \subseteq imported
  /\ UNCHANGED <<unit, required, imported>>

Next == ImportUnit \/ Answer

Spec == Init /\ [][Next]_vars
=============================================================================
