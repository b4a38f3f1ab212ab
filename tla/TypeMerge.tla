------------------------------ MODULE TypeMerge ------------------------------
(***************************************************************************)
(* What mergeTypes promises to cardService.Import: in one step the types   *)
(* of a face become those of the data set, or nothing happens at all, as   *)
(* if no other importer were there.  This is the step CardImport takes.    *)
(***************************************************************************)
EXTENDS Naturals, Sequences, FiniteSets

VARIABLES
  list,      \* types in the data set, for the face of every importer
  assigned,  \* types assigned to that face in the database
  table,     \* type names in the database
  state      \* of the importer: "open", "done" or "failed"

vars == <<list, assigned, table, state>>

NamesOf(w) == {list[w][i] : i \in DOMAIN list[w]}

Init ==
  /\ table = UNION {assigned[w] : w \in DOMAIN assigned}
  /\ state = [w \in DOMAIN list |-> "open"]

\* A list that repeats a name is never merged.
Merge(w) ==
  /\ state[w] = "open"
  /\ Cardinality(NamesOf(w)) = Len(list[w])
  /\ state' = [state EXCEPT ![w] = "done"]
  /\ assigned' = [assigned EXCEPT ![w] = NamesOf(w)]
  /\ table' = table \cup NamesOf(w)
  /\ UNCHANGED list

Refuse(w) ==
  /\ state[w] = "open"
  /\ state' = [state EXCEPT ![w] = "failed"]
  /\ UNCHANGED <<list, assigned, table>>

Next == \E w \in DOMAIN list : Merge(w) \/ Refuse(w)

Spec == Init /\ [][Next]_vars
=============================================================================
