------------------------------ MODULE SliceOps ------------------------------
(***************************************************************************)
(* The slice helpers of internal/cards that the merges share.              *)
(***************************************************************************)
EXTENDS SequencesExt

RemoveLast(arr, pos) == Front(arr)                             \* mutant

\* remove, removeFace, removeFaceTranslation: the last element takes the place
\* of the one removed.
RemoveSwap(arr, pos) == Front([arr EXCEPT ![pos] = Last(arr)])
=============================================================================
