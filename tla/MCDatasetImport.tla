-------------------------- MODULE MCDatasetImport --------------------------
(***************************************************************************)
(* Documents for checking DatasetImport with TLC.                          *)
(***************************************************************************)
EXTENDS DatasetImport, SequencesExt

Item(kind, key, others, meld) ==
  [kind |-> kind, key |-> key, others |-> others, meld |-> meld]

\* Items that carry no card all have the same, unused key.
Plain(kind) == Item(kind, CHOOSE k \in Keys : TRUE, 0, FALSE)

Card(key, n) == Item("card", key, n - 1, FALSE)

\* The two objects of a meld pair name two other faces each.
MeldCard(key) == Item("card", key, 2, TRUE)

\* The key that the oddities are about.
Double == CHOOSE k \in Keys : TRUE

Body(alphabet, n) == SeqOf(alphabet, n)

\* Faces of up to three-faced cards in every order, also cards whose objects
\* disagree on the number of faces, come too often, or are missing; and longer
\* documents of two-faced cards in one or more sets.
FaceDocuments ==
  {d \o <<Plain("set")>> :
     d \in Body({Card(k, n) : k \in Keys, n \in {2, 3}}
                \cup {Card(Double, 1), MeldCard(Double)}, 4)}
  \cup {d \o <<Plain("set")>> :
          d \in Body({Card(k, 2) : k \in Keys} \cup {Plain("set")}, 5)}

\* Everything that can go wrong in a document.
BrokenDocuments ==
  {d \in Body({Card(k, n) : k \in Keys, n \in {1, 2}}
              \cup {Item("badcard", k, 0, FALSE) : k \in Keys}
              \cup {Plain(kind) : kind \in EndKinds \cup ErrorKinds}, 4) :
     IsDocument(d)}

AllDocuments == FaceDocuments \cup BrokenDocuments

SmallDocuments == {d \in BrokenDocuments : Len(d) <= 3}

=============================================================================
