---------------------------- MODULE MCImageImport ----------------------------
(***************************************************************************)
(* Cards and libraries for checking ImageImport with TLC.  Cards are       *)
(* numbers and so are faces: card 1 has face 1, card 2 has faces 2 and 3,  *)
(* card 3 has face 4.                                                      *)
(***************************************************************************)
EXTENDS ImageImport

FacesTable == <<<<1>>, <<2, 3>>, <<4>>>>
FacesOfCards == FacesTable

\* Two cards of a set and one of another, one set for each card, and one for all.
PairedSets == <<1, 1, 2>>
OwnSets == [c \in 1..3 |-> c]
SharedSet == [c \in 1..3 |-> 1]

Whole == [s \in Slots |-> "image"]

\* Anything for one face, images for the others.
OddFace(f) ==
  {[Whole EXCEPT ![<<f, "deu">>] = k, ![<<f, "eng">>] = l] : k, l \in Kinds}

Decent(f) == {lib \in OddFace(f) : \A s \in Slots : lib[s] # "unknown"}

TheImporter == CHOOSE p \in Importers : TRUE

\* One process that replaces files, and cards that are all there.
Plain(library, cards) ==
  [importers |-> {TheImporter}, stored |-> cards, coming |-> {}, dropping |-> {},
   library |-> library, replace |-> TRUE, first |-> 1, size |-> 1,
   runs |-> 1, hiccups |-> {}]

\* Interrupted once, while a card is added and a face deleted; with a card request
\* that may fail, and with two cards of a set.
Interrupted ==
  {[Plain(lib, {2, 3} \ coming) EXCEPT !.coming = coming, !.dropping = {3}, !.runs = 2] :
     lib \in OddFace(2), coming \in {{}, {2}}}
  \cup {[Plain(lib, {2}) EXCEPT !.runs = 2, !.hiccups = {<<2, "deu">>}] : lib \in OddFace(2)}
  \cup {[Plain(Whole, {1, 2}) EXCEPT !.runs = 2, !.hiccups = h] : h \in {{}, {<<3, "deu">>}}}

\* Pages of one to three cards, while cards are added before and behind.
Paged ==
  {[Plain(lib, {1, 2, 3} \ coming) EXCEPT !.coming = coming, !.dropping = {3}, !.size = n] :
     lib \in Decent(2), coming \in SUBSET {1, 3}, n \in 1..3}

\* Imports that begin with another page than the first one.
Skipping ==
  {[Plain(Whole, {1, 2, 3} \ coming) EXCEPT !.coming = coming, !.first = n, !.size = m] :
     coming \in SUBSET {1, 3}, n \in {0, 2, 3}, m \in 1..2}

\* Two processes that replace nothing, started twice, or both replace files.
Twofold ==
  {[Plain(Whole, {1}) EXCEPT !.importers = Importers, !.replace = FALSE, !.runs = 2,
      !.hiccups = {<<1, "deu">>}],
   [Plain(Whole, {1}) EXCEPT !.importers = Importers]}

AllSetups == Interrupted \cup Paged \cup Skipping \cup Twofold

\* For the runs that find a flaw.
OneByOne == {Plain(Whole, {1, 2})}
Hiccup == {[Plain(Whole, {1}) EXCEPT !.hiccups = {<<1, "deu">>}]}
Created == {[Plain(lib, {2}) EXCEPT !.replace = FALSE, !.runs = 2] : lib \in OddFace(2)}
Dropped == {[Plain(Whole, {2}) EXCEPT !.dropping = {3}]}
=============================================================================
