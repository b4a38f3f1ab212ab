---------------------------- MODULE MCCardImport ----------------------------
(***************************************************************************)
(* Data sets for checking CardImport with TLC.                             *)
(***************************************************************************)
EXTENDS CardImport

\* The attributes of a card: as it was, with another layout, and with other
\* border and layout, of which Diff sees the border only.
Plain    == [k \in CardColumns |-> "a"]
Relaid   == [Plain EXCEPT !.layout = "b"]
Reframed == [Relaid EXCEPT !.border = "b"]
AllAttrs == {Plain, Relaid, Reframed}

\* Texts and faces vary in one column.
Trans(lang, text) ==
  [lang |-> lang,
   text |-> [k \in TranslationColumns |-> IF k = "type_line" THEN text ELSE "a"]]

\* A face with the sub types and translations given; the other kinds of types
\* go along with the sub types.
FaceOf(name, text, data, types, translations) ==
  [ident |-> <<name, text>>, translations |-> translations,
   data |-> [k \in FaceColumns |-> IF k = "artist" THEN data ELSE 0],
   types |-> [k \in Kinds |-> IF k = "superType" THEN << >> ELSE types]]

CardOf(attrs, ff) == [attrs |-> attrs, valid |-> TRUE, faces |-> ff]

Invalid == [attrs |-> Plain, valid |-> FALSE, faces |-> << >>]

Deu == Trans("deu", "a")
Fra == Trans("fra", "a")

Faces ==
  {FaceOf("N", "t", 1, <<"T">>, <<Deu>>),
   FaceOf("N", "u", 1, <<"T", "U">>, <<Trans("deu", "b"), Fra>>),
   FaceOf("N", "t", 2, <<"U">>, << >>)}

\* A data set with one card.
One(v) == [c \in {CHOOSE c \in Cards : TRUE} |-> v]

\* Versions of a card: one or two faces, also two that are the same one.
Versions == {CardOf(Plain, ff) : ff \in SeqOf(Faces, 2) \ {<< >>}}

\* One card, imported twice in any two versions.
TwoImports == {<<One(v), One(w)>> : v, w \in Versions}

Bad ==
  {Invalid, CardOf(Plain, <<FaceOf("N", "t", 1, <<"T", "T">>, << >>)>>),
   CardOf(Plain, <<FaceOf("M", "t", 1, <<"T">>, <<Deu, Trans("deu", "b")>>)>>)}

\* Imports in which a card is refused, before and after a good version of it.
BadImports ==
  {<<One(u), One(v), One(w)>> :
     u, w \in {CardOf(Plain, <<f>>) : f \in Faces}, v \in Bad}
  \cup {<<One(u), One(v)>> :
          u \in Bad, v \in {CardOf(Plain, <<f>>) : f \in Faces} \cup Bad}

\* A few changes: of attributes, of a text, in the number and order of faces.
Few ==
  {CardOf(Plain, <<FaceOf("N", "t", 1, <<"T">>, <<Deu>>)>>),
   CardOf(Reframed, <<FaceOf("N", "u", 1, <<"T", "U">>, <<Trans("deu", "b"), Fra>>),
                 FaceOf("N", "t", 2, << >>, << >>)>>)}

More ==
  Few \cup {CardOf(Relaid, <<FaceOf("N", "t", 1, <<"U">>, <<Fra>>), FaceOf("N", "u", 1, <<"T">>, <<Deu>>)>>)}

\* One card, imported three times.
ManyImports ==
  {<<One(u), One(v), One(w)>> : u \in Few, v, w \in More}

\* Two cards, imported twice; the second data set may leave some out.
PairImports ==
  {<<d, e>> : d \in [Cards -> Few], e \in UNION {[C -> Few] : C \in SUBSET Cards}}

AllPlans == TwoImports \cup BadImports \cup ManyImports \cup PairImports
=============================================================================
