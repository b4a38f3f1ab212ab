----------------------------- MODULE CardImport -----------------------------
(***************************************************************************)
(* cardService.Import of internal/cards, run by one goroutine for each     *)
(* card of a data set, in one import after the other.                      *)
(*                                                                         *)
(* A card is imported in several transactions: the card with its faces,    *)
(* then for each face its sub types, super types, card types and           *)
(* translations.  A process may die and a transaction may fail between     *)
(* any two of them; the next import of the data set has to make up for it. *)
(*                                                                         *)
(* The cards imported at the same time differ in set or number             *)
(* (DatasetImport), so that a transaction meets no other one on the rows   *)
(* of its card and is a single step.  The type names they share are in     *)
(* TypeAssignment, which also shows that a transaction on types assigns    *)
(* all of the list or leaves all as it was.                                *)
(***************************************************************************)
EXTENDS Naturals, Sequences, FiniteSets, SliceOps

CONSTANTS
  Cards,     \* (set code, number) of the cards
  Attrs,     \* values of the other columns of a card, see CardColumns
  Plans,     \* the data sets of successive imports, see PlanType
  None       \* no card row

Kinds == {"subType", "superType", "cardType"}

\* The columns that are compared before a row is updated.  The number and the set
\* code of a card, the name and texts of a face and the language of a translation
\* are not among them: by these a row has been found.
CardColumns == {"name", "border", "rarity", "layout"}

FaceColumns ==
  {"type_line", "converted_mana_cost", "colors", "artist", "hand_modifier",
   "life_modifier", "loyalty", "mana_cost", "multiverse_id", "power", "toughness"}

TranslationColumns == {"name", "text", "flavor_text", "type_line", "multiverse_id"}

\* The transactions on one face, in their order.
FaceSteps == <<"subType", "superType", "cardType", "translation">>

(***************************************************************************)
(* A card of a data set has attrs and a sequence of faces; a face has an   *)
(* identity (name, text and flavor text), the data of its other columns,   *)
(* a list of names for every kind of type, and a list of translations with *)
(* language and text.  An import has a card for some of Cards.             *)
(***************************************************************************)
IsList(s) == s \in Seq(ToSet(s))

\* One value for each of the columns.
HasColumns(data, columns) == data = [k \in columns |-> data[k]]

IsTranslation(t) ==
  /\ t = [lang |-> t.lang, text |-> t.text]
  /\ HasColumns(t.text, TranslationColumns)

IsFace(f) ==
  /\ HasColumns(f.data, FaceColumns)
  /\ \A k \in Kinds : IsList(f.types[k])
  /\ IsList(f.translations)
  /\ \A t \in ToSet(f.translations) : IsTranslation(t)

IsCard(card) ==
  /\ card.attrs \in Attrs
  /\ IsList(card.faces)
  /\ \A f \in ToSet(card.faces) : IsFace(f)
  /\ card.valid \in BOOLEAN
  /\ card.valid => card.faces # << >>

ASSUME CardImportAssumption ==
  /\ None \notin Attrs
  /\ \A attrs \in Attrs : HasColumns(attrs, CardColumns)
  /\ \A plan \in Plans :
       /\ IsList(plan) /\ plan # << >>
       /\ \A n \in DOMAIN plan : \A c \in DOMAIN plan[n] :
            c \in Cards /\ IsCard(plan[n][c])

VARIABLES
  plan,      \* the data sets; constant
  run,       \* number of the import that runs
  pc,        \* of a card: "card", "faces", "done", "rejected" or "failed"
  isNew,     \* the card was created by this import, isNewCard
  at,        \* number of transactions on its faces that are over
  ids,       \* the ids of its faces, set on the Face structs
  cardRow,   \* table card
  faceRow,   \* table card_face: [id, card, ident, data]
  typeRow,   \* the three join tables: [face, kind, name]
  transRow,  \* table card_translation: [face, lang, text]
  nextId     \* identity column of card_face

vars == <<plan, run, pc, isNew, at, ids, cardRow, faceRow, typeRow, transRow,
          nextId>>

database == <<cardRow, faceRow, typeRow, transRow>>

Data == plan[run]
Todo == DOMAIN Data

Start(n) ==
  /\ pc = [c \in DOMAIN plan[n] |-> "card"]
  /\ isNew = [c \in DOMAIN plan[n] |-> FALSE]
  /\ at = [c \in DOMAIN plan[n] |-> 0]
  /\ ids = [c \in DOMAIN plan[n] |-> << >>]

Init ==
  /\ plan \in Plans
  /\ run = 1
  /\ Start(1)
  /\ cardRow = [c \in Cards |-> None]
  /\ faceRow = {}
  /\ typeRow = {}
  /\ transRow = {}
  /\ nextId = 1

-----------------------------------------------------------------------------
(* The transaction on the card and its faces. *)

\* The columns of S in which a row and the incoming data differ.
Changed(S, row, data) == {k \in S : row[k] # data[k]}

\* Diff looks at these columns one by one until the first that differs.
Switched == <<"border", "rarity", "layout">>

CardDiff(row, attrs) ==
  LET i == SelectInSeq(Switched, LAMBDA k : row[k] # attrs[k])
  IN  Changed({"name"}, row, attrs) \cup (IF i = 0 THEN {} ELSE {Switched[i]})

\* UpdateCard writes all columns, also those which Diff has not looked at.
UpdateCard(row, attrs) == IF CardDiff(row, attrs) = {} THEN row ELSE attrs

\* The row of the card is inserted, or found and updated.
MergeCard(c) == IF cardRow[c] = None THEN Data[c].attrs
                ELSE UpdateCard(cardRow[c], Data[c].attrs)

RowsOf(c) == {r \in faceRow : r.card = c}

IsSame(f, row) == f.ident = row.ident

(***************************************************************************)
(* mergeCardFaces walks through the faces of the database.  Each takes the *)
(* first of the incoming faces left that is the same one, which gets its   *)
(* id; without such a face it is deleted.  What is left then is added.     *)
(* Incoming faces are named by their index in ff.                          *)
(* The query orders the rows by name; here they come in any order, which   *)
(* matters only for faces of one name and for the ids of those added.      *)
(***************************************************************************)
\* The position of the first of the faces left that is the same, or 0.
ContainsFace(ff, left, row) == SelectInSeq(left, LAMBDA k : IsSame(ff[k], row))

DeletesAll(ff, acc, row) == [acc EXCEPT !.gone = @ \cup {row.id}]  \* mutant

MatchFace(ff, acc, row) ==
  LET i == ContainsFace(ff, acc.left, row)
  IN  IF i = 0
      THEN [acc EXCEPT !.gone = @ \cup {row.id}]
      ELSE [acc EXCEPT !.kept = @ \cup {<<acc.left[i], row.id>>},
                       !.left = RemoveSwap(@, i)]

MatchFaces(ff, rows) ==
  LET found[i \in 0..Len(rows)] ==
        IF i = 0 THEN [left |-> [k \in DOMAIN ff |-> k], kept |-> {}, gone |-> {}]
        ELSE MatchFace(ff, found[i - 1], rows[i])
  IN  found[Len(rows)]

\* The faces left over are added in their order, with ids drawn from the column.
NewId(m, k) == nextId - 1 + SelectInSeq(m.left, LAMBDA l : l = k)

KeptId(m, k) ==
  IF \E id \in 1..nextId : <<k, id>> \in m.kept
  THEN CHOOSE id \in 1..nextId : <<k, id>> \in m.kept
  ELSE 0

\* The ids that the Face structs have after the merge, 0 for none.
UnsetIds(ff, m) == [k \in DOMAIN ff |-> KeptId(m, k)]           \* mutant

FaceIds(ff, m) ==
  [k \in DOMAIN ff |-> IF k \in ToSet(m.left) THEN NewId(m, k) ELSE KeptId(m, k)]

KeepsSubTypes(gone) ==                                         \* mutant
  {t \in typeRow : t.face \notin gone \/ t.kind = "subType"}

DeleteAllAssignments(rows, kind, gone) ==
  {t \in rows : t.kind = kind => t.face \notin gone}

\* DeleteFace first deletes what refers to the face.
TypesWithout(gone) ==
  DeleteAllAssignments(
    DeleteAllAssignments(
      DeleteAllAssignments(typeRow, "cardType", gone), "subType", gone), "superType", gone)

TranslationsWithout(gone) == {t \in transRow : t.face \notin gone}

\* The join tables refer to card_face without ON DELETE CASCADE.
ForeignKeyHolds(types, gone) == \A t \in types : t.face \notin gone

Goto(c, label) == pc' = [pc EXCEPT ![c] = label]

MissesArtist(row, f) == Changed(FaceColumns \ {"artist"}, row.data, f.data)   \* mutant

FaceDiff(row, f) == Changed(FaceColumns, row.data, f.data)

UpdateFace(row, f) ==
  IF FaceDiff(row, f) = {} THEN row
  ELSE [row EXCEPT !.ident = f.ident, !.data = f.data]

AddFace(c, id, f) == [id |-> id, card |-> c, ident |-> f.ident, data |-> f.data]

\* The faces of the card after the merge.
RowsAfter(c, ff, m) ==
  {UpdateFace(p[1], ff[p[2]]) :
     p \in {q \in RowsOf(c) \X DOMAIN ff : <<q[2], q[1].id>> \in m.kept}}
  \cup {AddFace(c, NewId(m, k), ff[k]) : k \in ToSet(m.left)}

\* At its end the merge counts the faces of the card.
MergeHolds(c, m) ==
  /\ ForeignKeyHolds(TypesWithout(m.gone), m.gone)
  /\ Cardinality(RowsAfter(c, Data[c].faces, m)) = Len(Data[c].faces)

\* What the merge may come to, by the order in which the rows are read.
Merges(c) == {MatchFaces(Data[c].faces, rows) : rows \in SetToSeqs(RowsOf(c))}

ImportCard(c) ==
  /\ pc[c] = "card"
  /\ Data[c].valid
  /\ \E m \in Merges(c) :
       /\ MergeHolds(c, m)
       /\ faceRow' = (faceRow \ RowsOf(c)) \cup RowsAfter(c, Data[c].faces, m)
       /\ typeRow' = TypesWithout(m.gone)
       /\ transRow' = TranslationsWithout(m.gone)
       /\ ids' = [ids EXCEPT ![c] = FaceIds(Data[c].faces, m)]
       /\ nextId' = nextId + Len(m.left)
  /\ cardRow' = [cardRow EXCEPT ![c] = MergeCard(c)]
  /\ isNew' = [isNew EXCEPT ![c] = cardRow[c] = None]
  /\ Goto(c, "faces")
  /\ UNCHANGED <<plan, run, at>>

\* Either isValid refuses the card, or the deletion of a face or the count is wrong.
RejectCard(c) ==
  /\ pc[c] = "card"
  /\ \/ ~ Data[c].valid
     \/ \E m \in Merges(c) : ~ MergeHolds(c, m)
  /\ Goto(c, "rejected")
  /\ UNCHANGED <<plan, run, isNew, at, ids, database, nextId>>

-----------------------------------------------------------------------------
(* The transactions on a face. *)

FaceIndex(c) == (at[c] \div Len(FaceSteps)) + 1
FaceStep(c)  == FaceSteps[(at[c] % Len(FaceSteps)) + 1]
FacesLeft(c) == pc[c] = "faces" /\ FaceIndex(c) <= Len(Data[c].faces)
Face(c)      == Data[c].faces[FaceIndex(c)]
FaceId(c)    == ids[c][FaceIndex(c)]

Advance(c) ==
  /\ at' = [at EXCEPT ![c] = @ + 1]
  /\ UNCHANGED <<plan, run, pc, isNew, ids, cardRow, faceRow, nextId>>

\* A new card has no rows yet, and the importer does not look for any.
Known(c, rows) == IF isNew[c] THEN {} ELSE rows

NoRepeatedName(list) == Cardinality(ToSet(list)) = Len(list)

MergeTypes(c) ==
  /\ FacesLeft(c) /\ FaceId(c) # 0
  /\ FaceStep(c) \in Kinds
  /\ LET list == Face(c).types[FaceStep(c)]
         mine == {t \in typeRow : t.face = FaceId(c) /\ t.kind = FaceStep(c)}
     IN  /\ NoRepeatedName(list)
         /\ typeRow' = (typeRow \ Known(c, mine)) \cup
              {[face |-> FaceId(c), kind |-> FaceStep(c), name |-> n] : n \in ToSet(list)}
  /\ UNCHANGED transRow
  /\ Advance(c)

Langs(tt) == {tt[i].lang : i \in DOMAIN tt}
FirstOf(tt, lang) == SelectInSeq(tt, LAMBDA t : t.lang = lang)

TranslationDiff(row, t) == Changed(TranslationColumns, row.text, t.text)

UpdateTranslation(row, t) ==
  IF TranslationDiff(row, t) = {} THEN row ELSE [row EXCEPT !.text = t.text]

KeepsOldText(tt, old) == {o \in old : o.lang \in Langs(tt)}   \* mutant

\* A translation of the database is updated from the first incoming one in its
\* language, or deleted; the incoming ones left over are added.
UpdatedTranslations(tt, old) ==
  {UpdateTranslation(t, tt[FirstOf(tt, t.lang)]) :
     t \in {o \in old : o.lang \in Langs(tt)}}

AddedTranslations(tt, old, face) ==
  {[face |-> face, lang |-> tt[i].lang, text |-> tt[i].text] :
     i \in {k \in DOMAIN tt :
              ~ \E o \in old : o.lang = tt[k].lang /\ FirstOf(tt, o.lang) = k}}

\* UNIQUE (lang_lang, face_id): a language that comes twice is refused.
NoRepeatedLang(tt) == Cardinality(Langs(tt)) = Len(tt)

MergeTranslations(c) ==
  /\ FacesLeft(c) /\ FaceId(c) # 0
  /\ FaceStep(c) = "translation"
  /\ LET tt  == Face(c).translations
         old == Known(c, {t \in transRow : t.face = FaceId(c)})
     IN  /\ NoRepeatedLang(tt)
         /\ transRow' = (transRow \ old) \cup UpdatedTranslations(tt, old)
                           \cup AddedTranslations(tt, old, FaceId(c))
  /\ UNCHANGED typeRow
  /\ Advance(c)

\* A face without an id is an error, and a repeated type or language breaks a
\* unique constraint.
RejectFace(c) ==
  /\ FacesLeft(c)
  /\ FaceId(c) # 0 =>
       IF FaceStep(c) = "translation"
       THEN ~ NoRepeatedLang(Face(c).translations)
       ELSE ~ NoRepeatedName(Face(c).types[FaceStep(c)])
  /\ Goto(c, "rejected")
  /\ UNCHANGED <<plan, run, isNew, at, ids, database, nextId>>

Finish(c) ==
  /\ pc[c] = "faces" /\ ~ FacesLeft(c)
  /\ Goto(c, "done")
  /\ UNCHANGED <<plan, run, isNew, at, ids, database, nextId>>

Import(c) ==
  \/ ImportCard(c) \/ RejectCard(c) \/ MergeTypes(c) \/ MergeTranslations(c)
  \/ RejectFace(c) \/ Finish(c)

-----------------------------------------------------------------------------
(* Failures, the end of the process, and the next import. *)

KeepsCardRow(c) ==                                             \* mutant
  cardRow' = [cardRow EXCEPT ![c] = IF pc[c] = "card" THEN Data[c].attrs ELSE @]

\* A failed transaction leaves no trace.
RolledBack(c) == UNCHANGED cardRow

TransactionFails(c) ==
  /\ run < Len(plan)
  /\ pc[c] = "card" \/ FacesLeft(c)
  /\ Goto(c, "failed")
  /\ RolledBack(c)
  /\ UNCHANGED <<plan, run, isNew, at, ids, faceRow, typeRow, transRow, nextId>>

RunEnded == \A c \in Todo : pc[c] \in {"done", "rejected", "failed"}

NextRun ==
  /\ run' = run + 1
  /\ pc' = [c \in DOMAIN plan[run + 1] |-> "card"]
  /\ isNew' = [c \in DOMAIN plan[run + 1] |-> FALSE]
  /\ at' = [c \in DOMAIN plan[run + 1] |-> 0]
  /\ ids' = [c \in DOMAIN plan[run + 1] |-> << >>]
  /\ UNCHANGED <<plan, database, nextId>>

\* The process dies wherever its goroutines are; open transactions are undone.
Crash == run < Len(plan) /\ ~ RunEnded /\ NextRun

Again == run < Len(plan) /\ RunEnded /\ NextRun

Ended == run = Len(plan) /\ RunEnded /\ UNCHANGED vars

Next ==
  \/ \E c \in Todo : Import(c) \/ TransactionFails(c)
  \/ Crash \/ Again \/ Ended

Spec == Init /\ [][Next]_vars

FairSpec == Spec /\ WF_vars((\E c \in Todo : Import(c)) \/ Again)

-----------------------------------------------------------------------------
(* Properties. *)

\* Every variable has its type, and the ids of faces were drawn from the column.
Typed ==
  /\ plan \in Plans
  /\ run \in DOMAIN plan
  /\ pc \in [Todo -> {"card", "faces", "done", "rejected", "failed"}]
  /\ isNew \in [Todo -> BOOLEAN]
  /\ at \in [Todo -> Nat]
  /\ nextId \in Nat \ {0}
  /\ ids \in [Todo -> Seq(1..(nextId - 1))]
  /\ cardRow \in [Cards -> Attrs \cup {None}]
  /\ \A r \in faceRow : r.id \in 1..(nextId - 1) /\ r.card \in Cards
  /\ \A t \in typeRow : t.kind \in Kinds

\* What the keys and the foreign keys of the tables say: no two faces have an id,
\* a face has its card, and a type or a translation has its face.
KeysHold ==
  /\ \A r, s \in faceRow : r.id = s.id => r = s
  /\ \A r \in faceRow : cardRow[r.card] # None
  /\ \A t \in typeRow \cup transRow : \E r \in faceRow : t.face = r.id

\* Every variable has its type, and the rows keep the keys of their tables.
TypeOK == Typed /\ KeysHold

\* What the tables hold of a face, and what a data set says of it.
Stored(r) ==
  [ident |-> r.ident, data |-> r.data,
   types |-> [k \in Kinds |-> {t.name : t \in {u \in typeRow : u.face = r.id /\ u.kind = k}}],
   translations |-> {[lang |-> t.lang, text |-> t.text] :
                       t \in {u \in transRow : u.face = r.id}}]

Given(f) ==
  [ident |-> f.ident, data |-> f.data,
   types |-> [k \in Kinds |-> ToSet(f.types[k])],
   translations |-> ToSet(f.translations)]

Count(S, P(_)) == Cardinality({x \in S : P(x)})

\* A card of the database is, face by face, what a data set has for it.
Matches(c, card) ==
  /\ cardRow[c] = card.attrs
  /\ Cardinality(RowsOf(c)) = Len(card.faces)
  /\ \A f \in ToSet(card.faces) :
       Count(RowsOf(c), LAMBDA r : Stored(r) = Given(f))
         = Count(DOMAIN card.faces, LAMBDA i : Given(card.faces[i]) = Given(f))

\* A card whose import has ended well is in the database exactly as the data
\* set has it, whatever an earlier import left behind half done: no type, no
\* translation and no face of the past survives.
ImportedIsExact == \A c \in Todo : pc[c] = "done" => Matches(c, Data[c])

\* At any time, after any crash, a card has its own attributes and complete
\* faces of one and the same data set, never the faces of none or of two.
CardAndFacesAgree ==
  \A c \in Cards : cardRow[c] # None =>
    \E n \in 1..run :
      /\ c \in DOMAIN plan[n]
      /\ cardRow[c] = plan[n][c].attrs
      /\ Cardinality(RowsOf(c)) = Len(plan[n][c].faces)
      /\ \A r \in RowsOf(c) : \E f \in ToSet(plan[n][c].faces) :
           r.ident = f.ident /\ r.data = f.data

\* Only a card that is invalid or repeats a type or a language is refused: the
\* foreign keys never stand in the way of the merge.
OnlyBadCardsAreRejected ==
  \A c \in Todo : pc[c] = "rejected" =>
    \/ ~ Data[c].valid
    \/ \E f \in ToSet(Data[c].faces) :
         (\E k \in Kinds : ~ NoRepeatedName(f.types[k])) \/ ~ NoRepeatedLang(f.translations)

\* A face keeps its id, to which its images refer: one is deleted only if the
\* card has more faces with its name and texts than the data set gives it.
SameFaceKeepsItsId ==
  [][\A r \in faceRow :
       (\A s \in faceRow' : s.id # r.id) =>
         /\ r.card \in Todo
         /\ Count(DOMAIN Data[r.card].faces, LAMBDA i : Data[r.card].faces[i].ident = r.ident)
              < Count(faceRow, LAMBDA s : s.card = r.card /\ s.ident = r.ident)]_vars

\* isSame tells any two faces of the card apart.
NoTwins(card) ==
  \A i, j \in DOMAIN card.faces :
    card.faces[i].ident = card.faces[j].ident => i = j

\* To import again what is already there changes nothing, not even an id, unless
\* the card has two faces with the same name and texts: those may change places.
ImportIsIdempotent ==
  [][\A c \in Todo : Matches(c, Data[c]) /\ NoTwins(Data[c]) /\ run' = run =>
       /\ {r \in faceRow' : r.card = c} = RowsOf(c)
       /\ \A r \in RowsOf(c) :
            /\ {t \in typeRow' : t.face = r.id} = {t \in typeRow : t.face = r.id}
            /\ {t \in transRow' : t.face = r.id} = {t \in transRow : t.face = r.id}]_vars

\* After failures and crashes a last undisturbed import ends, and every card it
\* does not refuse is there as the data set has it.
RerunRepairs ==
  <>(run = Len(plan) /\ \A c \in Todo :
       pc[c] = "rejected" \/ (pc[c] = "done" /\ Matches(c, Data[c])))
=============================================================================
