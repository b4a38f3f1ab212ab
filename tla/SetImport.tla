------------------------------ MODULE SetImport ------------------------------
(***************************************************************************)
(* setService.Import of internal/cards.  Unlike the import of a card it    *)
(* uses no transaction: every statement commits at once, what it does next *)
(* depends on what earlier SELECTs returned, and an import may stop        *)
(* between any two statements.  One process imports its sets one after the *)
(* other; several processes may run on the same database.                  *)
(*                                                                         *)
(* A block is identified by its name, which is unique and never changes.   *)
(***************************************************************************)
EXTENDS Naturals, Sequences, FiniteSets, SliceOps

CONSTANTS
  Importers,  \* processes
  Codes,      \* set codes
  Attrs,      \* values of name, type, release date and total count together
  Names,      \* names of a set in other languages
  Blocks,     \* block names
  Setups,     \* [plan, store]: the successive calls of every process, and what
              \* the database has to begin with
  NoBlock,    \* a set without a block, NULL
  NoRow       \* no row for the set

Langs == {"deu", "eng"}           \* what the language mapper knows

SetType ==
  [code : Codes, attrs : Attrs, block : Blocks \cup {NoBlock},
   translations : Seq([lang : Langs, name : Names]),
   valid : BOOLEAN,               \* has a code and a type
   storable : BOOLEAN]            \* the type and the name suit the table

SetRow == [attrs : Attrs, block : Blocks \cup {NoBlock}]

\* The tables with their keys, unique and foreign ones.
IsStore(s) ==
  /\ s.sets \in [Codes -> SetRow \cup {NoRow}]
  /\ s.blocks \in SUBSET Blocks
  /\ \A c \in Codes : s.sets[c] # NoRow => s.sets[c].block \in s.blocks \cup {NoBlock}
  /\ s.translations \in SUBSET [code : Codes, lang : Langs, name : Names]
  /\ \A t \in s.translations : s.sets[t.code] # NoRow
  /\ \A t, u \in s.translations : t.code = u.code /\ t.lang = u.lang => t = u

ASSUME SetImportAssumption ==
  /\ NoBlock \notin Blocks
  /\ NoRow \notin SetRow
  /\ \A s \in Setups : s.plan \in [Importers -> Seq(SetType)] /\ IsStore(s.store)

VARIABLES
  plan,       \* the calls of every process, none for one that never runs; constant
  call,       \* number of the call a process is in
  pc,         \* its next statement
  isNew,      \* the set was created by this call
  todo,       \* statements left on translations: [op, lang, name]
  blockRows,  \* table card_block
  setRow,     \* table card_set
  transRow    \* table card_set_translation: [code, lang, name]

vars == <<plan, call, pc, isNew, todo, blockRows, setRow, transRow>>
database == <<blockRows, setRow, transRow>>

Set(p) == plan[p][call[p]]
Active == {p \in Importers : plan[p] # << >>}

Init ==
  /\ \E s \in Setups :
       /\ plan = s.plan
       /\ blockRows = s.store.blocks
       /\ setRow = s.store.sets
       /\ transRow = s.store.translations
  /\ call = [p \in Importers |-> 1]
  /\ pc = [p \in Importers |-> IF p \in Active THEN "start" ELSE "stopped"]
  /\ isNew = [p \in Importers |-> FALSE]
  /\ todo = [p \in Importers |-> << >>]

Goto(p, label) == pc' = [pc EXCEPT ![p] = label]

At(p, label) == pc[p] = label

-----------------------------------------------------------------------------
(* The block and the set. *)

Start(p) ==
  /\ At(p, "start")
  /\ Goto(p, IF ~ Set(p).valid THEN "refused"
             ELSE IF Set(p).block = NoBlock THEN "findSet" ELSE "findBlock")
  /\ UNCHANGED <<plan, call, isNew, todo, database>>

NeverCreatesBlock(p) ==                                        \* mutant
  /\ At(p, "findBlock")
  /\ Goto(p, "findSet")
  /\ UNCHANGED <<plan, call, isNew, todo, database>>

FindBlockByName(p) ==
  /\ At(p, "findBlock")
  /\ Goto(p, IF Set(p).block \in blockRows THEN "findSet" ELSE "createBlock")
  /\ UNCHANGED <<plan, call, isNew, todo, database>>

\* The name of a block is UNIQUE.
CreateBlock(p) ==
  /\ At(p, "createBlock")
  /\ IF Set(p).block \in blockRows
     THEN Goto(p, "refused") /\ UNCHANGED blockRows
     ELSE Goto(p, "findSet") /\ blockRows' = blockRows \cup {Set(p).block}
  /\ UNCHANGED <<plan, call, isNew, todo, setRow, transRow>>

RowOf(set) == [attrs |-> set.attrs, block |-> set.block]

BlockIsKept(row, set) == row.attrs # set.attrs                 \* mutant

\* CardSet.Diff: a missing block is no change.
HasChanges(row, set) ==
  \/ row.attrs # set.attrs
  \/ set.block # NoBlock /\ row.block # set.block

FindCardSetByCode(p) ==
  /\ At(p, "findSet")
  /\ LET row == setRow[Set(p).code]
     IN  /\ isNew' = [isNew EXCEPT ![p] = row = NoRow]
         /\ Goto(p, CASE row = NoRow            -> "createSet"
                      [] row # NoRow /\ HasChanges(row, Set(p)) -> "updateSet"
                      [] OTHER                  -> "translations")
  /\ UNCHANGED <<plan, call, todo, database>>

\* The code is the primary key.
CreateCardSet(p) ==
  /\ At(p, "createSet")
  /\ IF Set(p).storable /\ setRow[Set(p).code] = NoRow
     THEN /\ setRow' = [setRow EXCEPT ![Set(p).code] = RowOf(Set(p))]
          /\ Goto(p, "translations")
     ELSE Goto(p, "refused") /\ UNCHANGED setRow
  /\ UNCHANGED <<plan, call, isNew, todo, blockRows, transRow>>

\* No row is ever deleted, so that there is one to update.
UpdateCardSet(p) ==
  /\ At(p, "updateSet")
  /\ IF Set(p).storable
     THEN /\ setRow' = [setRow EXCEPT ![Set(p).code] = RowOf(Set(p))]
          /\ Goto(p, "translations")
     ELSE Goto(p, "refused") /\ UNCHANGED setRow
  /\ UNCHANGED <<plan, call, isNew, todo, blockRows, transRow>>

-----------------------------------------------------------------------------
(* mergeSetTranslations. *)

Op(op, t) == [op |-> op, lang |-> t.lang, name |-> t.name]

PosOf(tt, lang) == SelectInSeq(tt, LAMBDA t : t.lang = lang)

RemoveLang(tt, t) ==
  IF PosOf(tt, t.lang) = 0 THEN tt ELSE RemoveSwap(tt, PosOf(tt, t.lang))

KeepsName(tt, t) ==                                            \* mutant
  IF PosOf(tt, t.lang) = 0 THEN <<Op("delete", t)>> ELSE << >>

\* What to do about a translation of the database.
MergeOne(tt, t) ==
  LET i == PosOf(tt, t.lang)
  IN  CASE i = 0                        -> <<Op("delete", t)>>
        [] i # 0 /\ tt[i].name # t.name -> <<Op("update", tt[i])>>
        [] OTHER                        -> << >>

AllOfThem(tt, old) == tt                                       \* mutant

\* The translations that are left when those of the database are removed.
ToCreate(tt, old) ==
  LET left[i \in 0..Len(old)] == IF i = 0 THEN tt ELSE RemoveLang(left[i - 1], old[i])
  IN  left[Len(old)]

\* The statements that turn the translations old, sorted by language, into tt.
Statements(tt, old) ==
  FlattenSeq([i \in DOMAIN old |-> MergeOne(tt, old[i])])
    \o [i \in DOMAIN ToCreate(tt, old) |-> Op("create", ToCreate(tt, old)[i])]

OfSet(code) == {t \in transRow : t.code = code}

InLang(rows, lang) == SetToSeq({t \in rows : t.lang = lang})

Sorted(rows) == InLang(rows, "deu") \o InLang(rows, "eng")

FindsNothing(p) == {}                                          \* mutant

\* A new set has no translations, and none are looked for.
Found(p) == IF isNew[p] THEN {} ELSE OfSet(Set(p).code)

FindTranslations(p) ==
  /\ At(p, "translations")
  /\ todo' = [todo EXCEPT ![p] = Statements(Set(p).translations, Sorted(Found(p)))]
  /\ Goto(p, "merge")
  /\ UNCHANGED <<plan, call, isNew, database>>

\* UPDATE and DELETE expect one row, INSERT that there is none yet.
Affected(p, s) == {t \in OfSet(Set(p).code) : t.lang = s.lang}

After(p, s) ==
  (transRow \ Affected(p, s))
    \cup IF s.op = "delete" THEN {}
         ELSE {[code |-> Set(p).code, lang |-> s.lang, name |-> s.name]}

MergeTranslation(p) ==
  /\ At(p, "merge") /\ todo[p] # << >>
  /\ LET s == Head(todo[p])
     IN  IF (s.op = "create") = (Affected(p, s) = {})
         THEN /\ transRow' = After(p, s)
              /\ todo' = [todo EXCEPT ![p] = Tail(@)]
              /\ UNCHANGED pc
         ELSE Goto(p, "refused") /\ UNCHANGED <<transRow, todo>>
  /\ UNCHANGED <<plan, call, isNew, blockRows, setRow>>

Finish(p) ==
  /\ At(p, "merge") /\ todo[p] = << >>
  /\ Goto(p, "done")
  /\ UNCHANGED <<plan, call, isNew, todo, database>>

Import(p) ==
  \/ Start(p) \/ FindBlockByName(p) \/ CreateBlock(p) \/ FindCardSetByCode(p)
  \/ CreateCardSet(p) \/ UpdateCardSet(p) \/ FindTranslations(p)
  \/ MergeTranslation(p) \/ Finish(p)

-----------------------------------------------------------------------------
(* An import that stops, and the next one. *)

Over(p) == pc[p] \in {"done", "refused", "stopped"}

\* A statement fails for a reason of its own, or the process dies.  The last
\* call of a process is left alone.
Stop(p) ==
  /\ ~ Over(p) /\ call[p] < Len(plan[p])
  /\ Goto(p, "stopped")
  /\ UNCHANGED <<plan, call, isNew, todo, database>>

NextCall(p) ==
  /\ Over(p) /\ call[p] < Len(plan[p])
  /\ call' = [call EXCEPT ![p] = @ + 1]
  /\ isNew' = [isNew EXCEPT ![p] = FALSE]
  /\ todo' = [todo EXCEPT ![p] = << >>]
  /\ Goto(p, "start")
  /\ UNCHANGED <<plan, database>>

Ended == (\A p \in Active : Over(p) /\ call[p] = Len(plan[p])) /\ UNCHANGED vars

Next == (\E p \in Importers : Import(p) \/ Stop(p) \/ NextCall(p)) \/ Ended

Spec == Init /\ [][Next]_vars

\* A statement ends, and the program is started again after it was stopped.
FairSpec == Spec /\ \A p \in Importers : WF_vars(Import(p) \/ NextCall(p))

-----------------------------------------------------------------------------
(* Properties. *)

Statement == [op : {"create", "update", "delete"}, lang : Langs, name : Names]

\* Every variable has its type, and the constraints of the tables hold.
TypeOK ==
  /\ call \in [Importers -> Nat]
  /\ \A p \in Active : call[p] \in DOMAIN plan[p]
  /\ pc \in [Importers -> {"start", "findBlock", "createBlock", "findSet", "createSet",
                           "updateSet", "translations", "merge", "done", "refused", "stopped"}]
  /\ \A p \in Importers \ Active : At(p, "stopped")
  /\ isNew \in [Importers -> BOOLEAN]
  /\ todo \in [Importers -> Seq(Statement)]
  /\ IsStore([sets |-> setRow, blocks |-> blockRows, translations |-> transRow])

NoRepeatedLang(set) ==
  \A i, j \in DOMAIN set.translations :
    set.translations[i].lang = set.translations[j].lang => i = j

Good(set) == set.valid /\ set.storable /\ NoRepeatedLang(set)

\* The database has the set as it was given; a set given without a block may
\* have the block it had before.
Matches(set) ==
  /\ setRow[set.code] # NoRow
  /\ setRow[set.code].attrs = set.attrs
  /\ set.block # NoBlock => setRow[set.code].block = set.block
  /\ {[lang |-> t.lang, name |-> t.name] : t \in OfSet(set.code)}
       = ToSet(set.translations)

\* What different processes import for the same code is the same set.
NoConflict ==
  \A p, q \in Active : \A i \in DOMAIN plan[p], k \in DOMAIN plan[q] :
    p # q /\ plan[p][i].code = plan[q][k].code => plan[p][i] = plan[q][k]

\* A set whose import has ended well is in the database as it was given: no row
\* that an import stopped half way has left behind is kept or is in the way.
ImportedIsExact ==
  NoConflict => \A p \in Importers : At(p, "done") => Matches(Set(p))

\* One process on its own is refused only for what is wrong with the set: the
\* rows of earlier, perhaps unfinished calls never break a constraint.
OnlyBadSetsAreRefused ==
  \A p \in Importers : Active = {p} /\ At(p, "refused") => ~ Good(Set(p))

\* Processes that run at the same time and agree on the sets they share are not all
\* refused, unless a set is bad: whoever loses a race for a row or a block loses it
\* to one that goes on.
SomeoneGetsThrough ==
  NoConflict /\ Active # {} /\ (\A p \in Active : At(p, "refused")) =>
    \E p \in Active : ~ Good(Set(p))

\* After any number of calls that stopped half way, the last call of a process
\* that is alone and has a good set ends with the set as it was given.
LastCallRepairs ==
  \A p \in Importers :
    (Active = {p} /\ Good(plan[p][Len(plan[p])])) ~>
      (call[p] = Len(plan[p]) /\ At(p, "done") /\ Matches(Set(p)))
=============================================================================
