----------------------------- MODULE MCSetImport -----------------------------
(***************************************************************************)
(* Data sets and databases for checking SetImport with TLC.                *)
(***************************************************************************)
EXTENDS SetImport

Tr(lang, name) == [lang |-> lang, name |-> name]

SetOf(code, attrs, block, tt) ==
  [code |-> code, attrs |-> attrs, block |-> block, translations |-> tt,
   valid |-> TRUE, storable |-> TRUE]

\* Translations that are added, renamed and removed.
Lists ==
  {<< >>, <<Tr("eng", "n")>>, <<Tr("deu", "n"), Tr("eng", "n")>>,
   <<Tr("eng", "m"), Tr("deu", "n")>>}

GoodSets(code) == {SetOf(code, a, b, tt) : a \in Attrs, b \in Blocks \cup {NoBlock}, tt \in Lists}

TheCode == CHOOSE c \in Codes : TRUE

\* One set without type, one too long for its column, one with a language twice.
BadSets ==
  LET tt == <<Tr("eng", "m"), Tr("deu", "n")>>
  IN  {[SetOf(TheCode, "y", "b2", tt) EXCEPT !.valid = FALSE],
       [SetOf(TheCode, "y", "b2", tt) EXCEPT !.storable = FALSE],
       SetOf(TheCode, "y", "b2", <<Tr("deu", "n"), Tr("deu", "m")>>)}

Empty == [sets |-> [c \in Codes |-> NoRow], blocks |-> {}, translations |-> {}]

\* The database after the import of a set.
With(set) ==
  [sets |-> [Empty.sets EXCEPT ![set.code] = RowOf(set)],
   blocks |-> {set.block} \ {NoBlock},
   translations |-> {[code |-> set.code, lang |-> t.lang, name |-> t.name] :
                       t \in ToSet(set.translations)}]

Setup(calls, p, store) ==
  [plan |-> [q \in Importers |-> IF q = p THEN calls ELSE << >>], store |-> store]

TheImporter == CHOOSE p \in Importers : TRUE

\* One process, two calls with any two sets, good or bad.
TwoCalls ==
  {Setup(<<s, t>>, TheImporter, Empty) :
     s \in GoodSets(TheCode) \cup BadSets, t \in GoodSets(TheCode) \cup BadSets}

\* One process, three calls.
Few ==
  {s \in GoodSets(TheCode) :
     s.block # "b2" /\ s.translations \in {<<Tr("eng", "n")>>, <<Tr("eng", "m"), Tr("deu", "n")>>}}

ThreeCalls ==
  {Setup(<<s, t, u>>, TheImporter, Empty) : s \in Few, t \in Few \cup BadSets, u \in Few}

\* All processes with the same set, which may be started again once; the
\* database is empty or has the set as some older data set had it.
SameCalls ==
  {[plan |-> [p \in Importers |-> calls], store |-> store] :
     calls \in {<<s>> : s \in GoodSets(TheCode)} \cup {<<s, s>> : s \in Few},
     store \in {Empty} \cup {With(s) : s \in Few}}

\* Two processes with sets of different codes, that may share a block, and with
\* different sets of one code.
OtherCalls ==
  {[plan |-> [p \in Importers |-> IF p = TheImporter THEN <<s>> ELSE <<t>>], store |-> Empty] :
     s \in Few, t \in UNION {{[u EXCEPT !.code = c] : u \in Few} : c \in Codes}}

\* One process imports the set of the other after another version of it, or after
\* the set of another code.
LaterCalls ==
  LET one == {s \in Few : s.attrs = "x"}
      other == UNION {{[s EXCEPT !.code = c, !.translations = <<Tr("deu", "n")>>] : s \in one} : c \in Codes}
  IN  {[plan |-> [p \in Importers |-> IF p = TheImporter THEN <<s>> ELSE <<t, s>>],
        store |-> Empty] : s \in one, t \in other}

AllSetups == TwoCalls \cup ThreeCalls \cup SameCalls \cup OtherCalls \cup LaterCalls
=============================================================================
