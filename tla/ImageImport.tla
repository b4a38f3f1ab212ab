----------------------------- MODULE ImageImport -----------------------------
(***************************************************************************)
(* The image import of cmd/images: images.Import of internal/cards walks   *)
(* page by page through the cards of the database and gets every face in   *)
(* every language that has no image yet from Scryfall, stores the file in  *)
(* the local storage and then adds the row to card_image.  It works alone, *)
(* one request after the other, but it may be stopped at any point and     *)
(* started again, may be started twice, and the data set import may add    *)
(* cards meanwhile.                                                        *)
(*                                                                         *)
(* The path of a file consists of language, set code and face id, so that  *)
(* a file stands for its face and language.  What is in a file is the      *)
(* language of the image, as that is what can be wrong about it.           *)
(***************************************************************************)
EXTENDS Integers, Sequences, FiniteSets, SequencesExt

CONSTANTS
  Importers,   \* processes of the image import
  CodeOf,      \* for every card there may be its set code, a number in their order
  FacesOf,     \* faces of a card, in the order of the query
  Setups       \* what to begin with, see IsSetup

Cards == DOMAIN CodeOf

Langs == {"deu", "eng"}
LangOrder == <<"deu", "eng">>     \* GetSupportedLanguages
FallbackLang == "eng"

Faces == UNION {ToSet(FacesOf[c]) : c \in Cards}
Slots == Faces \X Langs

\* What Scryfall has for a face in a language: an image, nothing (no card or no
\* url), a url without an image, a file that is no JPEG, or one of an unknown type.
Kinds == {"image", "missing", "lost", "broken", "unknown"}

IsSetup(s) ==
  /\ s.importers \subseteq Importers     \* those that run
  /\ s.stored \subseteq Cards            \* cards in the database
  /\ s.coming \subseteq Cards            \* cards that a data set import adds
  /\ s.dropping \subseteq Faces          \* faces that it deletes
  /\ \A c \in Cards : ~ ToSet(FacesOf[c]) \subseteq s.dropping
  /\ s.library \in [Slots -> Kinds]      \* what Scryfall has
  /\ s.replace \in BOOLEAN              \* storage mode REPLACE, else CREATE
  /\ s.first \in Nat                    \* --page, where 0 and 1 are the first
  /\ s.size \in Nat \ {0}               \* --size; the program panics for 0
  /\ s.runs \in Nat \ {0}               \* bound on the starts of a process
  /\ s.hiccups \subseteq Slots          \* whose card requests may fail in passing

ASSUME ImageImportAssumption ==
  /\ IsFiniteSet(Importers) /\ IsFiniteSet(Cards)
  /\ CodeOf \in [Cards -> Nat]
  /\ \A c \in Cards : FacesOf[c] \in Seq(Faces) \ {<< >>}
  /\ \A s \in Setups : IsSetup(s)

VARIABLES
  setup,    \* one of Setups; constant
  present,  \* cards in the database
  gone,     \* faces deleted from it
  rows,     \* table card_image: [slot, content], content as it was hashed
  file,     \* the storage: "none", "partial", "broken" or the language stored
  pc,       \* what a process does next
  why,      \* why an import failed, "" if it did not
  page,     \* number of the last page that was read
  todo,     \* faces and languages of the page still to be done
  asked,    \* language of the request in hand
  got,      \* content of the download in hand
  known,    \* cards in the database when the import began
  report,   \* [imported, missing, skipped]
  runs,     \* starts of a process so far
  hiccups,  \* faces and languages whose card request failed in passing in this run
  order,    \* the cards as the last query of this run had them (history)
  torn      \* sets that came in another order over the end of a page (history)

ghosts == <<hiccups, order, torn>>

vars == <<setup, present, gone, rows, file, pc, why, page, todo, asked, got, known,
          report, runs, ghosts>>

NoReport == [imported |-> 0, missing |-> 0, skipped |-> 0]

\* Pages that are left out: max(pageConfig.Page - 1, 0)
PagesBefore == IF setup.first = 0 THEN 0 ELSE setup.first - 1

Init ==
  /\ setup \in Setups
  /\ present = setup.stored
  /\ gone = {}
  /\ rows = {}
  /\ file = [s \in Slots |-> "none"]
  /\ pc = [p \in Importers |-> IF p \in setup.importers THEN "page" ELSE "absent"]
  /\ why = [p \in Importers |-> ""]
  /\ page = [p \in Importers |-> PagesBefore]
  /\ todo = [p \in Importers |-> << >>]
  /\ asked = [p \in Importers |-> "eng"]
  /\ got = [p \in Importers |-> "none"]
  /\ known = [p \in Importers |-> present]
  /\ report = [p \in Importers |-> NoReport]
  /\ runs = [p \in Importers |-> 1]
  /\ hiccups = [p \in Importers |-> {}]
  /\ order = [p \in Importers |-> << >>]
  /\ torn = [p \in Importers |-> {}]

Goto(p, label) == pc' = [pc EXCEPT ![p] = label]
At(p, label) == pc[p] = label

Slot(p) == Head(todo[p])

\* The face and language in hand is done with, and counted.
Count(p, field) ==
  /\ report' = [report EXCEPT ![p][field] = @ + 1]
  /\ todo' = [todo EXCEPT ![p] = Tail(@)]
  /\ Goto(p, "check")

Fail(p, reason) ==
  /\ why' = [why EXCEPT ![p] = reason]
  /\ Goto(p, "failed")

-----------------------------------------------------------------------------
(* Pages.  ORDER BY cardSetCode leaves the order within a set open.         *)

Orders == {s \in SetToSeqs(present) : \A i, j \in DOMAIN s : i < j => CodeOf[s[i]] <= CodeOf[s[j]]}

Slice(s, offset, limit) ==
  SubSeq(s, offset + 1, IF offset + limit < Len(s) THEN offset + limit ELSE Len(s))

OverlongStep(s, n) == Slice(s, (n - 1) * (setup.size + 1), setup.size)  \* mutant

\* LIMIT and OFFSET of the n-th page.
PageOf(s, n) == Slice(s, (n - 1) * setup.size, setup.size)

InLanguage(c, lang) ==
  FlattenSeq([i \in DOMAIN FacesOf[c] |->
    IF FacesOf[c][i] \in gone THEN << >> ELSE << <<FacesOf[c][i], lang>> >>])

DefaultLanguageOnly(cards) ==                                  \* mutant
  FlattenSeq([i \in DOMAIN cards |-> InLanguage(cards[i], "deu")])

\* For every card, for every language, for every face.
Jobs(cards) ==
  FlattenSeq([i \in DOMAIN cards |->
    FlattenSeq([l \in DOMAIN LangOrder |-> InLanguage(cards[i], LangOrder[l])])])

Before(s, c, d) == \E i, j \in DOMAIN s : i < j /\ s[i] = c /\ s[j] = d

\* The set within which the page before ends, if two of its cards have changed
\* places since that page was read.
TornBy(s, p) ==
  {CodeOf[s[i]] : i \in
     {k \in DOMAIN s :
        /\ k = page[p] * setup.size /\ k < Len(s)
        /\ CodeOf[s[k]] = CodeOf[s[k + 1]]
        /\ \E c, d \in ToSet(order[p]) :
             /\ CodeOf[c] = CodeOf[s[k]] /\ CodeOf[d] = CodeOf[s[k]]
             /\ Before(order[p], c, d) /\ Before(s, d, c)}}

ReadPage(p) ==
  /\ At(p, "page")
  /\ page' = [page EXCEPT ![p] = @ + 1]
  /\ \E s \in Orders :
       LET cards == PageOf(s, page[p] + 1)
       IN  /\ todo' = [todo EXCEPT ![p] = Jobs(cards)]
           /\ Goto(p, IF cards = << >> THEN "done" ELSE "check")
           /\ order' = [order EXCEPT ![p] = s]
           /\ torn' = [torn EXCEPT ![p] = @ \cup TornBy(s, p)]
  /\ UNCHANGED <<setup, present, gone, rows, file, why, asked, got, known, report,
                 runs, hiccups>>

PageDone(p) ==
  /\ At(p, "check") /\ todo[p] = << >>
  /\ Goto(p, "page")
  /\ UNCHANGED <<setup, present, gone, rows, file, why, page, todo, got, asked, known,
                 report, runs, ghosts>>

-----------------------------------------------------------------------------
(* One face in one language. *)

HasRow(slot) == \E r \in rows : r.slot = slot

NeverPresent(slot) == FALSE                                    \* mutant
FileIsThere(slot) == file[slot] # "none"                       \* mutant
IsImagePresent(slot) == HasRow(slot)

SkipImage(p) ==
  /\ At(p, "check") /\ todo[p] # << >>
  /\ IsImagePresent(Slot(p))
  /\ Count(p, "skipped")
  /\ UNCHANGED <<setup, present, gone, rows, file, why, page, got, asked, known, runs,
                 ghosts>>

WantImage(p) ==
  /\ At(p, "check") /\ todo[p] # << >>
  /\ ~ IsImagePresent(Slot(p))
  /\ asked' = [asked EXCEPT ![p] = Slot(p)[2]]
  /\ Goto(p, "find")
  /\ UNCHANGED <<setup, present, gone, rows, file, why, page, todo, got, known,
                 report, runs, ghosts>>

\* GetImageWithFallback after ErrImageNotFound.
TryFallback(p) ==
  IF asked[p] # FallbackLang
  THEN /\ asked' = [asked EXCEPT ![p] = FallbackLang]
       /\ Goto(p, "find")
       /\ UNCHANGED <<todo, report>>
  ELSE Count(p, "missing") /\ UNCHANGED asked

\* What is there for the face in hand in the language asked for.
Offer(p) == setup.library[<<Slot(p)[1], asked[p]>>]

\* The request for the card and its url.  Every error of it, not only 404, is
\* taken for a missing image; hiccups are the errors of other kinds.
FindCard(p) ==
  /\ At(p, "find")
  /\ \/ /\ Offer(p) # "missing"
        /\ Goto(p, "get")
        /\ UNCHANGED <<asked, todo, report, hiccups>>
     \/ Offer(p) = "missing" /\ TryFallback(p) /\ UNCHANGED hiccups
     \/ /\ Slot(p) \in setup.hiccups
        /\ hiccups' = [hiccups EXCEPT ![p] = @ \cup {Slot(p)}]
        /\ TryFallback(p)
  /\ UNCHANGED <<setup, present, gone, rows, file, why, page, got, known, runs, order, torn>>

\* The request for the image; of its errors only 404 is a missing image, the
\* others end the import (Stop), as does a type without a file extension.
GetImage(p) ==
  /\ At(p, "get")
  /\ \/ Offer(p) = "lost" /\ TryFallback(p) /\ UNCHANGED <<got, why>>
     \/ Offer(p) = "unknown" /\ Fail(p, "type") /\ UNCHANGED <<asked, got, todo, report>>
     \/ /\ Offer(p) \in {"image", "broken"}
        /\ got' = [got EXCEPT ![p] = IF Offer(p) = "image" THEN asked[p] ELSE "broken"]
        /\ Goto(p, "open")
        /\ UNCHANGED <<asked, todo, report, why>>
  /\ UNCHANGED <<setup, present, gone, rows, file, page, known, runs, ghosts>>

OnlyNew(slot) == file[slot] = "none"                           \* mutant

\* Store: REPLACE truncates the file, otherwise it must not exist.
MayOpen(slot) == setup.replace \/ file[slot] = "none"

OpenFile(p) ==
  /\ At(p, "open")
  /\ IF MayOpen(Slot(p))
     THEN /\ file' = [file EXCEPT ![Slot(p)] = "partial"]
          /\ Goto(p, "copy")
          /\ UNCHANGED why
     ELSE Fail(p, "exists") /\ UNCHANGED file
  /\ UNCHANGED <<setup, present, gone, rows, page, todo, got, asked, known, report,
                 runs, ghosts>>

CopyFile(p) ==
  /\ At(p, "copy")
  /\ file' = [file EXCEPT ![Slot(p)] = got[p]]
  /\ Goto(p, "decode")
  /\ UNCHANGED <<setup, present, gone, rows, why, page, todo, got, asked, known,
                 report, runs, ghosts>>

TakesAnything(content) == TRUE                                 \* mutant
Decodes(content) == content \in Langs

\* The hash is that of the file as it is by now.
DecodeImage(p) ==
  /\ At(p, "decode")
  /\ IF Decodes(file[Slot(p)])
     THEN /\ got' = [got EXCEPT ![p] = file[Slot(p)]]
          /\ Goto(p, "add")
          /\ UNCHANGED <<todo, report>>
     ELSE Count(p, "missing") /\ UNCHANGED got
  /\ UNCHANGED <<setup, present, gone, rows, file, why, page, asked, known, runs,
                 ghosts>>

\* image_path is UNIQUE.
AddImage(p) ==
  /\ At(p, "add")
  /\ IF HasRow(Slot(p))
     THEN Fail(p, "duplicate") /\ UNCHANGED <<rows, todo, report>>
     ELSE /\ rows' = rows \cup {[slot |-> Slot(p), content |-> got[p]]}
          /\ Count(p, "imported")
          /\ UNCHANGED why
  /\ UNCHANGED <<setup, present, gone, file, page, got, asked, known, runs, ghosts>>

Import(p) ==
  \/ ReadPage(p) \/ PageDone(p) \/ SkipImage(p) \/ WantImage(p) \/ FindCard(p)
  \/ GetImage(p) \/ OpenFile(p) \/ CopyFile(p) \/ DecodeImage(p) \/ AddImage(p)

-----------------------------------------------------------------------------
(* Around the import. *)

Over(p) == pc[p] \in {"done", "failed", "stopped"}

\* A query, a request for an image or a file operation fails, the process is
\* interrupted, or it dies.  The last run of a process is left alone.
Stop(p) ==
  /\ ~ Over(p) /\ runs[p] < setup.runs
  /\ Goto(p, "stopped")
  /\ UNCHANGED <<setup, present, gone, rows, file, why, page, todo, got, asked, known,
                 report, runs, ghosts>>

Restart(p) ==
  /\ Over(p) /\ runs[p] < setup.runs
  /\ runs' = [runs EXCEPT ![p] = @ + 1]
  /\ why' = [why EXCEPT ![p] = ""]
  /\ page' = [page EXCEPT ![p] = PagesBefore]
  /\ todo' = [todo EXCEPT ![p] = << >>]
  /\ got' = [got EXCEPT ![p] = "none"]
  /\ known' = [known EXCEPT ![p] = present]
  /\ report' = [report EXCEPT ![p] = NoReport]
  /\ hiccups' = [hiccups EXCEPT ![p] = {}]
  /\ order' = [order EXCEPT ![p] = << >>]
  /\ torn' = [torn EXCEPT ![p] = {}]
  /\ Goto(p, "page")
  /\ UNCHANGED <<setup, present, gone, rows, file, asked>>

\* The data set import commits a card with its faces.
CardAdded ==
  /\ \E c \in setup.coming \ present : present' = present \cup {c}
  /\ UNCHANGED <<setup, gone, rows, file, pc, why, page, todo, got, asked, known,
                 report, runs, ghosts>>

\* The data set import deletes a face of a card that has others.  DeleteFace
\* leaves card_image alone, which has no foreign key.
FaceDeleted ==
  /\ \E f \in setup.dropping \ gone :
       (\E c \in present : f \in ToSet(FacesOf[c])) /\ gone' = gone \cup {f}
  /\ UNCHANGED <<setup, present, rows, file, pc, why, page, todo, got, asked, known,
                 report, runs, ghosts>>

Ended ==
  /\ \A p \in setup.importers : Over(p) /\ runs[p] = setup.runs
  /\ setup.coming \subseteq present /\ gone = setup.dropping
  /\ UNCHANGED vars

Next ==
  \/ \E p \in setup.importers : Import(p) \/ Stop(p) \/ Restart(p)
  \/ CardAdded \/ FaceDeleted
  \/ Ended

Spec == Init /\ [][Next]_vars

\* Requests and statements end, and an import that is over is started again.
FairSpec == Spec /\ \A p \in Importers : WF_vars(p \in setup.importers /\ (Import(p) \/ Restart(p)))

-----------------------------------------------------------------------------
(* Properties. *)

Labels == {"page", "check", "find", "get", "open", "copy", "decode", "add", "done", "failed",
           "stopped", "absent"}

Contents == {"none", "partial", "broken"} \cup Langs

\* Every variable has its type; no face has two rows for a language.
TypeOK ==
  /\ present \subseteq Cards
  /\ gone \subseteq setup.dropping
  /\ rows \subseteq [slot : Slots, content : Langs]
  /\ \A r, q \in rows : r.slot = q.slot => r = q
  /\ file \in [Slots -> Contents]
  /\ pc \in [Importers -> Labels]
  /\ why \in [Importers -> {"", "type", "exists", "duplicate"}]
  /\ page \in [Importers -> Nat]
  /\ todo \in [Importers -> Seq(Slots)]
  /\ asked \in [Importers -> Langs]
  /\ got \in [Importers -> Contents]
  /\ known \in [Importers -> SUBSET present]
  /\ report \in [Importers -> [imported : Nat, missing : Nat, skipped : Nat]]
  /\ runs \in [Importers -> 1..setup.runs]
  /\ hiccups \in [Importers -> SUBSET setup.hiccups]
  /\ order \in [Importers -> Seq(present)]
  /\ torn \in [Importers -> SUBSET Nat]

Alone == Cardinality(setup.importers) = 1

\* Every row has its file, complete and the one that was hashed, whatever was
\* interrupted: a row is never damaged by a later download for the same face.
\* Two processes that both replace files give no such guarantee.
RowsHaveTheirFile ==
  Alone \/ ~ setup.replace => \A r \in rows : file[r.slot] = r.content

\* The image Scryfall can give for a face, directly or by the fallback.
Obtainable(slot) ==
  \/ setup.library[slot] = "image"
  \/ /\ setup.library[slot] \in {"missing", "lost"}
     /\ setup.library[<<slot[1], FallbackLang>>] = "image"

SlotsOf(c) == ToSet(FacesOf[c]) \X Langs

\* Every face of the cards has every image that is to be had, but for those whose
\* card request failed in passing.
Settled(p, cards) ==
  \A s \in UNION {SlotsOf(c) : c \in cards} :
    s[1] \notin gone /\ s \notin hiccups[p] /\ Obtainable(s) => HasRow(s)

\* The cards that were there when the import began, but for those on the pages
\* it was told to leave out.
Expected(p) ==
  {c \in known[p] :
     Cardinality({d \in known[p] : CodeOf[d] < CodeOf[c]}) >= PagesBefore * setup.size}

\* Those of them that no query can hide: ORDER BY leaves the cards of a set in any
\* order, and a set that comes in another order over the end of a page may lose some.
Promised(p) == {c \in Expected(p) : CodeOf[c] \notin torn[p]}

\* When an import is done, every card that was there when it began has all the
\* images Scryfall has for it, although cards are added while it turns pages; but
\* for the cards of sets that were torn (run images_ties shows one that is lost),
\* and for the faces whose card request failed in passing, which are given up or
\* get the fallback.  Of two processes that both replace files one may take what
\* the other is still writing for a broken image, and leave it out.
DoneMeansSettled ==
  Alone \/ ~ setup.replace =>
    \A p \in Importers : At(p, "done") => Settled(p, Promised(p))

\* The report counts every face and language of those cards at least once.
ReportAddsUp ==
  \A p \in Importers : At(p, "done") =>
    report[p].imported + report[p].missing + report[p].skipped
      >= Cardinality((UNION {SlotsOf(c) : c \in Promised(p)}) \ (gone \X Langs))

\* An import alone in mode REPLACE never fails over a row or a file that an
\* interrupted one has left behind.
ReplacingNeedsNoCleanup ==
  Alone /\ setup.replace => \A p \in Importers : why[p] \notin {"exists", "duplicate"}

\* After interruptions, a last run of an import alone in mode REPLACE ends, and
\* gets all images that are to be had for the cards that no query can hide and
\* the requests that do not fail, if all images are of a type that is known.
LastRunSettles ==
  (Alone /\ setup.replace /\ \A s \in Slots : setup.library[s] # "unknown") ~>
    (\A p \in setup.importers :
       runs[p] = setup.runs /\ At(p, "done") /\ Settled(p, Promised(p)))

\* An import that is started again after it was interrupted, "import images
\* multiple times", does not fail over what it finds, in any mode.
LeftoversDoNoHarm ==
  Alone => \A p \in Importers : why[p] \notin {"exists", "duplicate"}

\* An image is stored for another language only if there is none in its own.
FallbackOnlyIfMissing ==
  \A r \in rows : r.content # r.slot[2] => setup.library[r.slot] \in {"missing", "lost"}

\* "Deletes the face with the given face ID and all references to it": an image
\* belongs to a face that exists.
ImagesHaveTheirFace == \A r \in rows : r.slot[1] \notin gone

\* "Returns cards limited by the given size for the given page": the pages, read
\* one after the other, have all the cards, also those of one set.
AllCardsAreProcessed ==
  \A p \in Importers : At(p, "done") => Settled(p, Expected(p))
=============================================================================
