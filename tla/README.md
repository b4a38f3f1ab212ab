# A TLA+ model of card-importer-go

Two command line programs share one PostgreSQL database. `cmd/dataset` reads the
data set of mtgjson.com, a JSON document of card sets with their cards, and
imports it; `cmd/images` walks through the cards of the database, downloads an
image for each face in each language from Scryfall, stores it as a file and
records it. This directory holds TLA+ modules of what those programs do, the
configurations that check them with TLC, and theorems about them that TLAPS
checks. Paths below are relative to `src/`.

## The system

| Component | State | Operations | Hard behaviour |
|---|---|---|---|
| data set import, `internal/mtgjson/{importer,dataset_parser,models}.go` | unbuffered channel, face collector, errgroup | parse, receive, collect faces, start a goroutine per card, wait, report | rendezvous of two goroutines, many workers, four early returns |
| card import, `internal/cards/{card_service,card,card_postgres}.go` | tables card, card_face, three join tables, card_face_translation | merge of card and faces, of types, of translations, each in a transaction | crash between transactions, identity of faces |
| type assignment, `card_service.go` (mergeTypes), `cardtypes_postgres.go` | type tables shared by all importers, row locks, connection pool | find, create, assign, remove | interleaved transactions, deadlock, pool exhaustion |
| set import, `internal/cards/cardset*.go` | tables card_block, card_set, card_set_translation | find or create the block, create or update the set, merge translations | no transaction: every statement may be the last one |
| image import, `internal/cards/images.go` with `internal/storage`, `internal/scryfall` | table card_image, files, report | page, skip, download with fallback, store, decode, add row | pages of a changing table, interruption between file and row, two processes |
| web client, `internal/web` | retry counter, timer, response body | request with retries | timer against context, one body for each attempt |
| data set loader, `internal/mtgjson/{loader,zip}.go` with `internal/storage` | files in `downloads` | download, unzip, import, remove | partial failure, kill and restart, two processes on the same paths |
| connection, `internal/postgres/connection.go` | pool | connect with pings, transactions | pool limit, a database that comes up late |
| configuration, logging, timing, test helpers | none | pure functions | not modelled |

They interact as follows. `cmd/dataset` connects, and the loader gets the data
set through the web client, stores and unzips it and gives the file to the
import. The parser goroutine hands results over an unbuffered
channel to `Import`, which calls `setService.Import` itself and starts one
goroutine for each complete card, which calls `cardService.Import`. These
goroutines meet in the database: on the rows of the type tables, which all cards
share, and in the pool. The image import reads what the other program writes,
page by page, while it may still be writing, and refers to faces by their id.

What makes each component correct:

- data set import: a success means that everything was imported; a card is put
  together from its own faces once; Import returns, and hides no error;
- card import: an imported card is exactly as given, whatever was there; a face
  that stays keeps its id; a crash is repaired by the next import;
- type assignment: all of a list or nothing; no deadlock without a reason; ends;
- web client: no request more or less than the retries allow; no body left open;
- data set loader: what is reported as imported was the whole document; archives
  are removed; nothing left behind is in the way;
- set import: exact for whoever gets through; a half import is no obstacle;
- image import: every row has its file; every card is visited; an interrupted
  import can be started again.

PROJECT.json lists the hazards one by one with the line where each bites.

## The modules

| Module | Models |
|---|---|
| `DatasetImport` | the parser, the channel, the loop of Import, the collector, the goroutines |
| `DatasetContract` | what the import promises to its caller; implemented by DatasetImport |
| `TypeAssignment` | mergeTypes and assignTypes statement by statement, with row locks and pool |
| `TypeMerge` | a merge of types in one step; implemented by TypeAssignment |
| `CardImport` | cardService.Import, one transaction a step, with crashes and later imports |
| `SetImport` | setService.Import statement by statement, several processes |
| `ImageImport` | images.Import with storage and Scryfall, interruptions, several processes |
| `WebRetry` | Get and WithRetry of the web client |
| `DatasetLoad` | cmd/dataset around the import: pings, download, unzip, removal; extends WebRetry |
| `SliceOps` | `remove` of the services: the last element fills the gap |
| `SliceOpsProofs` | lemmas on lists, on recursion over a list and induction |
| `DatasetImportProofs`, `TypeAssignmentProofs`, `CardImportProofs`, `SetImportProofs`, `ImageImportProofs`, `DatasetLoadProofs` | theorems about the module of that name |
| `MC...` | documents, data sets and libraries for TLC |

The modules fit together by what each takes as a single step. DatasetImport takes
a call of a service as one step that succeeds or fails; CardImport and SetImport
open that step. CardImport takes a transaction as one step, as the cards that are
imported at one time differ in their key (`OneWorkerPerCard` of DatasetImport)
and thus in their rows; the type tables are the exception, and TypeAssignment
opens that transaction and shows that it assigns all of a list or none of it
(`AllOrNothing`), and more: that concurrent merges are, for the faces and for the
table of names, steps of TypeMerge (`ImplementsAtomicMerge`), which is the step
MergeTypes of CardImport. DatasetLoad stands around DatasetImport: it has
the import as a reader of the file part by part that may fail, and adds where
that file comes from. WebRetry is a part of DatasetLoad: its actions are the ones of
one caller, and DatasetLoad composes them with those of the loader.

**DatasetImport.** A document is a sequence of items: a card (one object for each
face, with its key and the number of faces it announces), a card that mapToCard
refuses, a set (at its end, where parseSet sends it), a set without a code, a
JSON error inside a set, or an error at a key of the top level or of `data`.
`pos` and `ppc` are the parser, `ipc` and `cur` the loop of Import, `collector`
the FaceCollector, `worker[i]` the goroutine started on item i with `faces[i]`.
A send and its receive are one step. `Return` stands for all returns of Import, with
the reason in `result`; after an early one the goroutines go on and the parser
stays where it is, as in the code.

**DatasetContract.** The state is what of the data set has been imported, and the
answer. Units, the faces of one card or one set, are imported one after the
other, none twice, none mixed with another; the answer "ok" comes when all that
is required has been imported, and nothing is imported after it; after an error
some imports may still come, as the early returns of Import do not wait. The
refinement takes `imported` from the sets that are through and the goroutines
that are done, and `required` from the items in front of the first set without a
code.

**TypeAssignment.** `Workers` are cardService.Import goroutines in one merge each;
`found`, `pending`, `toCreate`, `dropped` are what mergeTypes computes. A new
type row is locked until commit (`excl`), an assigned one is share-locked
(`shared`); `Blockers` and `Deadlocked` model PostgreSQL and are marked external.
`MaxConns` is the limit of the pool. TypeMerge has the committed state only
(`assigned`, `table`): everything up to Commit is a stuttering step of it, Commit is
Merge, and a rollback is Refuse.

**CardImport.** A data set gives attributes and a sequence of faces for a card. A
face has an identity (name, text, flavor text: what `isSame` compares), other
columns, types and translations. `CardDiff`, `FaceDiff` and `TranslationDiff` are the
three methods Diff with the columns they compare; the one of a card stops at the
first difference among border, rarity and layout, which is enough as UpdateCard
writes all of them. `FaceSteps` is the order of the transactions. `Crash` ends the
process anywhere, `TransactionFails` one transaction; both may happen in any
import but the last. The order of rows from the database is left open.

**SetImport.** `pc` names the next statement. `isNew` and `todo` are what the code remembers
of earlier SELECTs: `ToCreate` is what removeSetTranslation leaves of the copied
list. A process has a sequence of calls; `Stop` ends one before any statement.
`Setups` gives the calls of each process and what the database has; `IsStore` are
the keys, foreign keys and unique columns of the tables.

**WebRetry and DatasetLoad.** `phase`, `counter`, `body` are the state of one call of Get;
`sent` and `last` record what the server has seen of it. The timer and the end
of the context are both enabled when both have come. A file is a sequence of parts
of versions of the data set, written and read one after the other, with the
set `by` of the processes that wrote it; a part written behind the end of a file
leaves a hole (0), as after a truncation by another process. An archive can be
unzipped when it is whole. The entries of an archive are unzipped to the same
paths each time, whatever the storage mode, and the download has a name of its
millisecond: `clock` advances or stays, so that two processes may share it.
`StorageFails`, `PingFails`, an answer that is not the one expected, and `Stop` may come
anywhere in all runs of a process but its last. `Publish` changes the data set
on the server. `getters` are requests of the Scryfall client (`Call`, `Reply`), whose
context may end at any time and which leave the body of a good answer open.
The import may or may not notice that a document is cut off (see
`dataset_truncated`); it notices a missing beginning.

**ImageImport.** A face with a language is a slot. What matters about a file is its
language, or that it is partial or broken. A request for a card that fails for a
reason other than 404 the client takes for a missing image; `hiccups` has the faces
and languages to which this happened in a run. Other failures end the import, as
`Stop` does. `order` and `torn` are history: the cards as the last query had them, and
the sets within which a page ended and whose cards had changed places in the query
for the next one. No action looks at them. `CardAdded` and
`FaceDeleted` are the other program. `Setups` holds what begins: the processes
that run, the cards, the library of Scryfall, the storage mode, the page size.

## The runs

| Run | Bounds | Distinct states | Shows |
|---|---|---|---|
| `load` | 1 process in either mode or 2, versions of 2 and of 1 part, archives of 0 to 2 entries, 0 to 3 retries, 1 to 3 starts | 420,000 | 5 invariants, `LastRunLoads` |
| `dataset` | 2 cards; 4 objects of 1 to 3 faces, 5 of two-faced cards and sets, 4 items of any kind | 350,000 | 6 invariants, `ImportReturns`, `WorkerErrorSurfaces`, `ImplementsContract` |
| `types` | 3 importers, 3 names, 2 connections | 160,000 | 5 invariants, `EveryImporterEnds`, `ImplementsAtomicMerge` |
| `cards` | 1 card with 2 faces in 2 or 3 imports, 2 cards in 2 | 60,000 | 4 invariants, 2 action properties, `RerunRepairs` |
| `sets` | 1 process with 2 or 3 calls, or 2 processes with 1 or 2, of the same set, of another version of it or of another set; 2 codes, 2 blocks, 2 languages | 150,000 | 4 invariants, `LastCallRepairs` |
| `images` | 2 cards of one set and 1 of another, 4 faces, 2 languages, pages of 1 to 3 from the first or a later one on, 2 starts, 1 face whose card request may fail; 2 processes in either mode | 300,000 | 5 invariants, `LastRunSettles` |

Each bound reaches the case that is at stake: two cards are enough to mix the faces
of one with the other, three faces to miss one in the middle; a deadlock needs
two importers with two names, and a third one on two connections shows that one
who waits for the pool holds nothing; two imports show that the second repairs
the first, and three that a repaired state is none too special; a third name and
face lets `remove` change an order; three cards on pages of one, two and three have a
full page, a last page, an insertion before the page, and a set that ends with a page
or is cut by it, in the same order or in another one. A second version that is
shorter than the first shows whether a file is truncated, two parts whether it
can be read half way; 0 and 3 retries have a first, a middle and a last attempt. Every property of these
runs is violated by at least one named variation of the code, the operators
marked `mutant` in the modules.

Deadlock checking is on in all runs; the modules have a stuttering step `Ended` or
`Returned` where the program has ended.

### What the code does not do

Six runs end in a counterexample. Each checks one property that a document, a
comment or a test states.

- `dataset_truncated`: parseSet returns for a set without a code in the middle of
  its object. The loops of parse then find no more data and close the channel:
  Import reports success and everything after that set is missing.
  `SuccessIsComplete` is thus stated, and proved, for what comes before.
- `types_agreeing`: importers whose lists agree can deadlock, as `remove` moves the
  last name to the place of a removed one. Retrying the import helps.
- `images_ties`: pages are ordered by set code only. Cards of a set may change
  places between two queries, and one may be on no page. `DoneMeansSettled`,
  `ReportAddsUp` and `LastRunSettles` are therefore stated for the cards that no query can
  hide (`Promised`): all that were there when the import began, on the pages it is to
  read, but for the sets that were torn in this run. A set of any number of cards is
  among them unless a page ended within it and the next query had it in another order.
- `images_language`: any failed card request counts as a missing image. After a
  timeout the English image is stored for the German one, and later runs skip it.
  If the request for the English one fails too, the image is counted as missing:
  `Settled` does not speak of faces and languages in `hiccups`.
- `images_leftovers`: in mode CREATE a file without a row makes every later run
  fail. In mode REPLACE, the default of the configuration file, there is no
  such obstacle (`ReplacingNeedsNoCleanup`).
- `images_orphans`: rows of card_image stay when DeleteFace deletes their face.

Known limits that no run shows as a violation: two image imports in mode REPLACE
may truncate each other's files, and one may take the half-written file of the other
for a broken image and leave it without a row, so that `RowsHaveTheirFile` and
`DoneMeansSettled` speak of one process, or of mode CREATE. Two processes that import
different versions of a set at the same time mix them; `ImportedIsExact` of
SetImport speaks of calls that agree (`NoConflict`). A set that loses its block keeps the old one unless
another column changes; `Matches` of SetImport leaves this open. Two faces with
the same name and texts may swap their ids (`ImportIsIdempotent` excludes them;
`SameFaceKeepsItsId` counts them, so that none is deleted that could stay).
The early returns of Import do not wait for the goroutines
(`WaitLeavesNothingBehind` speaks of the others; `ImplementsContract` allows imports
after an error and none after a success). Two loads at a time unzip to the same
path, and one may read a mixture: `SuccessReadsWhole` speaks of files that no other process
has written. An archive whose removal fails stays without a word, as the deferred
function assigns the error to a variable that is no result; `ArchivesAreRemoved`
excludes it, and the same holds for the errors of Close in Store and unzip, which are
lost. JSON files, downloaded or unzipped, are never removed. A directory entry of
an archive has size 0 and is refused as a bad entry before its kind is looked at. Transport
errors and timeouts of a request are never retried, only status codes are. A
negative number of retries would never equal the counter. The Scryfall client and
the image import do not close the bodies they read: `Reply` ends with the body of a good
answer open, and `BodiesAreClosed` asks of such a request only that the bodies of the
answers before are closed.

### Fairness

- `DatasetImport`: weak fairness of the parser, of the loop of Import and of each
  goroutine, as the Go scheduler runs every goroutine that can run and every
  service call returns or fails.
- `TypeAssignment`: weak fairness of the statements together: as long as one
  importer can go on, one does. It includes that a deadlock is detected, and no
  failure.
- `CardImport`: weak fairness of the import and of the next import, none of crashes
  or failures, which cannot happen in the last import: the claim is that
  an undisturbed import repairs, not that one comes.
- `DatasetLoad`: weak fairness of each process with its next start, and of each other
  caller of Get: timers fire, requests end at the latest with the timeout of the http client,
  which the configuration files set, and file operations end. `LastRunLoads` is about one process
  alone, whose last run meets a server that recovers within the retries.
- `SetImport`, `ImageImport`: weak fairness of each process and of its next start;
  the last one is not stopped.

## The proofs

All theorems are about every value of the constants that the assumption of the
module admits, and about any number of steps: documents, lists and archives of any length,
any number of processes, cards, names and retries. Each proof module
states its inductive invariant, one lemma for the first states and one for
the steps, in which every action is a step of its own. The invariants were
checked by TLC on the bounds of the runs before they were proved.

| Module | Theorems | Assumptions |
|---|---|---|
| `DatasetImportProofs` | `TypeCorrect`, `SuccessCompleteness`, `NothingLeftBehind`, `CardsAreWhole`, `MixedFacesAreAccepted`, `CardsDoNotRace`, `ContractIsKept`: all safety properties of the run and the refinement of DatasetContract | every document is a sequence of items |
| `TypeAssignmentProofs` | `TypeCorrect`, `NeverAPart`, `AssignedRowsStay`, `OrderedListsDoNotDeadlock`, `OnlyOwnDuplicatesFail`, `MergeIsAtomic`: all safety properties of the run and the refinement of TypeMerge | finitely many importers, a pool of at least one connection, a new face has no types yet |
| `CardImportProofs` | `TypeCorrect`, `OnlyBadRejected`, `Exact`, `CardsAgree`, `KeepsItsId`, `Idempotent`: all safety properties of the run, both action properties included | there is a data set; a valid card has a face; rows have a value for each column |
| `SetImportProofs` | `TypeCorrect`, `ImportsAreExact`, `OnlyBadOnesAreRefused`, `NotAllAreRefused`: all safety properties of the run | the database begins with its constraints satisfied |
| `ImageImportProofs` | `TypeCorrect`, `RowsAreTrue`, `NothingInTheWay`, `DoneIsSettled`, `ReportIsWhole`: all safety properties of the run | finitely many processes and cards; a card has a face; the page size is positive. The number of cards in a set, their order in each query and the failures of requests are left open |
| `DatasetLoadProofs` | `TypeCorrect`, `RequestsEnd`, `BodiesEnd`, `ArchivesEnd`, `SuccessIsWhole`: all safety properties of the run | every version of the data set has a part |

**DatasetImport.** `SuccessIsComplete` is not inductive, as it says nothing before the end. `IInv`
adds where every item in front of the parser is at any time: a card of which the
loop is done is in the collector or among the faces of a goroutine that was
started, a set was imported, and the item in hand is the one the parser is just
past. It adds that a channel that was closed without a cancelled context has no item left in front of
the first set without a code, that a cancelled context has a failed goroutine as
its reason, and that the loop gets behind
`wait` only with a closed channel and no goroutine running. At success the collector is empty
and no goroutine failed, so every item is with a goroutine that is done.
`Assembly` adds what the faces of the collector and of the goroutines are: faces of one
key each, and of no item that another one has; in a well-formed document the
collector never has more faces than announced, and one goroutine starts for a
key, with all of its faces. From both follow what a card consists of, that no two
goroutines share a card, and that every step is a step of DatasetContract or
leaves its state alone.

**TypeAssignment.** The invariant says of each importer where it is in its list
(`Local`: what it found, wants, has assigned and has dropped account for the whole
list at any statement), that a lock that is taken excludes the others
(`LocksExclude`), and that rows once read stay in the table. A face thus has all
of a list at Commit. For deadlocks it relates the order in which an
importer takes its locks to the order of its list: if one order sorts all the
lists then nobody in a circle of waiting importers can be the one that waits
for the greatest name. `remove` is why this needs lemmas on lists: it keeps the
elements of a list and not their order.

**CardImport.** `TypeOK` has unique ids, a card for every face and a face for every type and
translation (`KeysHold`). `KeysInv` has the ids and the references to faces, and
`CardInv` has each card of the database as one of the data sets so far gives it, and no
face of a card that is not there. `ImportedIsExact` says nothing
before the end, so `MergedInv` follows the transactions in the order of `FaceSteps`:
`Progress` says that those that are over have written the rows they are to write and, of
a card that is new, that those to come find none, as the code does not look for any.
What mergeCardFaces makes of the rows is `Matching`, the invariant of its recursion over the rows in
any order: each row is kept for a face it is the same as, deleted, or still to be treated,
each face has at most one row, and a row is deleted only when no face is left
for it. The ids of faces that are kept, updated or new are therefore different, which gives
`CardAndFacesAgree` and, on the rows, `SameFaceKeepsItsId`. For `ImportIsIdempotent` a
matching of equal faces is the identity on their rows, and the three comparisons find no difference.

**SetImport.** Nothing is atomic here, so the invariant follows what is still to be done. A
process that merges translations has only statements that lead to what is given
(`Toward`), and each language is settled or has a statement left (`Pending`). A
statement of another process with the same set settles its language too and
undoes none. A language that is given twice never gets there: the invariant
keeps that its last row will be refused, which is why an import that ends well
had none. For a process alone, `Careful` says that what earlier SELECTs found is still
so when a statement relies on it. With several processes this is true of one of them (`Lead`):
who takes away what another one relied on finds all that it relies on itself. The next statement of a
process is done before those behind it in all imports of the same set, as all take them in
one order (`InOrder`); while it fits, those behind it fit (`Follows`).

**ImageImport.** `FilesAreApart` and `NewOnes` say whose file is whose between storing it and
adding its row. For the progress, the invariant keeps the cards as the last query had them
(`Ordering`). The lemma on turning a page is `NotBack`: a promised card that the new query has
on an earlier page was on a page that was read. All cards up to it in the order before are on
those earlier pages, too: one that is now behind them has changed places with it,
so that both are of one set, which is cut by the end of the page and torn. There are thus no
more of them than those pages hold. Cards in front of the first page are told apart by
`Expected`. What was read is in the list of the page or was treated, and what was treated has its row, if
its request did not fail in passing, and was counted.

**DatasetLoad.** `RequestInv` ties the counter of a Get to the requests that were sent and an
open body to a caller that holds the answer. `LoadInv` says at each statement of the
loader which file it is about, who wrote it, which version it has and how many
of its parts are there; that an archive outlives the process only if it
was killed or the removal failed is a conjunct of its own.

What the proofs have found about the model: the property on deadlocks was stated for
pairs of importers and is wrong, as three importers can wait in a circle although
any two of their lists agree; two connections had hidden that from TLC, and
`VictimsHaveNoCommonOrder` now speaks of an order of all lists. `DoneMeansSettled` was
wrong for two processes that replace files, and `ImportedIsExact` of SetImport for calls
that contradict each other; both lacked runs that reach the case, which the
runs now have. `SomeoneGetsThrough` was wrong for processes that come to a set after
another call: one creates a translation for an older version of the set, finds it in the
next call, and then waits to create the second one, which the other process
has created before it fails on the first. It now speaks of calls that agree, and says more: it also holds
for processes with different sets, which share their blocks. Its proof uses that there are two
languages. With a third one `remove` would bring the translations left to create into
another order: of `a, b, c` one process creates `a`, another finds it and has `c, b` left to
create, and both may be refused. A language added to the mapper needs an order of the creates.

What stays with TLC is liveness under fairness and ENABLED, which are beyond the prover:
`ImportReturns`, `WorkerErrorSurfaces`, `EveryImporterEnds`, `RerunRepairs`, `LastCallRepairs`,
`LastRunSettles`, `LastRunLoads`. Every invariant, every action property and both refinements
that a passing run checks are proved. Induction over data is possible here as far as it can be
stated over a set of naturals: the lemmas `Induction`, `Recursion` and
`BoundedRecursion` of SliceOpsProofs show what FlattenSeq, ToCreate and MatchFaces compute for any list.

## What is not modelled

Configuration, logging, timing and flags have no state to speak of; the test
support (`internal/test`, the test container, Cleanup) is no part of the programs. The
value of the perceptual hash, and the dao's UpdateHashes, GetImages, CountImages and
FindAssignedSubTypes with its siblings, which no program calls, are left out, as
is Load of the storage. JSON syntax is the kind of an item. The values of
columns that no decision depends on are one value each. How FindURL picks a face by
its name in the answer of Scryfall is left out: `library` says for each face what
comes of it. Paths and sizes in archives are good or bad.

## The plan

Built, the most important first: DatasetImport, TypeAssignment, CardImport, SetImport,
ImageImport, WebRetry with DatasetLoad, the abstract specifications DatasetContract and
TypeMerge, and the proofs above. What is left is FindURL and the names of faces in
ImageImport: two faces of one name get the same image.
