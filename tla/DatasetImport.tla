--------------------------- MODULE DatasetImport ---------------------------
(***************************************************************************)
(* The dataset import of internal/mtgjson: a parser goroutine streams the  *)
(* decoded cards and sets of one JSON document over an unbuffered channel, *)
(* the loop of Import receives them, imports a set itself, collects the    *)
(* faces of a multi-face card and hands every complete card to a goroutine *)
(* of an errgroup, and finally waits for those goroutines.                 *)
(*                                                                         *)
(* A document is the sequence of the items the parser meets in it.  An     *)
(* item stands for its position: the faces of a card are the set of the    *)
(* positions of the card objects it was collected from.                    *)
(***************************************************************************)
EXTENDS Naturals, Sequences, FiniteSets

CONSTANTS
  Keys,       \* "<set code>_<number>", what identifies a card
  Documents   \* the documents Import may be called with

CardKinds == {"card", "badcard"}  \* badcard: its multiverse id is no number
EndKinds  == {"set", "nocode"}    \* the end of a set, with or without a code

\* A token that is not the expected one, inside a set (junk), where a set code
\* is expected (badkey), and in a value that is skipped (badskip).
ErrorKinds == {"junk", "badkey", "badskip"}

Items == [kind   : CardKinds \cup EndKinds \cup ErrorKinds,
          key    : Keys,
          others : Nat,       \* length of otherFaceIds
          meld   : BOOLEAN]   \* layout is "meld"

\* A document ends where a set ends or where it is cut short, and the keys of
\* the data object come between the sets.
IsDocument(d) ==
  /\ d # << >> => d[Len(d)].kind \in EndKinds \cup ErrorKinds
  /\ \A i \in DOMAIN d :
       d[i].kind \in {"badkey", "badskip"} /\ i > 1
         => d[i - 1].kind \in {"set", "badskip"}

ASSUME DocumentsAssumption ==
  Documents \subseteq {d \in Seq(Items) : IsDocument(d)}

VARIABLES
  doc,        \* the document; constant during an import
  ppc,        \* parser: "read", "send" (blocked on the channel) or "closed"
  pos,        \* parser: position of the item it reads or sends
  ipc,        \* Import: "receive", "handle", "wait", "check" or "returned"
  cur,        \* Import: position of the item received last
  collector,  \* faceCollector: the faces collected so far, by key
  worker,     \* state of the goroutine started at an item, if one was
  faces,      \* the faces of the card that goroutine imports
  cancelled,  \* ctx of the errgroup
  setsDone,   \* sets setService.Import has imported
  result      \* "none", "ok", or which return statement gave the error

vars == <<doc, ppc, pos, ipc, cur, collector, worker, faces, cancelled,
          setsDone, result>>

parserVars == <<ppc, pos>>
importVars == <<ipc, cur, collector, setsDone, result>>
workerVars == <<worker, faces, cancelled>>

Positions == DOMAIN doc

\* mtgjsonCard.FaceCount: the back of a meld card is no face of its own.
FaceCount(item) == IF item.meld THEN 1 ELSE item.others + 1

Init ==
  /\ doc \in Documents
  /\ ppc = "read"
  /\ pos = 1
  /\ ipc = "receive"
  /\ cur = 0
  /\ collector = [k \in Keys |-> {}]
  /\ worker = [i \in DOMAIN doc |-> "none"]
  /\ faces = [i \in DOMAIN doc |-> {}]
  /\ cancelled = FALSE
  /\ setsDone = {}
  /\ result = "none"

-----------------------------------------------------------------------------
(* The parser goroutine. *)

Close ==
  /\ ppc' = "closed"
  /\ UNCHANGED <<doc, pos, importVars, workerVars>>

Offer ==
  /\ ppc' = "send"
  /\ UNCHANGED <<doc, pos, importVars, workerVars>>

Reads(kinds) == ppc = "read" /\ pos \in Positions /\ doc[pos].kind \in kinds

ParserLeavesChannelOpen == Reads(CardKinds) /\ ~ cancelled /\ Offer  \* mutant

\* Both loops look at ctx before they decode the next field or card.
ParseCard == Reads(CardKinds) /\ IF cancelled THEN Close ELSE Offer

\* The set itself is sent after its last field without another look at ctx.
ParseSet == Reads({"set"}) /\ Offer

SetCancelled == Reads({"set"}) /\ cancelled /\ Close

\* A set without a code is left before its closing brace, so that neither loop
\* of parse finds anything more in the document.
ParseSetWithoutCode == Reads({"nocode"}) /\ Close

\* An error out of parseSet is dropped when ctx is cancelled by then.
ParseError == Reads({"junk"}) /\ IF cancelled THEN Close ELSE Offer

\* Errors between the sets are sent whatever the state of ctx.
KeyError == Reads({"badkey", "badskip"}) /\ Offer

EndOfDocument == ppc = "read" /\ pos \notin Positions /\ Close

Parse ==
  \/ ParseCard \/ ParseSet \/ SetCancelled \/ ParseSetWithoutCode
  \/ ParseError \/ KeyError \/ EndOfDocument

-----------------------------------------------------------------------------
(* The loop of Import.  Receive is the rendezvous on the channel. *)

\* No return after an error between the sets                       mutant
SendsAgain(item) ==
  IF item.kind = "junk" THEN "closed"
  ELSE IF item.kind = "badkey" THEN "send" ELSE "read"

\* The parser returns after an error, except after one out of skip in the data
\* object, where it goes on with the next key.
AfterSend(item) ==
  IF item.kind \in {"junk", "badkey"} THEN "closed" ELSE "read"

Receive ==
  /\ ipc = "receive"
  /\ ppc = "send"
  /\ ipc' = "handle"
  /\ cur' = pos
  /\ pos' = pos + 1
  /\ ppc' = AfterSend(doc[pos])
  /\ UNCHANGED <<doc, collector, setsDone, result, workerVars>>

Handles(kinds) == ipc = "handle" /\ doc[cur].kind \in kinds

Return(reason) ==
  /\ ipc' = "returned"
  /\ result' = reason

HandleError ==
  /\ Handles(ErrorKinds)
  /\ Return("parse")
  /\ UNCHANGED <<doc, cur, collector, setsDone, parserVars, workerVars>>

HandleSet ==
  /\ Handles({"set"})
  /\ ipc' = "receive"
  /\ setsDone' = setsDone \cup {cur}
  /\ UNCHANGED <<doc, cur, collector, result, parserVars, workerVars>>

HandleSetFails ==
  /\ Handles({"set"})
  /\ Return("set")
  /\ UNCHANGED <<doc, cur, collector, setsDone, parserVars, workerVars>>

HandleBadCard ==
  /\ Handles({"badcard"})
  /\ Return("map")
  /\ UNCHANGED <<doc, cur, collector, setsDone, parserVars, workerVars>>

\* AppendRequiredFace: the faces collected with the one in hand, and whether
\* the card still lacks faces.  The count is that of the face in hand.
FacesWith(i) == {i} \cup collector[doc[i].key]

CountsStoredFaces(i) ==         \* mutant
  \/ collector[doc[i].key] = {}
  \/ Cardinality(collector[doc[i].key]) # FaceCount(doc[i])

PairsFaces(i) == collector[doc[i].key] = {}                        \* mutant

LacksTooMany(i) == Cardinality(FacesWith(i)) > FaceCount(doc[i])   \* mutant

LacksFaces(i) ==
  \/ collector[doc[i].key] = {}
  \/ Cardinality(FacesWith(i)) # FaceCount(doc[i])

CollectFace ==
  /\ Handles({"card"})
  /\ FaceCount(doc[cur]) > 1
  /\ LacksFaces(cur)
  /\ collector' = [collector EXCEPT ![doc[cur].key] = FacesWith(cur)]
  /\ ipc' = "receive"
  /\ UNCHANGED <<doc, cur, setsDone, result, parserVars, workerVars>>

\* errg.Go with the card of these faces.
StartWorker(ff) ==
  /\ worker' = [worker EXCEPT ![cur] = "running"]
  /\ faces' = [faces EXCEPT ![cur] = ff]
  /\ ipc' = "receive"
  /\ UNCHANGED <<doc, cur, setsDone, result, cancelled, parserVars>>

CompleteCard ==
  /\ Handles({"card"})
  /\ FaceCount(doc[cur]) > 1
  /\ ~ LacksFaces(cur)
  /\ collector' = [collector EXCEPT ![doc[cur].key] = {}]
  /\ StartWorker(FacesWith(cur))

SingleFacedCard ==
  /\ Handles({"card"})
  /\ FaceCount(doc[cur]) = 1
  /\ StartWorker({cur})
  /\ UNCHANGED collector

ChannelClosed ==
  /\ ipc = "receive"
  /\ ppc = "closed"
  /\ ipc' = "wait"
  /\ UNCHANGED <<doc, cur, collector, setsDone, result, parserVars, workerVars>>

Running == {i \in Positions : worker[i] = "running"}
Failed  == {i \in Positions : worker[i] = "failed"}

WithoutWaiting == TRUE          \* mutant
AllWorkersEnded == Running = {}

ErrorDropped == FALSE           \* mutant
ErrgroupError == Failed # {}

\* errg.Wait cancels ctx and returns the first error of a goroutine.
Wait ==
  /\ ipc = "wait"
  /\ AllWorkersEnded
  /\ cancelled' = TRUE
  /\ IF ErrgroupError THEN Return("worker") ELSE ipc' = "check" /\ UNCHANGED result
  /\ UNCHANGED <<doc, cur, collector, setsDone, parserVars, worker, faces>>

NothingUncollected == FALSE     \* mutant
HasUncollectedEntries == \E k \in Keys : collector[k] # {}

Uncollected ==
  /\ ipc = "check"
  /\ HasUncollectedEntries
  /\ Return("uncollected")
  /\ UNCHANGED <<doc, cur, collector, setsDone, parserVars, workerVars>>

\* The two Count queries of the report, either of which may fail.
CountRows ==
  /\ ipc = "check"
  /\ ~ HasUncollectedEntries
  /\ \E r \in {"ok", "count"} : Return(r)
  /\ UNCHANGED <<doc, cur, collector, setsDone, parserVars, workerVars>>

Import ==
  \/ Receive \/ HandleError \/ HandleSet \/ HandleSetFails \/ HandleBadCard
  \/ CollectFace \/ CompleteCard \/ SingleFacedCard \/ ChannelClosed
  \/ Wait \/ Uncollected \/ CountRows

-----------------------------------------------------------------------------
(* The goroutines of the errgroup.  They do not look at ctx, and an early   *)
(* return of Import does not stop them.                                     *)

WorkerSucceeds(i) ==
  /\ worker[i] = "running"
  /\ worker' = [worker EXCEPT ![i] = "done"]
  /\ UNCHANGED <<doc, faces, cancelled, parserVars, importVars>>

WorkerFails(i) ==
  /\ worker[i] = "running"
  /\ worker' = [worker EXCEPT ![i] = "failed"]
  /\ cancelled' = TRUE
  /\ UNCHANGED <<doc, faces, parserVars, importVars>>

Worker(i) == WorkerSucceeds(i) \/ WorkerFails(i)

\* The caller has its answer; what is left of the goroutines may still run.
Returned == ipc = "returned" /\ UNCHANGED vars

Next == Parse \/ Import \/ (\E i \in Positions : Worker(i)) \/ Returned

Spec == Init /\ [][Next]_vars

\* The Go scheduler runs every goroutine that can run, and a call of a service
\* ends, with or without an error.
Fairness ==
  /\ WF_vars(Parse)
  /\ WF_vars(Import)
  /\ WF_vars(\E i \in Positions : Worker(i))

FairSpec == Spec /\ Fairness

-----------------------------------------------------------------------------
(* Properties. *)

Reasons == {"none", "ok", "parse", "set", "map", "worker", "uncollected", "count"}
Errors  == Reasons \ {"none", "ok"}

\* Every variable has its type; a goroutine only has faces among the items.
TypeOK ==
  /\ doc \in Seq(Items)
  /\ ppc \in {"read", "send", "closed"}
  /\ pos \in Nat \ {0}
  /\ ppc = "send" => pos \in Positions
  /\ ipc \in {"receive", "handle", "wait", "check", "returned"}
  /\ cur \in Nat
  /\ ipc = "handle" => cur \in Positions
  /\ collector \in [Keys -> SUBSET Positions]
  /\ worker \in [Positions -> {"none", "running", "done", "failed"}]
  /\ faces \in [Positions -> SUBSET Positions]
  /\ cancelled \in BOOLEAN
  /\ setsDone \in SUBSET Positions
  /\ result \in Reasons

Imported(i) ==
  IF doc[i].kind = "set" THEN i \in setsDone
  ELSE \E j \in Positions : worker[j] = "done" /\ i \in faces[j]

\* The items in front of the first set that has no code.
Reachable == {i \in Positions : \A j \in 1..i : doc[j].kind # "nocode"}

\* When Import reports success, every card and every set that stands in front
\* of the first set without a code has been imported by a call that succeeded:
\* no item is lost in the channel, in the face collector, to a cancelled
\* context or to a goroutine whose error was not looked at.
SuccessIsComplete == result = "ok" => \A i \in Reachable : Imported(i)

\* What is handed to cardService.Import is one card: its faces share the key,
\* are as many as its last face announces, and belong to no other card and to
\* no entry of the collector.
CardsAreAssembledOnce ==
  \A i \in Positions : worker[i] # "none" =>
    /\ \A j \in faces[i] : doc[j].key = doc[i].key /\ doc[j].kind = "card"
    /\ Cardinality(faces[i]) = FaceCount(doc[i])
    /\ \A k \in Keys : faces[i] \cap collector[k] = {}
    /\ \A j \in Positions \ {i} : faces[i] \cap faces[j] = {}

\* A document as the publisher means it: only cards and sets, and every card
\* has one object for each of its faces, all of which say how many there are.
WellFormed ==
  /\ \A i \in Positions : doc[i].kind \in {"card", "set"}
  /\ \A i \in Positions : doc[i].kind = "card" =>
       LET siblings == {j \in Positions : doc[j].kind = "card"
                                          /\ doc[j].key = doc[i].key}
       IN  /\ Cardinality(siblings) = FaceCount(doc[i])
           /\ \A j \in siblings : FaceCount(doc[j]) = FaceCount(doc[i])

\* A well-formed document is refused only because a service failed, however
\* the faces of its cards are mixed and whatever order they come in.
WellFormedIsAccepted ==
  WellFormed => result \notin {"parse", "map", "uncollected"}

\* Of a well-formed document no card is ever given to two goroutines, which
\* would race to create the same (set, number) row.
OneWorkerPerCard ==
  WellFormed =>
    \A i, j \in Positions :
      worker[i] # "none" /\ worker[j] # "none" /\ i # j
        => doc[i].key # doc[j].key

\* A return at or after errg.Wait leaves nothing behind: no goroutine is
\* running and the parser has closed the channel.  (The four returns inside
\* the loop give no such promise.)
WaitLeavesNothingBehind ==
  result \in {"ok", "worker", "uncollected", "count"} =>
    Running = {} /\ ppc = "closed"

\* Import returns: the rendezvous on the unbuffered channel, the silent exits
\* of the parser and the wait for the goroutines never block it for good.
ImportReturns == <>(ipc = "returned")

\* The error of a goroutine is never swallowed: Import ends with an error,
\* that one or one it met earlier.
WorkerErrorSurfaces == (Failed # {} /\ result = "none") ~> (result \in Errors)

\* What the README says of the program: it "downloads the latest card data set
\* ... and imports it".  After a success every card and set of it is imported.
SuccessCoversDocument ==
  result = "ok" =>
    \A i \in Positions : doc[i].kind \in {"card", "set"} => Imported(i)

-----------------------------------------------------------------------------
(* The abstract specification.  A face belongs to the card of its key, and a *)
(* set to itself.                                                           *)

Importable == {i \in Positions : doc[i].kind \in {"card", "set"}}

UnitOf(i) == IF doc[i].kind = "card" THEN <<doc[i].key, 0>> ELSE <<"set", i>>

Contract == INSTANCE DatasetContract WITH
  unit     <- [i \in Importable |-> UnitOf(i)],
  required <- Reachable \cap Importable,
  imported <- {i \in Importable : Imported(i)},
  answer   <- IF result \in Errors THEN "error" ELSE result

\* The import does what its caller may rely on: no face is imported with those of
\* another card, whatever the document, "ok" comes when all of the reachable items
\* are imported, and nothing is imported after it.
ImplementsContract == Contract!Spec
=============================================================================
