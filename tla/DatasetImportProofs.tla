------------------------ MODULE DatasetImportProofs ------------------------
(***************************************************************************)
(* Proofs about DatasetImport for every set of keys and of documents.      *)
(***************************************************************************)
EXTENDS DatasetImport, FiniteSetTheorems, TLAPS

InHand(i) == ipc = "handle" /\ cur = i

\* An item that was received is either a set that is imported, or a face that
\* is in the collector or with a goroutine.
Handled(i) ==
  \/ doc[i].kind = "set" /\ i \in setsDone
  \/ /\ doc[i].kind = "card"
     /\ \/ \E k \in Keys : i \in collector[k]
        \/ \E j \in Positions : worker[j] # "none" /\ i \in faces[j]

NoError == result \in {"none", "ok"}
AfterWait == ipc = "check" \/ result \in {"ok", "uncollected", "count"}

\* As long as there is no error, the items in front of pos are handled.
ReceivedIsHandled ==
  \A i \in Positions : i < pos /\ ~ InHand(i) /\ NoError => Handled(i)

\* Goroutines belong to items that were handled; none is started twice.
WorkersAreBehind ==
  \A i \in Positions : worker[i] # "none" => i < pos /\ ~ InHand(i)

\* ctx is cancelled by a goroutine that failed, or by Wait.
CancelledByFailure == cancelled => Failed # {} \/ ipc \in {"check", "returned"}

\* The parser stops early only at a set without a code, at an error that Import
\* is about to return, or because a goroutine failed.
ClosedAtEnd ==
  ppc = "closed" /\ NoError /\ Failed = {} =>
    \/ pos \notin Positions
    \/ doc[pos].kind = "nocode"
    \/ ipc = "handle" /\ doc[cur].kind \in ErrorKinds

Phases ==
  /\ ipc = "returned" <=> result # "none"
  /\ ipc = "handle" => cur < pos
  /\ ipc = "wait" \/ result = "worker" \/ AfterWait => ppc = "closed"
  /\ result = "worker" \/ AfterWait => Running = {}
  /\ AfterWait => Failed = {}
  /\ result = "ok" => \A k \in Keys : collector[k] = {}

IInv ==
  /\ TypeOK
  /\ ReceivedIsHandled
  /\ WorkersAreBehind
  /\ CancelledByFailure
  /\ ClosedAtEnd
  /\ Phases

-----------------------------------------------------------------------------
(* Type correctness. *)

\* The types of Items and of a document that every step below relies on.
LEMMA DocumentType ==
  ASSUME doc \in Documents
  PROVE  doc \in Seq(Items) /\ Positions = 1..Len(doc) /\ Len(doc) \in Nat
BY DocumentsAssumption DEF Positions

\* Before the import begins every variable has its type.
LEMMA TypeInit == Init => TypeOK
<1> SUFFICES ASSUME Init PROVE TypeOK
  OBVIOUS
<1>1. doc \in Seq(Items) /\ Positions = 1..Len(doc) /\ Len(doc) \in Nat
  BY DocumentType DEF Init
<1>2. collector \in [Keys -> SUBSET Positions]
  BY DEF Init
<1>3. worker \in [Positions -> {"none", "running", "done", "failed"}]
  BY DEF Init, Positions
<1>4. faces \in [Positions -> SUBSET Positions]
  BY DEF Init, Positions
<1>5. /\ ppc \in {"read", "send", "closed"} /\ pos \in Nat \ {0}
      /\ ppc = "send" => pos \in Positions
      /\ ipc \in {"receive", "handle", "wait", "check", "returned"} /\ cur \in Nat
      /\ ipc = "handle" => cur \in Positions
  BY DEF Init
<1>6. cancelled \in BOOLEAN /\ setsDone \in SUBSET Positions /\ result \in Reasons
  BY DEF Init, Reasons
<1> QED
  BY ONLY <1>1, <1>2, <1>3, <1>4, <1>5, <1>6 DEF TypeOK

\* The steps of the parser change ppc only.
LEMMA TypeParse == TypeOK /\ Parse => TypeOK'
BY DEF TypeOK, Parse, ParseCard, ParseSet, SetCancelled, ParseSetWithoutCode,
       ParseError, KeyError, EndOfDocument, Reads, Close, Offer, Positions,
       importVars, workerVars

\* Receive takes a position of the document from the parser.
LEMMA TypeReceive == TypeOK /\ Receive => TypeOK'
BY DEF TypeOK, Receive, AfterSend, Positions, workerVars

\* The returns of Import.
LEMMA TypeReturns ==
  TypeOK /\ (HandleError \/ HandleSetFails \/ HandleBadCard \/ Uncollected
             \/ CountRows \/ ChannelClosed \/ Wait)
    => TypeOK'
BY DEF TypeOK, HandleError, HandleSetFails, HandleBadCard, Uncollected,
       CountRows, ChannelClosed, Wait, Return, Handles, Positions, Reasons,
       parserVars, workerVars

\* HandleSet adds a position to the sets that are imported.
LEMMA TypeHandleSet == TypeOK /\ HandleSet => TypeOK'
BY DEF TypeOK, HandleSet, Handles, Positions, parserVars, workerVars

\* Faces are positions, so what is collected and handed on is a set of them.
LEMMA FacesWithType ==
  ASSUME TypeOK, cur \in Positions
  PROVE  FacesWith(cur) \in SUBSET Positions /\ doc[cur].key \in Keys
<1>1. doc[cur] \in Items
  BY DEF TypeOK, Positions
<1>2. doc[cur].key \in Keys
  BY <1>1 DEF Items
<1> QED
  BY <1>2 DEF TypeOK, FacesWith

\* The collector and a new goroutine get positions of the document only.
LEMMA TypeCards ==
  TypeOK /\ (CollectFace \/ CompleteCard \/ SingleFacedCard) => TypeOK'
<1> SUFFICES ASSUME TypeOK, CollectFace \/ CompleteCard \/ SingleFacedCard
             PROVE  TypeOK'
  OBVIOUS
<1>1. cur \in Positions
  BY DEF TypeOK, CollectFace, CompleteCard, SingleFacedCard, Handles
<1>2. FacesWith(cur) \in SUBSET Positions /\ doc[cur].key \in Keys
  BY <1>1, FacesWithType
<1>3. CASE CollectFace
  BY <1>2, <1>3 DEF TypeOK, CollectFace, Positions, parserVars, workerVars
<1>4. CASE CompleteCard
  BY <1>1, <1>2, <1>4 DEF TypeOK, CompleteCard, StartWorker, Positions, parserVars
<1>5. CASE SingleFacedCard
  BY <1>1, <1>5 DEF TypeOK, SingleFacedCard, StartWorker, Positions, parserVars
<1> QED
  BY <1>3, <1>4, <1>5

\* A goroutine that ends changes its own state and the context only.
LEMMA TypeWorker == TypeOK /\ (\E i \in Positions : Worker(i)) => TypeOK'
<1> SUFFICES ASSUME TypeOK, NEW i \in Positions, Worker(i) PROVE TypeOK'
  OBVIOUS
<1>1. CASE WorkerSucceeds(i)
  BY <1>1 DEF TypeOK, WorkerSucceeds, Positions, parserVars, importVars
<1>2. CASE WorkerFails(i)
  BY <1>2 DEF TypeOK, WorkerFails, Positions, parserVars, importVars
<1> QED
  BY <1>1, <1>2 DEF Worker

\* Every step keeps the types.
LEMMA TypeNext == TypeOK /\ [Next]_vars => TypeOK'
<1> SUFFICES ASSUME TypeOK, [Next]_vars PROVE TypeOK'
  OBVIOUS
<1>1. CASE Parse
  BY <1>1, TypeParse
<1>2. CASE Import
  BY <1>2, TypeReceive, TypeReturns, TypeHandleSet, TypeCards DEF Import
<1>3. CASE \E i \in Positions : Worker(i)
  BY <1>3, TypeWorker
<1>4. CASE Returned \/ UNCHANGED vars
  BY <1>4 DEF Returned, TypeOK, vars, Positions
<1> QED
  BY <1>1, <1>2, <1>3, <1>4 DEF Next

\* Every variable keeps its type: positions stay within the document, and the
\* collector and the goroutines hold positions of it.
THEOREM TypeCorrect == Spec => []TypeOK
<1> QED
  BY TypeInit, TypeNext, PTL DEF Spec

-----------------------------------------------------------------------------
(* The inductive invariant. *)

\* The inductive invariant holds before the import begins.
LEMMA InductiveInit == Init => IInv
<1> SUFFICES ASSUME Init PROVE IInv
  OBVIOUS
<1>1. TypeOK
  BY TypeInit
<1> QED
  BY <1>1 DEF Init, IInv, ReceivedIsHandled, WorkersAreBehind, CancelledByFailure,
              ClosedAtEnd, Phases, TypeOK, Positions, AfterWait, NoError

\* The parser closes the channel before the end only when ctx is cancelled,
\* which it is by a goroutine that failed, or at a set without a code.
LEMMA InductiveParse == IInv /\ Parse => IInv'
<1> SUFFICES ASSUME IInv, Parse PROVE IInv'
  OBVIOUS
<1>1. TypeOK'
  BY TypeParse DEF IInv
<1>2. UNCHANGED <<doc, pos, importVars, workerVars>> /\ ppc = "read"
  BY DEF Parse, ParseCard, ParseSet, SetCancelled, ParseSetWithoutCode,
         ParseError, KeyError, EndOfDocument, Reads, Close, Offer
<1>3. ReceivedIsHandled' /\ WorkersAreBehind' /\ CancelledByFailure'
  BY <1>2 DEF IInv, ReceivedIsHandled, WorkersAreBehind, CancelledByFailure,
              Positions, InHand, Handled, NoError, Failed, importVars, workerVars
<1>4. Phases'
  BY <1>2 DEF IInv, Phases, AfterWait, Running, Failed, Positions, importVars,
              workerVars
<1>5. ClosedAtEnd'
  <2>1. CASE cancelled
    <3>1. Failed # {} \/ ipc \in {"check", "returned"}
      BY <2>1 DEF IInv, CancelledByFailure
    <3>2. ipc \in {"check", "returned"} => ~ NoError
      BY <1>2 DEF IInv, Phases, AfterWait, NoError
    <3> QED
      BY <1>2, <3>1, <3>2 DEF ClosedAtEnd, Failed, Positions, NoError,
                              importVars, workerVars
  <2>2. CASE ~ cancelled
    BY <1>2, <2>2 DEF ClosedAtEnd, Positions, Parse, ParseCard, ParseSet,
       SetCancelled, ParseSetWithoutCode, ParseError, KeyError, EndOfDocument,
       Reads, Close, Offer
  <2> QED
    BY <2>1, <2>2
<1> QED
  BY <1>1, <1>3, <1>4, <1>5 DEF IInv

\* The item received is in hand, and everything in front of it is handled.
LEMMA InductiveReceive == IInv /\ Receive => IInv'
<1> SUFFICES ASSUME IInv, Receive PROVE IInv'
  OBVIOUS
<1>1. TypeOK /\ TypeOK'
  BY TypeReceive DEF IInv
<1>2. ReceivedIsHandled'
  BY <1>1 DEF IInv, ReceivedIsHandled, Receive, TypeOK, InHand, Handled,
              Positions, NoError, workerVars
<1>3. WorkersAreBehind'
  BY <1>1 DEF IInv, WorkersAreBehind, Receive, TypeOK, InHand, Positions, workerVars
<1>4. CancelledByFailure'
  BY <1>1 DEF IInv, CancelledByFailure, Receive, Failed, Positions, workerVars
<1>5. ClosedAtEnd'
  BY <1>1 DEF IInv, ClosedAtEnd, Receive, AfterSend, TypeOK, ErrorKinds
<1>6. Phases'
  BY <1>1 DEF IInv, Phases, Receive, AfterWait, Running, Failed, Positions,
              TypeOK, workerVars
<1> QED
  BY <1>1, <1>2, <1>3, <1>4, <1>5, <1>6 DEF IInv

\* An early return is an error, and after it the invariant asks nothing of the
\* items any more.
LEMMA InductiveEarlyReturns ==
  IInv /\ (HandleError \/ HandleSetFails \/ HandleBadCard) => IInv'
<1> SUFFICES ASSUME IInv, HandleError \/ HandleSetFails \/ HandleBadCard
             PROVE  IInv'
  OBVIOUS
<1>1. TypeOK /\ TypeOK'
  BY TypeReturns DEF IInv
<1>2. /\ ipc = "handle" /\ ipc' = "returned"
      /\ result' \in {"parse", "set", "map"}
      /\ UNCHANGED <<doc, cur, collector, setsDone, parserVars, workerVars>>
  BY DEF HandleError, HandleSetFails, HandleBadCard, Handles, Return
<1>3. ReceivedIsHandled' /\ ClosedAtEnd'
  BY <1>2 DEF ReceivedIsHandled, ClosedAtEnd, NoError
<1>4. WorkersAreBehind'
  <2>1. ~ \E i \in Positions : worker[i] # "none" /\ i = cur
    BY <1>2 DEF IInv, WorkersAreBehind, InHand
  <2> QED
    BY <1>2, <2>1 DEF IInv, WorkersAreBehind, InHand, Positions, parserVars, workerVars
<1>5. CancelledByFailure' /\ Phases'
  BY <1>2 DEF IInv, CancelledByFailure, Phases, AfterWait
<1> QED
  BY <1>1, <1>3, <1>4, <1>5 DEF IInv

\* A set that is imported is handled, and has started no goroutine.
LEMMA InductiveHandleSet == IInv /\ HandleSet => IInv'
<1> SUFFICES ASSUME IInv, HandleSet PROVE IInv'
  OBVIOUS
<1>1. TypeOK /\ TypeOK'
  BY TypeHandleSet DEF IInv
<1>2. ReceivedIsHandled'
  BY <1>1 DEF IInv, ReceivedIsHandled, HandleSet, Handles, TypeOK, InHand,
              Handled, Positions, NoError, parserVars, workerVars
<1>3. WorkersAreBehind' /\ CancelledByFailure'
  BY <1>1 DEF IInv, WorkersAreBehind, CancelledByFailure, Phases, HandleSet,
              Handles, InHand, Failed, Positions, parserVars, workerVars
<1>4. ClosedAtEnd' /\ Phases'
  BY <1>1 DEF IInv, ClosedAtEnd, Phases, HandleSet, Handles, ErrorKinds, NoError,
              AfterWait, Running, Failed, Positions, parserVars, workerVars
<1> QED
  BY <1>1, <1>2, <1>3, <1>4 DEF IInv

\* A face that is collected, or handed on with the ones collected before it, is
\* handled, and so is every face that was collected before it.
LEMMA InductiveCards ==
  IInv /\ (CollectFace \/ CompleteCard \/ SingleFacedCard) => IInv'
<1> SUFFICES ASSUME IInv, CollectFace \/ CompleteCard \/ SingleFacedCard
             PROVE  IInv'
  OBVIOUS
<1>1. TypeOK /\ TypeOK'
  BY TypeCards DEF IInv
<1>2. /\ ipc = "handle" /\ ipc' = "receive" /\ cur \in Positions
      /\ doc[cur].kind = "card" /\ result = "none" /\ cur < pos
      /\ UNCHANGED <<doc, cur, setsDone, result, cancelled, parserVars>>
  BY <1>1 DEF IInv, Phases, TypeOK, CollectFace, CompleteCard, SingleFacedCard,
              StartWorker, Handles, workerVars
<1>3. worker[cur] = "none" /\ doc[cur].key \in Keys
  BY <1>1, <1>2, FacesWithType DEF IInv, WorkersAreBehind, InHand, TypeOK
<1>4. ReceivedIsHandled'
  <2> SUFFICES ASSUME NEW i \in Positions, i < pos PROVE Handled(i)'
    BY <1>2 DEF ReceivedIsHandled, Positions, parserVars
  <2>1. CASE i # cur
    <3>1. Handled(i)
      BY <1>2, <2>1 DEF IInv, ReceivedIsHandled, InHand, NoError
    <3>2. CASE CollectFace
      BY <1>1, <1>2, <1>3, <3>1, <3>2
      DEF Handled, CollectFace, FacesWith, TypeOK, Positions, workerVars
    <3>3. CASE CompleteCard
      BY <1>1, <1>2, <1>3, <3>1, <3>3
      DEF Handled, CompleteCard, StartWorker, FacesWith, TypeOK, Positions
    <3>4. CASE SingleFacedCard
      BY <1>1, <1>2, <1>3, <3>1, <3>4
      DEF Handled, SingleFacedCard, StartWorker, TypeOK, Positions
    <3> QED
      BY <3>2, <3>3, <3>4
  <2>2. CASE i = cur
    BY <1>1, <1>2, <1>3, <2>2
    DEF Handled, CollectFace, CompleteCard, SingleFacedCard, StartWorker,
        FacesWith, TypeOK, Positions, workerVars
  <2> QED
    BY <2>1, <2>2
<1>5. WorkersAreBehind'
  BY <1>1, <1>2 DEF IInv, WorkersAreBehind, InHand, CollectFace, CompleteCard,
     SingleFacedCard, StartWorker, TypeOK, Positions, parserVars, workerVars
<1>6. Failed' = Failed
  BY <1>1, <1>2, <1>3 DEF Failed, CollectFace, CompleteCard, SingleFacedCard,
     StartWorker, TypeOK, Positions, workerVars
<1>7. CancelledByFailure'
  BY <1>2, <1>6 DEF IInv, CancelledByFailure
<1>8. ClosedAtEnd'
  BY <1>2, <1>6 DEF IInv, ClosedAtEnd, Positions, NoError, ErrorKinds, parserVars
<1>9. Phases'
  BY <1>2, <1>6 DEF IInv, Phases, AfterWait
<1> QED
  BY <1>1, <1>4, <1>5, <1>7, <1>8, <1>9 DEF IInv

\* The way out: the channel is closed, the goroutines are waited for, and what
\* is left in the collector is an error.
LEMMA InductiveReturns ==
  IInv /\ (ChannelClosed \/ Wait \/ Uncollected \/ CountRows) => IInv'
<1> SUFFICES ASSUME IInv, ChannelClosed \/ Wait \/ Uncollected \/ CountRows
             PROVE  IInv'
  OBVIOUS
<1>1. TypeOK /\ TypeOK'
  BY TypeReturns DEF IInv
<1>2. /\ ipc \in {"receive", "wait", "check"} /\ ipc' # "handle"
      /\ result = "none"
      /\ UNCHANGED <<doc, cur, collector, setsDone, parserVars, worker, faces>>
  BY DEF IInv, Phases, ChannelClosed, Wait, Uncollected, CountRows, Return, workerVars
<1>3. ReceivedIsHandled' /\ WorkersAreBehind'
  BY <1>2 DEF IInv, ReceivedIsHandled, WorkersAreBehind, InHand, Handled,
              NoError, Positions, parserVars
<1>4. ClosedAtEnd'
  BY <1>2 DEF IInv, ClosedAtEnd, NoError, Failed, Positions, parserVars
<1>5. Running' = Running /\ Failed' = Failed
  BY <1>2 DEF Running, Failed, Positions
<1>6. CancelledByFailure' /\ Phases'
  <2>1. CASE ChannelClosed
    BY <1>2, <1>5, <2>1 DEF IInv, ChannelClosed, CancelledByFailure, Phases,
                            AfterWait, parserVars, workerVars
  <2>2. CASE Wait
    BY <1>2, <1>5, <2>2 DEF IInv, Wait, AllWorkersEnded, ErrgroupError, Return,
                            CancelledByFailure, Phases,
                            AfterWait, parserVars
  <2>3. CASE Uncollected
    BY <1>2, <1>5, <2>3 DEF IInv, Uncollected, Return, CancelledByFailure, Phases,
                            AfterWait, parserVars, workerVars
  <2>4. CASE CountRows
    BY <1>2, <1>5, <2>4 DEF IInv, CountRows, Return, CancelledByFailure, Phases,
                            AfterWait, HasUncollectedEntries, parserVars, workerVars
  <2> QED
    BY <2>1, <2>2, <2>3, <2>4
<1> QED
  BY <1>1, <1>3, <1>4, <1>6 DEF IInv

\* A goroutine that ends keeps its faces, and one that fails cancels ctx.
LEMMA InductiveWorker == IInv /\ (\E i \in Positions : Worker(i)) => IInv'
<1> SUFFICES ASSUME IInv, NEW w \in Positions, Worker(w) PROVE IInv'
  OBVIOUS
<1>1. TypeOK /\ TypeOK'
  BY TypeWorker DEF IInv
<1>2. /\ worker[w] = "running" /\ w \in Running
      /\ UNCHANGED <<doc, faces, parserVars, importVars>>
      /\ \/ worker' = [worker EXCEPT ![w] = "done"] /\ UNCHANGED cancelled
         \/ worker' = [worker EXCEPT ![w] = "failed"] /\ cancelled' = TRUE
  BY DEF Worker, WorkerSucceeds, WorkerFails, Running
<1>3. \A i \in Positions : worker'[i] # "none" <=> worker[i] # "none"
  BY <1>1, <1>2 DEF TypeOK
<1>4. Failed \subseteq Failed' /\ (cancelled' = cancelled \/ w \in Failed')
  BY <1>1, <1>2 DEF TypeOK, Failed, Positions
<1>5. ReceivedIsHandled' /\ WorkersAreBehind'
  BY <1>2, <1>3 DEF IInv, ReceivedIsHandled, WorkersAreBehind, InHand, Handled,
                    NoError, Positions, parserVars, importVars
<1>6. CancelledByFailure' /\ ClosedAtEnd'
  BY <1>2, <1>4 DEF IInv, CancelledByFailure, ClosedAtEnd, NoError, Positions,
                    parserVars, importVars
<1>7. Phases'
  BY <1>2 DEF IInv, Phases, AfterWait, parserVars, importVars
<1> QED
  BY <1>1, <1>5, <1>6, <1>7 DEF IInv

\* Every step keeps the inductive invariant.
LEMMA InductiveNext == IInv /\ [Next]_vars => IInv'
<1> SUFFICES ASSUME IInv, [Next]_vars PROVE IInv'
  OBVIOUS
<1>1. CASE Parse
  BY <1>1, InductiveParse
<1>2. CASE Import
  BY <1>2, InductiveReceive, InductiveEarlyReturns, InductiveHandleSet,
     InductiveCards, InductiveReturns DEF Import
<1>3. CASE \E i \in Positions : Worker(i)
  BY <1>3, InductiveWorker
<1>4. CASE Returned \/ UNCHANGED vars
  <2>1. UNCHANGED vars
    BY <1>4 DEF Returned
  <2>2. TypeOK'
    BY <2>1, TypeNext DEF IInv
  <2> QED
    BY <2>1, <2>2 DEF IInv, ReceivedIsHandled, WorkersAreBehind, ClosedAtEnd,
       CancelledByFailure, Phases, AfterWait, InHand, Handled, NoError, Running,
       Failed, Positions, vars
<1> QED
  BY <1>1, <1>2, <1>3, <1>4 DEF Next

\* The inductive invariant holds in every state that the import reaches.
THEOREM Inductive == Spec => []IInv
<1> QED
  BY InductiveInit, InductiveNext, PTL DEF Spec

-----------------------------------------------------------------------------
(* What follows from it. *)

\* An answer "ok" is given when every item in front of the first set without a
\* code has been imported.
LEMMA CompleteSuccess == IInv => SuccessIsComplete
<1> SUFFICES ASSUME IInv, result = "ok", NEW i \in Reachable PROVE Imported(i)
  BY DEF SuccessIsComplete
<1>1. /\ TypeOK /\ ppc = "closed" /\ ipc = "returned"
      /\ Running = {} /\ Failed = {} /\ \A k \in Keys : collector[k] = {}
  BY DEF IInv, Phases, AfterWait
<1>2. pos \notin Positions \/ doc[pos].kind = "nocode"
  BY <1>1 DEF IInv, ClosedAtEnd, NoError
<1>3. i \in Positions /\ \A j \in 1..i : doc[j].kind # "nocode"
  BY DEF Reachable
<1>4. i < pos
  BY <1>1, <1>2, <1>3 DEF TypeOK, Positions
<1>5. Handled(i)
  BY <1>1, <1>3, <1>4 DEF IInv, ReceivedIsHandled, InHand, NoError
<1>6. \A j \in Positions : worker[j] # "none" => worker[j] = "done"
  BY <1>1 DEF TypeOK, Running, Failed
<1> QED
  BY <1>1, <1>5, <1>6 DEF Handled, Imported

\* A success means that every item in front of the first set without a code has
\* been imported, whatever the document, the failures and the interleaving.
THEOREM SuccessCompleteness == Spec => []SuccessIsComplete
<1> QED
  BY CompleteSuccess, Inductive, PTL

\* A return at or after errg.Wait leaves no goroutine running and no parser
\* blocked on the channel.
THEOREM NothingLeftBehind == Spec => []WaitLeavesNothingBehind
<1>1. IInv => WaitLeavesNothingBehind
  BY DEF IInv, Phases, AfterWait, WaitLeavesNothingBehind
<1> QED
  BY <1>1, Inductive, PTL

-----------------------------------------------------------------------------
(* How the faces are put together. *)

\* The items that have left the parser and the loop.
Behind(i) == i < pos /\ ~ InHand(i)

IsFaceOf(i, k) == doc[i].kind = "card" /\ doc[i].key = k /\ Behind(i)

\* A collector entry holds faces of its card.
CollectedFaces == \A k \in Keys : \A i \in collector[k] : IsFaceOf(i, k)

\* A goroutine has its own item and others of the same card, as many as that says.
WorkerFaces ==
  \A i \in Positions :
    IF worker[i] = "none" THEN faces[i] = {}
    ELSE /\ i \in faces[i]
         /\ \A j \in faces[i] : IsFaceOf(j, doc[i].key)
         /\ Cardinality(faces[i]) = FaceCount(doc[i])

\* No face is in two places.
FacesAreApart ==
  \A i \in Positions :
    /\ \A k \in Keys : faces[i] \cap collector[k] = {}
    /\ \A j \in Positions \ {i} : faces[i] \cap faces[j] = {}

\* An entry that is left in the collector is not complete.
EntriesAreIncomplete ==
  WellFormed => \A k \in Keys : \A i \in collector[k] :
                  Cardinality(collector[k]) # FaceCount(doc[i])

Assembly ==
  /\ CollectedFaces
  /\ WorkerFaces
  /\ FacesAreApart
  /\ EntriesAreIncomplete
  /\ WellFormedIsAccepted

\* Nothing is put together yet.
LEMMA AssemblyInit == Init => Assembly
BY DEF Init, Assembly, CollectedFaces, WorkerFaces, FacesAreApart, EntriesAreIncomplete,
       WellFormedIsAccepted, Positions

\* Every item has a key.
LEMMA KeysOfItems ==
  ASSUME TypeOK, NEW i \in Positions
  PROVE  doc[i].key \in Keys
<1>1. doc[i] \in Items
  BY DEF TypeOK, Positions
<1> QED
  BY <1>1 DEF Items

\* What is put together stays so when no face is collected or handed on.
LEMMA AssemblyStays ==
  ASSUME TypeOK, Assembly,
         UNCHANGED <<doc, collector, faces>>,
         \A i \in Positions : worker'[i] = "none" <=> worker[i] = "none",
         \A i \in Positions : Behind(i) => Behind(i)',
         WellFormed => result' = result \/ result' \notin {"parse", "map", "uncollected"}
  PROVE  Assembly'
<1>1. Positions' = Positions /\ (WellFormed' <=> WellFormed)
  BY DEF Positions, WellFormed, FaceCount
<1>2. \A i \in Positions, k \in Keys : IsFaceOf(i, k) => IsFaceOf(i, k)'
  BY DEF IsFaceOf
<1>3. CollectedFaces'
  BY <1>2 DEF TypeOK, Assembly, CollectedFaces
<1>4. WorkerFaces'
  <2>1. \A i \in Positions : doc[i].key \in Keys
    BY KeysOfItems
  <2>2. \A i \in Positions : \A j \in faces[i] : j \in Positions
    BY DEF TypeOK
  <2> QED
    BY <1>1, <1>2, <2>1, <2>2 DEF Assembly, WorkerFaces, FaceCount
<1>5. FacesAreApart' /\ EntriesAreIncomplete' /\ WellFormedIsAccepted'
  BY <1>1 DEF Assembly, FacesAreApart, EntriesAreIncomplete, WellFormedIsAccepted, FaceCount
<1> QED
  BY <1>3, <1>4, <1>5 DEF Assembly

\* A face in hand is in no other place, and what it is put together with is of
\* its card.
LEMMA FacesInHand ==
  ASSUME IInv, Assembly, Handles({"card"}), ipc' # "handle",
         UNCHANGED <<doc, cur, pos>>
  PROVE  /\ cur \in Positions /\ doc[cur].key \in Keys /\ worker[cur] = "none"
         /\ \A i \in Positions : Behind(i) => Behind(i)' /\ i # cur
         /\ \A i \in Positions : cur \notin faces[i]
         /\ \A k \in Keys : cur \notin collector[k]
         /\ \A i \in FacesWith(cur) : i \in Positions /\ IsFaceOf(i, doc[cur].key)'
         /\ IsFaceOf(cur, doc[cur].key)'
<1>1. ipc = "handle" /\ cur \in Positions /\ doc[cur].kind = "card" /\ cur < pos
  BY DEF Handles, IInv, Phases, TypeOK
<1>2. doc[cur].key \in Keys /\ FacesWith(cur) \in SUBSET Positions
  BY <1>1, FacesWithType DEF IInv
<1>3. \A i \in Positions : Behind(i) => Behind(i)' /\ i # cur
  BY <1>1 DEF Behind, InHand
<1>4. worker[cur] = "none"
  BY <1>1 DEF IInv, WorkersAreBehind, InHand
<1>5. \A i \in Positions : cur \notin faces[i]
  BY <1>1, <1>3 DEF Assembly, WorkerFaces, IsFaceOf
<1>6. \A k \in Keys : cur \notin collector[k]
  BY <1>1, <1>3 DEF Assembly, CollectedFaces, IsFaceOf
<1>7. IsFaceOf(cur, doc[cur].key)'
  BY <1>1 DEF IsFaceOf, Behind, InHand
<1>8. \A i \in collector[doc[cur].key] : IsFaceOf(i, doc[cur].key)'
  BY <1>2, <1>3 DEF Assembly, CollectedFaces, IsFaceOf, FacesWith
<1> QED
  BY <1>1, <1>2, <1>3, <1>4, <1>5, <1>6, <1>7, <1>8 DEF FacesWith

\* The steps that leave the faces alone.
LEMMA AssemblyOtherSteps ==
  ASSUME IInv, Assembly,
         \/ Parse \/ Receive \/ HandleError \/ HandleSet \/ HandleSetFails \/ HandleBadCard
         \/ ChannelClosed \/ Wait \/ CountRows
         \/ \E i \in Positions : Worker(i)
  PROVE  Assembly'
<1>1. TypeOK
  BY DEF IInv
<1>2. CASE Parse
  <2>1. UNCHANGED <<doc, pos, importVars, workerVars>>
    BY <1>2 DEF Parse, ParseCard, ParseSet, SetCancelled, ParseSetWithoutCode,
           ParseError, KeyError, EndOfDocument, Reads, Close, Offer
  <2> QED
    BY <1>1, <2>1, AssemblyStays DEF importVars, workerVars, Behind, InHand
<1>3. CASE Receive
  <2>1. UNCHANGED <<doc, collector, result, workerVars>> /\ cur' = pos /\ pos' = pos + 1
    BY <1>3 DEF Receive
  <2>2. \A i \in Positions : Behind(i) => Behind(i)'
    BY <1>1, <2>1 DEF TypeOK, Positions, Behind, InHand
  <2> QED
    BY <1>1, <2>1, <2>2, AssemblyStays DEF workerVars
<1>4. CASE HandleError \/ HandleSet \/ HandleSetFails \/ HandleBadCard
  <2>1. /\ UNCHANGED <<doc, collector, parserVars, workerVars>>
        /\ ipc' # "handle"
        /\ WellFormed => result' = result \/ result' \notin {"parse", "map", "uncollected"}
    BY <1>1, <1>4 DEF TypeOK, HandleError, HandleSet, HandleSetFails, HandleBadCard, Handles,
       Return, WellFormed, ErrorKinds
  <2> QED
    BY <1>1, <2>1, AssemblyStays DEF parserVars, workerVars, Behind, InHand
<1>5. CASE ChannelClosed \/ Wait \/ CountRows
  <2>1. /\ UNCHANGED <<doc, collector, parserVars, worker, faces>>
        /\ ipc' # "handle"
        /\ result' = result \/ result' \notin {"parse", "map", "uncollected"}
    BY <1>5 DEF ChannelClosed, Wait, CountRows, Return, workerVars
  <2> QED
    BY <1>1, <2>1, AssemblyStays DEF parserVars, Behind, InHand
<1>6. CASE \E i \in Positions : Worker(i)
  <2>1. /\ UNCHANGED <<doc, faces, parserVars, importVars>>
        /\ \A i \in Positions : worker'[i] = "none" <=> worker[i] = "none"
    BY <1>1, <1>6 DEF TypeOK, Worker, WorkerSucceeds, WorkerFails
  <2> QED
    BY <1>1, <2>1, AssemblyStays DEF parserVars, importVars, Behind, InHand
<1> QED
  BY <1>2, <1>3, <1>4, <1>5, <1>6

\* A face is collected with those of its card, but not when it is the last.
LEMMA AssemblyCollect ==
  ASSUME IInv, Assembly, CollectFace
  PROVE  Assembly'
<1> DEFINE k == doc[cur].key
           F == FacesWith(cur)
<1>1. /\ Handles({"card"}) /\ ipc' # "handle" /\ result' = result
      /\ UNCHANGED <<doc, cur, pos, worker, faces>>
      /\ collector' = [collector EXCEPT ![k] = F]
      /\ FaceCount(doc[cur]) > 1 /\ LacksFaces(cur)
  BY DEF CollectFace, parserVars, workerVars
<1>2. /\ cur \in Positions /\ k \in Keys /\ worker[cur] = "none"
      /\ \A i \in Positions : Behind(i) => Behind(i)' /\ i # cur
      /\ \A i \in Positions : cur \notin faces[i]
      /\ \A l \in Keys : cur \notin collector[l]
      /\ \A i \in F : i \in Positions /\ IsFaceOf(i, k)'
  BY <1>1, FacesInHand
<1>3. TypeOK /\ F = {cur} \cup collector[k] /\ Positions' = Positions /\ k' = k
  BY <1>1 DEF IInv, FacesWith, Positions
<1>4. \A i \in Positions, l \in Keys : IsFaceOf(i, l) => IsFaceOf(i, l)'
  BY <1>1, <1>2 DEF IsFaceOf
<1>5. collector'[k] = F /\ \A l \in Keys \ {k} : collector'[l] = collector[l]
  BY <1>1, <1>2, <1>3 DEF TypeOK
<1>6. CollectedFaces'
  <2>1. \A l \in Keys : \A i \in collector[l] : i \in Positions /\ IsFaceOf(i, l)
    BY <1>3 DEF TypeOK, Assembly, CollectedFaces
  <2> HIDE DEF F, k
  <2> SUFFICES ASSUME NEW l \in Keys, NEW i \in collector'[l] PROVE IsFaceOf(i, l)'
    BY DEF CollectedFaces
  <2>2. CASE l = k
    BY <1>2, <1>3, <1>5, <2>2 DEF IsFaceOf
  <2>3. CASE l # k
    BY <1>4, <1>5, <2>1, <2>3
  <2> QED
    BY <2>2, <2>3
<1>7. WorkerFaces'
  <2>1. \A i \in Positions : doc[i].key \in Keys
    BY <1>3, KeysOfItems
  <2>2. \A i \in Positions : \A j \in faces[i] : j \in Positions
    BY <1>3 DEF TypeOK
  <2> HIDE DEF F, k
  <2> QED
    BY <1>1, <1>3, <1>4, <2>1, <2>2 DEF Assembly, WorkerFaces, FaceCount
<1>8. FacesAreApart'
  <2> HIDE DEF F, k
  <2> QED
    BY <1>1, <1>2, <1>3, <1>5 DEF Assembly, FacesAreApart
<1>9. EntriesAreIncomplete'
  <2> SUFFICES ASSUME WellFormed, NEW l \in Keys, NEW i \in collector'[l]
               PROVE  Cardinality(collector'[l]) # FaceCount(doc[i])
    BY <1>1 DEF EntriesAreIncomplete, WellFormed, Positions, FaceCount
  <2>1. CASE l = k
    <3>1. FaceCount(doc[i]) = FaceCount(doc[cur])
      <4>1. i \in Positions /\ doc[i].kind = "card" /\ doc[i].key = k
        BY <1>1, <1>2, <1>5, <2>1 DEF IsFaceOf
      <4>2. cur \in Positions /\ doc[cur].kind = "card"
        BY <1>1, <1>2 DEF Handles
      <4> HIDE DEF F
      <4> QED
        BY <4>1, <4>2 DEF WellFormed
    <3>2. CASE collector[k] = {}
      <4>1. F = {cur}
        BY <1>3, <3>2
      <4>2. Cardinality(F) = 1
        BY <4>1, FS_Singleton
      <4> QED
        BY <1>1, <1>5, <2>1, <3>1, <4>2
    <3>3. CASE collector[k] # {}
      <4>1. Cardinality(F) # FaceCount(doc[cur])
        BY <1>1, <3>3 DEF LacksFaces
      <4> QED
        BY <1>5, <2>1, <3>1, <4>1
    <3> QED
      BY <3>2, <3>3
  <2>2. CASE l # k
    BY <1>5, <2>2 DEF Assembly, EntriesAreIncomplete
  <2> QED
    BY <2>1, <2>2
<1>10. WellFormedIsAccepted'
  BY <1>1 DEF Assembly, WellFormedIsAccepted, WellFormed, Positions, FaceCount
<1> QED
  BY <1>6, <1>7, <1>8, <1>9, <1>10 DEF Assembly

\* A complete card leaves the collector for a goroutine, whole; a card with one
\* face goes there straight away.
LEMMA AssemblyStart ==
  ASSUME IInv, Assembly, CompleteCard \/ SingleFacedCard
  PROVE  Assembly'
<1> DEFINE k == doc[cur].key
           F == faces'[cur]
<1>1. TypeOK
  BY DEF IInv
<1>2. /\ Handles({"card"}) /\ ipc' # "handle" /\ result' = result
      /\ UNCHANGED <<doc, cur, pos>>
  BY DEF CompleteCard, SingleFacedCard, StartWorker, parserVars
<1>3. /\ cur \in Positions /\ k \in Keys /\ worker[cur] = "none"
      /\ \A i \in Positions : Behind(i) => Behind(i)' /\ i # cur
      /\ \A i \in Positions : cur \notin faces[i]
      /\ \A l \in Keys : cur \notin collector[l]
      /\ \A i \in FacesWith(cur) : i \in Positions /\ IsFaceOf(i, k)'
      /\ IsFaceOf(cur, k)'
  BY <1>2, FacesInHand
<1>4. /\ worker'[cur] = "running" /\ cur \in F
      /\ \A i \in Positions \ {cur} : worker'[i] = worker[i] /\ faces'[i] = faces[i]
      /\ \A l \in Keys \ {k} : collector'[l] = collector[l]
      /\ collector'[k] \in {collector[k], {}}
  BY <1>1, <1>3 DEF TypeOK, CompleteCard, SingleFacedCard, StartWorker, FacesWith
<1>5. /\ F \subseteq {cur} \cup collector[k]
      /\ F \cap collector'[k] = {}
      /\ Cardinality(F) = FaceCount(doc[cur])
  <2>1. CASE CompleteCard
    BY <1>1, <1>3, <2>1 DEF TypeOK, CompleteCard, StartWorker, LacksFaces, FacesWith
  <2>2. CASE SingleFacedCard
    <3>1. F = {cur} /\ collector' = collector /\ FaceCount(doc[cur]) = 1
      BY <1>1, <1>3, <2>2 DEF TypeOK, SingleFacedCard, StartWorker
    <3>2. Cardinality({cur}) = 1
      BY FS_Singleton
    <3> HIDE DEF F
    <3> QED
      BY <1>3, <3>1, <3>2
  <2> QED
    BY <2>1, <2>2
<1>6. Positions' = Positions /\ \A i \in Positions, l \in Keys : IsFaceOf(i, l) => IsFaceOf(i, l)'
  BY <1>2, <1>3 DEF IsFaceOf, Positions
<1>7. \A l \in Keys : \A i \in collector[l] : i \in Positions /\ IsFaceOf(i, l)
  BY <1>1 DEF TypeOK, Assembly, CollectedFaces
<1>8. \A i \in F : IsFaceOf(i, k)'
  BY <1>3, <1>5 DEF FacesWith
<1>9. doc' = doc /\ \A i \in Positions : doc[i].key \in Keys /\ faces[i] \subseteq Positions
  BY <1>1, <1>2, KeysOfItems DEF TypeOK
<1> HIDE DEF F, k
<1>10. CollectedFaces'
  BY <1>3, <1>4, <1>6, <1>7 DEF CollectedFaces
<1>11. WorkerFaces'
  <2> SUFFICES ASSUME NEW i \in Positions
               PROVE  IF worker'[i] = "none" THEN faces'[i] = {}
                      ELSE /\ i \in faces'[i]
                           /\ \A j \in faces'[i] : IsFaceOf(j, doc[i].key)'
                           /\ Cardinality(faces'[i]) = FaceCount(doc[i])
    BY <1>6, <1>9 DEF WorkerFaces, FaceCount, IsFaceOf, Behind, InHand
  <2>1. CASE i = cur
    BY <1>4, <1>5, <1>8, <1>9, <2>1 DEF F, k, IsFaceOf
  <2>2. CASE i # cur
    BY <1>4, <1>6, <1>9, <2>2 DEF Assembly, WorkerFaces
  <2> QED
    BY <2>1, <2>2
<1>12. FacesAreApart'
  <2>1. \A i \in Positions \ {cur} : F \cap faces[i] = {}
    BY <1>3, <1>5 DEF Assembly, FacesAreApart
  <2>2. \A l \in Keys \ {k} : F \cap collector[l] = {}
    BY <1>3, <1>5, <1>7 DEF IsFaceOf
  <2>3. \A i \in Positions \ {cur} : \A l \in Keys : faces'[i] \cap collector'[l] = {}
    BY <1>4 DEF Assembly, FacesAreApart
  <2>4. \A l \in Keys : faces'[cur] \cap collector'[l] = {}
    BY <1>4, <1>5, <2>2 DEF F
  <2> QED
    BY <1>3, <1>4, <1>6, <2>1, <2>3, <2>4 DEF Assembly, FacesAreApart, F
<1>13. EntriesAreIncomplete' /\ WellFormedIsAccepted'
  <2>1. WellFormed' <=> WellFormed
    BY <1>6, <1>9 DEF WellFormed, FaceCount
  <2>2. \A l \in Keys : collector'[l] \in {collector[l], {}}
    BY <1>4
  <2> QED
    BY <1>2, <1>9, <2>1, <2>2 DEF Assembly, EntriesAreIncomplete, WellFormedIsAccepted, FaceCount
<1> QED
  BY <1>10, <1>11, <1>12, <1>13 DEF Assembly

\* The faces of a card in a well-formed document are as many as each of them says.
LEMMA SiblingsOfWellFormed ==
  ASSUME TypeOK, WellFormed, NEW i \in Positions, doc[i].kind = "card"
  PROVE  LET siblings == {j \in Positions : doc[j].kind = "card" /\ doc[j].key = doc[i].key}
         IN  /\ IsFiniteSet(siblings)
             /\ Cardinality(siblings) = FaceCount(doc[i])
             /\ \A part \in SUBSET siblings :
                  Cardinality(part) = Cardinality(siblings) => part = siblings
<1> DEFINE siblings == {j \in Positions : doc[j].kind = "card" /\ doc[j].key = doc[i].key}
<1>1. Cardinality(siblings) = FaceCount(doc[i])
  BY DEF WellFormed
<1>2. IsFiniteSet(siblings)
  <2>1. Positions = 1..Len(doc) /\ Len(doc) \in Nat
    BY DEF TypeOK, Positions
  <2>2. IsFiniteSet(1..Len(doc))
    BY <2>1, FS_Interval
  <2> QED
    BY <2>1, <2>2, FS_Subset
<1> HIDE DEF siblings
<1>3. \A part \in SUBSET siblings : Cardinality(part) = Cardinality(siblings) => part = siblings
  BY <1>2, FS_Subset
<1> QED
  BY <1>1, <1>2, <1>3 DEF siblings

\* A goroutine for a card of a well-formed document has all of its faces.
LEMMA WorkerHasTheCard ==
  ASSUME TypeOK, Assembly, WellFormed, NEW i \in Positions, worker[i] # "none"
  PROVE  faces[i] = {j \in Positions : doc[j].kind = "card" /\ doc[j].key = doc[i].key}
<1> DEFINE siblings == {j \in Positions : doc[j].kind = "card" /\ doc[j].key = doc[i].key}
<1>1. /\ i \in faces[i] /\ \A j \in faces[i] : IsFaceOf(j, doc[i].key)
      /\ Cardinality(faces[i]) = FaceCount(doc[i])
  BY DEF Assembly, WorkerFaces
<1>2. faces[i] \in SUBSET siblings /\ doc[i].kind = "card"
  BY <1>1 DEF TypeOK, IsFaceOf
<1>3. /\ Cardinality(siblings) = FaceCount(doc[i])
      /\ \A part \in SUBSET siblings :
           Cardinality(part) = Cardinality(siblings) => part = siblings
  BY <1>2, SiblingsOfWellFormed
<1> HIDE DEF siblings
<1>4. faces[i] = siblings
  BY <1>1, <1>2, <1>3
<1> QED
  BY <1>4 DEF siblings

\* So once everything is received the collector of a well-formed document is empty.
LEMMA AssemblyUncollected ==
  ASSUME IInv, Assembly, Uncollected
  PROVE  Assembly'
<1>1. /\ ipc = "check" /\ ipc' = "returned" /\ result' = "uncollected"
      /\ UNCHANGED <<doc, collector, parserVars, workerVars>>
      /\ \E k \in Keys : collector[k] # {}
  BY DEF Uncollected, HasUncollectedEntries, Return
<1>2. TypeOK
  BY DEF IInv
<1>3. ~ WellFormed
  <2> SUFFICES ASSUME WellFormed PROVE FALSE
    OBVIOUS
  <2>1. result = "none" /\ ppc = "closed" /\ Failed = {}
    BY <1>1 DEF IInv, Phases, AfterWait, TypeOK
  <2>2. pos \notin Positions
    BY <1>1, <2>1 DEF IInv, ClosedAtEnd, NoError, WellFormed
  <2>3. \A i \in Positions : i < pos /\ ~ InHand(i)
    BY <1>1, <1>2, <2>2 DEF TypeOK, Positions, InHand
  <2>4. \A i \in Positions : Handled(i)
    BY <2>1, <2>3 DEF IInv, ReceivedIsHandled, NoError
  <2>5. PICK k \in Keys : \E i \in collector[k] : TRUE
    BY <1>1
  <2> PICK i \in collector[k] : TRUE
    BY <2>5
  <2> DEFINE siblings == {j \in Positions : doc[j].kind = "card" /\ doc[j].key = doc[i].key}
  <2>6. i \in Positions /\ doc[i].kind = "card" /\ doc[i].key = k
    BY <1>2, <2>5 DEF TypeOK, Assembly, CollectedFaces, IsFaceOf
  <2>7. collector[k] \in SUBSET siblings
    BY <1>2, <2>6 DEF TypeOK, Assembly, CollectedFaces, IsFaceOf
  <2>8. ASSUME NEW j \in siblings PROVE j \in collector[k]
    <3>1. j \in Positions /\ doc[j].kind = "card" /\ doc[j].key = k
      BY <2>6
    <3>2. CASE \E l \in Keys : j \in collector[l]
      BY <3>1, <3>2 DEF Assembly, CollectedFaces, IsFaceOf
    <3>3. CASE \E w \in Positions : worker[w] # "none" /\ j \in faces[w]
      <4>1. PICK w \in Positions : worker[w] # "none" /\ j \in faces[w]
        BY <3>3
      <4>2. doc[w].key = k
        BY <3>1, <4>1 DEF Assembly, WorkerFaces, IsFaceOf
      <4>3. i \in faces[w]
        BY <1>2, <2>6, <4>1, <4>2, WorkerHasTheCard
      <4> QED
        BY <2>5, <4>1, <4>3 DEF Assembly, FacesAreApart
    <3> QED
      BY <2>4, <3>1, <3>2, <3>3 DEF Handled
  <2>9. collector[k] = siblings
    BY <2>7, <2>8
  <2>10. Cardinality(siblings) = FaceCount(doc[i])
    BY <1>2, <2>6, SiblingsOfWellFormed
  <2> QED
    BY <2>5, <2>9, <2>10 DEF Assembly, EntriesAreIncomplete
<1> QED
  BY <1>1, <1>2, <1>3, AssemblyStays DEF parserVars, workerVars, Behind, InHand

\* The faces are put together as they should by every step.
LEMMA AssemblyNext == IInv /\ Assembly /\ [Next]_vars => Assembly'
<1> SUFFICES ASSUME IInv, Assembly, [Next]_vars PROVE Assembly'
  OBVIOUS
<1>1. CASE Parse \/ Import \/ \E i \in Positions : Worker(i)
  BY <1>1, AssemblyOtherSteps, AssemblyCollect, AssemblyStart, AssemblyUncollected DEF Import
<1>2. CASE Returned \/ UNCHANGED vars
  BY <1>2, AssemblyStays DEF IInv, Returned, vars, Behind, InHand
<1> QED
  BY <1>1, <1>2 DEF Next

\* How the faces are put together, in every reachable state.
LEMMA Assembled == Spec => [](IInv /\ Assembly)
BY InductiveInit, InductiveNext, AssemblyInit, AssemblyNext, PTL DEF Spec

\* What a goroutine imports is one card, of which no other has a face.
THEOREM CardsAreWhole == Spec => []CardsAreAssembledOnce
<1>1. IInv /\ Assembly => CardsAreAssembledOnce
  BY DEF Assembly, WorkerFaces, FacesAreApart, IsFaceOf, CardsAreAssembledOnce
<1> QED
  BY <1>1, Assembled, PTL

\* A well-formed document is refused only because a service failed.
THEOREM MixedFacesAreAccepted == Spec => []WellFormedIsAccepted
<1>1. Assembly => WellFormedIsAccepted
  BY DEF Assembly
<1> QED
  BY <1>1, Assembled, PTL

\* No card of a well-formed document is imported by two goroutines.
THEOREM CardsDoNotRace == Spec => []OneWorkerPerCard
<1>1. IInv /\ Assembly => OneWorkerPerCard
  <2> SUFFICES ASSUME IInv, Assembly, WellFormed, NEW i \in Positions, NEW j \in Positions,
                      worker[i] # "none", worker[j] # "none", i # j, doc[i].key = doc[j].key
               PROVE  FALSE
    BY DEF OneWorkerPerCard
  <2>1. faces[i] = faces[j]
    BY WorkerHasTheCard DEF IInv
  <2>2. i \in faces[i]
    BY DEF Assembly, WorkerFaces
  <2> QED
    BY <2>1, <2>2 DEF Assembly, FacesAreApart
<1> QED
  BY <1>1, Assembled, PTL

-----------------------------------------------------------------------------
(* The import implements its contract: what it imports, it imports card by *)
(* card and set by set, and it answers once.                               *)

\* Initially nothing is imported, in both.
LEMMA ContractInit == Init => Contract!Init
<1> SUFFICES ASSUME Init PROVE Contract!Init
  OBVIOUS
<1>1. \A i \in Importable : ~ Imported(i)
  BY DEF Init, Imported, Importable, Positions
<1> QED
  BY <1>1 DEF Init, Contract!Init, Errors, Importable

\* What is imported is so by the goroutines that are done, and the sets.
ImportedNow == {i \in Importable : Imported(i)}

Answered == IF result \in Errors THEN "error" ELSE result

\* No step but those of a goroutine that succeeds and of a set imports anything.
LEMMA NothingImported ==
  ASSUME TypeOK, UNCHANGED <<doc, setsDone>>,
         \A i \in Positions : /\ worker'[i] = "done" <=> worker[i] = "done"
                              /\ worker[i] = "done" => faces'[i] = faces[i]
  PROVE  ImportedNow' = ImportedNow
<1>1. Positions' = Positions
  BY DEF Positions
<1>2. \A i \in Positions : Imported(i)' <=> Imported(i)
  BY <1>1 DEF Imported
<1> QED
  BY <1>1, <1>2 DEF ImportedNow, Importable

\* No step changes the document, and none that answers or goes on imports.
LEMMA ContractOtherSteps ==
  ASSUME IInv,
         \/ Parse \/ Receive \/ HandleError \/ HandleSetFails \/ HandleBadCard
         \/ CollectFace \/ CompleteCard \/ SingleFacedCard \/ ChannelClosed
         \/ Wait \/ Uncollected \/ CountRows
  PROVE  /\ doc' = doc /\ ImportedNow' = ImportedNow
         /\ \/ result' = result
            \/ result = "none" /\ result' \in Errors \cup {"ok"}
<1>1. TypeOK
  BY DEF IInv
<1>2. CASE Parse
  <2>1. UNCHANGED <<doc, importVars, workerVars>>
    BY <1>2 DEF Parse, ParseCard, ParseSet, SetCancelled, ParseSetWithoutCode,
           ParseError, KeyError, EndOfDocument, Reads, Close, Offer
  <2> QED
    BY <1>1, <2>1, NothingImported DEF importVars, workerVars
<1>3. CASE CompleteCard \/ SingleFacedCard
  <2>1. /\ UNCHANGED <<doc, setsDone, result>>
        /\ ipc = "handle" /\ cur \in Positions
        /\ worker' = [worker EXCEPT ![cur] = "running"]
        /\ \E ff : faces' = [faces EXCEPT ![cur] = ff]
    BY <1>1, <1>3 DEF TypeOK, CompleteCard, SingleFacedCard, StartWorker, Handles
  <2>2. worker[cur] = "none"
    BY <2>1 DEF IInv, WorkersAreBehind, InHand
  <2>3. \A i \in Positions : /\ worker'[i] = "done" <=> worker[i] = "done"
                             /\ worker[i] = "done" => faces'[i] = faces[i]
    BY <1>1, <2>1, <2>2 DEF TypeOK
  <2> QED
    BY <1>1, <2>1, <2>3, NothingImported
<1>4. CASE Receive \/ CollectFace \/ ChannelClosed
  <2>1. UNCHANGED <<doc, setsDone, worker, faces, result>>
    BY <1>4 DEF Receive, CollectFace, ChannelClosed, workerVars
  <2> QED
    BY <1>1, <2>1, NothingImported
<1>5. CASE HandleError \/ HandleSetFails \/ HandleBadCard \/ Wait \/ Uncollected \/ CountRows
  <2>1. /\ UNCHANGED <<doc, setsDone, worker, faces>> /\ ipc # "returned"
        /\ result' = result \/ result' \in Errors \cup {"ok"}
    BY <1>5 DEF HandleError, HandleSetFails, HandleBadCard, Wait, Uncollected, CountRows,
       Return, Handles, workerVars, Errors, Reasons
  <2>2. result = "none"
    BY <2>1 DEF IInv, Phases
  <2> QED
    BY <1>1, <2>1, <2>2, NothingImported
<1> QED
  BY <1>2, <1>3, <1>4, <1>5

\* A set is imported, or all faces of a card, while there is no success yet.
LEMMA ContractImports ==
  ASSUME IInv, Assembly,
         HandleSet \/ \E w \in Positions : WorkerSucceeds(w) \/ WorkerFails(w)
  PROVE  /\ doc' = doc /\ result' = result /\ result # "ok"
         /\ \E part \in SUBSET Importable :
              /\ \A i, j \in part : UnitOf(i) = UnitOf(j)
              /\ ImportedNow' = ImportedNow \cup part
<1>1. TypeOK
  BY DEF IInv
<1>2. CASE HandleSet
  <2>1. /\ UNCHANGED <<doc, worker, faces, result>> /\ cur \in Positions /\ doc[cur].kind = "set"
        /\ setsDone' = setsDone \cup {cur} /\ ipc = "handle"
    BY <1>1, <1>2 DEF TypeOK, HandleSet, Handles, workerVars
  <2>2. Positions' = Positions /\ cur \in Importable /\ Importable' = Importable
    BY <2>1 DEF Positions, Importable
  <2>3. \A i \in Importable : Imported(i)' <=> Imported(i) \/ i = cur
    BY <2>1, <2>2 DEF Imported, Importable
  <2>4. ImportedNow' = ImportedNow \cup {cur}
    BY <2>2, <2>3 DEF ImportedNow
  <2>5. result # "ok"
    BY <2>1 DEF IInv, Phases
  <2> QED
    BY <2>1, <2>2, <2>4, <2>5
<1>3. ASSUME NEW w \in Positions, WorkerSucceeds(w)
      PROVE  /\ doc' = doc /\ result' = result /\ result # "ok"
             /\ \E part \in SUBSET Importable :
                  /\ \A i, j \in part : UnitOf(i) = UnitOf(j)
                  /\ ImportedNow' = ImportedNow \cup part
  <2>1. /\ UNCHANGED <<doc, faces, setsDone, result>>
        /\ worker[w] = "running" /\ worker' = [worker EXCEPT ![w] = "done"]
    BY <1>3 DEF WorkerSucceeds, importVars
  <2>2. \A j \in faces[w] : j \in Positions /\ doc[j].kind = "card" /\ doc[j].key = doc[w].key
    BY <1>1, <2>1 DEF TypeOK, Assembly, WorkerFaces, IsFaceOf
  <2>3. Positions' = Positions /\ faces[w] \subseteq Importable /\ Importable' = Importable
    BY <2>1, <2>2 DEF Positions, Importable
  <2>4. \A i \in Importable : Imported(i)' <=> Imported(i) \/ i \in faces[w]
    BY <1>1, <2>1, <2>2, <2>3 DEF TypeOK, Imported, Importable
  <2>5. ImportedNow' = ImportedNow \cup faces[w]
    BY <2>3, <2>4 DEF ImportedNow
  <2>6. result # "ok"
    BY <2>1 DEF IInv, Phases, AfterWait, Running
  <2>7. \A i, j \in faces[w] : UnitOf(i) = UnitOf(j)
    BY <2>2 DEF UnitOf
  <2> QED
    BY <2>1, <2>3, <2>5, <2>6, <2>7
<1>4. ASSUME NEW w \in Positions, WorkerFails(w)
      PROVE  /\ doc' = doc /\ result' = result /\ result # "ok"
             /\ \E part \in SUBSET Importable :
                  /\ \A i, j \in part : UnitOf(i) = UnitOf(j)
                  /\ ImportedNow' = ImportedNow \cup part
  <2>1. /\ UNCHANGED <<doc, faces, setsDone, result>>
        /\ worker[w] = "running" /\ worker' = [worker EXCEPT ![w] = "failed"]
    BY <1>4 DEF WorkerFails, importVars
  <2>2. ImportedNow' = ImportedNow \cup {}
    BY <1>1, <2>1, NothingImported DEF TypeOK
  <2>3. result # "ok"
    BY <2>1 DEF IInv, Phases, AfterWait, Running
  <2>4. {} \in SUBSET Importable /\ \A i, j \in {} : UnitOf(i) = UnitOf(j)
    OBVIOUS
  <2> QED
    BY <2>1, <2>2, <2>3, <2>4, Zenon
<1> QED
  BY <1>2, <1>3, <1>4

\* Every step is one that the contract allows, or does not show.
LEMMA ContractNext ==
  IInv /\ IInv' /\ Assembly /\ [Next]_vars => [Contract!Next]_(Contract!vars)
<1> DEFINE unit == [i \in Importable |-> UnitOf(i)]
           required == Reachable \cap Importable
<1> SUFFICES ASSUME IInv, IInv', Assembly, [Next]_vars
             PROVE  [Contract!Next]_(Contract!vars)
  OBVIOUS
<1>1. ASSUME doc' = doc PROVE unit' = unit /\ required' = required
  BY <1>1 DEF Importable, Reachable, Positions, UnitOf
<1>2. CASE HandleSet \/ \E w \in Positions : Worker(w)
  <2>1. /\ doc' = doc /\ result' = result /\ result # "ok"
        /\ \E part \in SUBSET Importable :
             /\ \A i, j \in part : UnitOf(i) = UnitOf(j)
             /\ ImportedNow' = ImportedNow \cup part
    BY <1>2, ContractImports DEF Worker
  <2>2. PICK part \in SUBSET Importable :
          /\ \A i, j \in part : UnitOf(i) = UnitOf(j)
          /\ ImportedNow' = ImportedNow \cup part
    BY <2>1
  <2> DEFINE new == part \ ImportedNow
  <2>3. /\ new \in SUBSET (DOMAIN unit \ ImportedNow)
        /\ \A i, j \in new : unit[i] = unit[j]
        /\ ImportedNow' = ImportedNow \cup new
    BY <2>2
  <2>4. Answered # "ok" /\ Answered' = Answered
    BY <2>1 DEF Answered
  <2> HIDE DEF new
  <2>5. Contract!ImportUnit
    BY <1>1, <2>1, <2>3, <2>4 DEF Contract!ImportUnit, ImportedNow, Answered
  <2> QED
    BY <2>5 DEF Contract!Next
<1>3. CASE Parse \/ (Import /\ ~ HandleSet)
  <2>1. /\ doc' = doc /\ ImportedNow' = ImportedNow
        /\ \/ result' = result
           \/ result = "none" /\ result' \in Errors \cup {"ok"}
    BY <1>3, ContractOtherSteps DEF Import
  <2>2. CASE result' = result
    BY <1>1, <2>1, <2>2 DEF Contract!vars, ImportedNow
  <2>3. CASE result = "none" /\ result' \in Errors
    <3>1. Contract!Answer
      BY <1>1, <2>1, <2>3 DEF Contract!Answer, ImportedNow, Errors
    <3> QED
      BY <3>1 DEF Contract!Next
  <2>4. CASE result = "none" /\ result' = "ok"
    <3>1. SuccessIsComplete'
      BY CompleteSuccess, PTL
    <3>2. required \subseteq ImportedNow
      BY <1>1, <2>1, <2>4, <3>1 DEF SuccessIsComplete, ImportedNow, Importable
    <3>3. Contract!Answer
      BY <1>1, <2>1, <2>4, <3>2 DEF Contract!Answer, ImportedNow, Errors
    <3> QED
      BY <3>3 DEF Contract!Next
  <2> QED
    BY <2>1, <2>2, <2>3, <2>4
<1>4. CASE Returned \/ UNCHANGED vars
  <2>1. doc' = doc /\ result' = result /\ ImportedNow' = ImportedNow
    BY <1>4, NothingImported DEF Returned, vars, IInv
  <2> QED
    BY <1>1, <2>1 DEF Contract!vars, ImportedNow
<1> QED
  BY <1>2, <1>3, <1>4 DEF Next

\* What the import does is what its contract allows, whatever the document, the
\* failures of the services and the interleaving.
THEOREM ContractIsKept == Spec => ImplementsContract
<1>1. Spec => [](IInv /\ Assembly) /\ [][Next]_vars
  BY Assembled, PTL DEF Spec
<1> QED
  BY <1>1, ContractInit, ContractNext, PTL DEF Spec, ImplementsContract, Contract!Spec
=============================================================================
