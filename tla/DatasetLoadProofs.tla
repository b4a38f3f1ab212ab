--------------------------- MODULE DatasetLoadProofs ---------------------------
(***************************************************************************)
(* Proofs about DatasetLoad and WebRetry for any number of processes and   *)
(* callers, of versions and parts, of retries and of entries in an archive.*)
(***************************************************************************)
EXTENDS DatasetLoad, TLAPS

-----------------------------------------------------------------------------
(* The steps of one process. *)

LoaderStep(p) == Load(p) \/ PingFails(p) \/ StorageFails(p) \/ Stop(p) \/ Restart(p)
GetterStep(p) == Call(p) \/ Reply(p) \/ Cancel(p)

Step(p) ==
  \/ p \in setup.loaders /\ LoaderStep(p)
  \/ p \in setup.getters /\ GetterStep(p)

\* What a step of a process may do in the web client.
WebMove(p) ==
  \/ Get(p)
  \/ TimerFires(p, setup.retries)
  \/ StopsWaiting(p)
  \/ \E answer \in Answers : Answered(p, answer, setup.retries)
  \/ EndContext(p)
  \/ Release(p)
  \/ Forget(p)

\* What the constants are assumed to be.
LEMMA SetupFacts ==
  ASSUME setup \in Setups
  PROVE  /\ setup.loaders \subseteq Callers /\ setup.getters \subseteq Callers
         /\ setup.loaders \cap setup.getters = {}
         /\ setup.source \in Sources
         /\ setup.entries \in Seq({"file", "bad"})
         /\ setup.retries \in Nat
         /\ setup.runs \in [Callers -> Nat \ {0}]
         /\ PartsOf \in Seq(Nat \ {0}) /\ Len(PartsOf) \in Nat \ {0}
         /\ Versions = 1..Len(PartsOf) /\ \A v \in Versions : PartsOf[v] \in Nat \ {0}
<1>1. IsSetup(setup) /\ PartsOf \in Seq(Nat \ {0}) /\ PartsOf # << >>
  BY DatasetLoadAssumption
<1> QED
  BY <1>1 DEF IsSetup, Versions

\* A document is a file of its version only.
LEMMA DocumentFacts ==
  ASSUME setup \in Setups, NEW v \in Versions
  PROVE  /\ Document(v) \in Seq(Parts) /\ Len(Document(v)) = PartsOf[v]
         /\ \A i \in 1..PartsOf[v] : Document(v)[i] = v
<1>1. PartsOf[v] \in Nat /\ v \in Parts
  BY SetupFacts DEF Parts
<1> QED
  BY <1>1 DEF Document

\* Every step is the step of one process, or a new version is published.
LEMMA StepsOfNext ==
  ASSUME TypeOK, [Next]_vars
  PROVE  (\E p \in Callers : Step(p)) \/ Publish \/ UNCHANGED vars
<1>1. setup.loaders \subseteq Callers /\ setup.getters \subseteq Callers
  BY SetupFacts DEF TypeOK
<1> QED
  BY <1>1 DEF Next, Ended, Step, LoaderStep, GetterStep

\* The web client is used by its operations only.
LEMMA WebMoves ==
  ASSUME NEW p \in Callers, Step(p)
  PROVE  WebMove(p) \/ UNCHANGED webVars
BY DEF Step, LoaderStep, GetterStep, Load, Ping, ChooseSource, SendRequest, WebStep,
   GetAnswer, RequestFailed, NameDownload, CreateDownload, CopyDownload, OpenArchive,
   NextEntry, Inflate, CountFiles, RemoveArchive, RemoveFails, ReadPart, ImportEnds, Return,
   PingFails, StorageFails, Stop, Restart, Call, Reply, Cancel, WebMove

-----------------------------------------------------------------------------
(* Type correctness. *)

\* The operations of the web client keep the types of its variables.
LEMMA WebTypes ==
  ASSUME TypeOK, NEW p \in Callers, WebMove(p)
  PROVE  WebTypeOK'
<1>1. setup.retries \in Nat /\ WebTypeOK
  BY SetupFacts DEF TypeOK
<1>2. CASE Get(p)
  BY <1>1, <1>2 DEF Get, InPhase, WebTypeOK
<1>5. CASE StopsWaiting(p) \/ EndContext(p)
  BY <1>1, <1>5 DEF StopsWaiting, EndContext, InPhase, WebTypeOK
<1>6. CASE Release(p) \/ Forget(p)
  BY <1>1, <1>6 DEF Release, Forget, CloseBody, InPhase, WebTypeOK
<1>3. CASE TimerFires(p, setup.retries)
  BY <1>1, <1>3 DEF TimerFires, InPhase, WebTypeOK
<1>4. ASSUME NEW answer \in Answers, Answered(p, answer, setup.retries) PROVE WebTypeOK'
  BY <1>1, <1>4 DEF Answered, WebTypeOK, BodyAfter, InPhase, RetryLeft, WaitAgain, Answers
<1> QED
  BY <1>2, <1>3, <1>4, <1>5, <1>6 DEF WebMove

FileRecord == [parts : Seq(Parts), by : SUBSET Callers]

FileType ==
  /\ file = [name \in DOMAIN file |-> file[name]]
  /\ \A name \in DOMAIN file : file[name] \in FileRecord

\* What a truncated file and its neighbours are.
LEMMA TruncateFacts ==
  ASSUME FileType, NEW p \in Callers, NEW name, file' = Truncate(p, name)
  PROVE  /\ FileType'
         /\ DOMAIN file' = DOMAIN file \cup {name}
         /\ file'[name] = [parts |-> << >>, by |-> WritersOf(name) \cup {p}]
         /\ \A n \in DOMAIN file \ {name} : file'[n] = file[n]
<1>1. WritersOf(name) \in SUBSET Callers
  BY DEF FileType, FileRecord, WritersOf
<1>2. << >> \in Seq(Parts)
  OBVIOUS
<1>3. [parts |-> << >>, by |-> WritersOf(name) \cup {p}] \in FileRecord
  BY <1>1, <1>2 DEF FileRecord
<1> QED
  BY <1>3 DEF FileType, Truncate, Opened

\* A part written at its place makes a file longer at most by it and a hole.
LEMMA OverwriteFacts ==
  ASSUME NEW old \in Seq(Parts), NEW i \in Nat \ {0}, NEW v \in Parts
  PROVE  /\ Overwrite(old, i, v) \in Seq(Parts)
         /\ Len(Overwrite(old, i, v)) = IF i > Len(old) THEN i ELSE Len(old)
         /\ Overwrite(old, i, v)[i] = v
         /\ \A k \in 1..Len(old) : k # i => Overwrite(old, i, v)[k] = old[k]
<1> DEFINE L == IF i > Len(old) THEN i ELSE Len(old)
           new == [k \in 1..L |-> IF k = i THEN v ELSE IF k <= Len(old) THEN old[k] ELSE 0]
<1>1. L \in Nat /\ Len(old) \in Nat /\ i \in 1..L /\ 1..Len(old) \subseteq 1..L /\ 0 \in Parts
  BY DEF Parts
<1> HIDE DEF L
<1>2. \A k \in 1..L : new[k] \in Parts
  BY <1>1
<1>3. new \in Seq(Parts) /\ Len(new) = L
  BY <1>1, <1>2
<1>4. new[i] = v /\ \A k \in 1..Len(old) : k # i => new[k] = old[k]
  BY <1>1
<1> QED
  BY <1>3, <1>4 DEF Overwrite, L

\* What a file that is written and its neighbours are.
LEMMA WriteFacts ==
  ASSUME FileType, NEW name, NEW i \in Nat \ {0}, NEW v \in Parts, file' = Write(name, i, v)
  PROVE  /\ FileType'
         /\ DOMAIN file' = DOMAIN file
         /\ name \in DOMAIN file => /\ file'[name].by = file[name].by
                                    /\ file'[name].parts = Overwrite(file[name].parts, i, v)
         /\ \A n \in DOMAIN file \ {name} : file'[n] = file[n]
<1>1. CASE name \in DOMAIN file
  <2>1. Overwrite(file[name].parts, i, v) \in Seq(Parts)
    BY <1>1, OverwriteFacts DEF FileType, FileRecord
  <2>2. file' = [file EXCEPT ![name].parts = Overwrite(file[name].parts, i, v)]
    BY <1>1 DEF Write
  <2>3. /\ file[name] \in FileRecord
        /\ DOMAIN file' = DOMAIN file
        /\ file'[name] = [file[name] EXCEPT !.parts = Overwrite(file[name].parts, i, v)]
        /\ \A n \in DOMAIN file \ {name} : file'[n] = file[n]
        /\ file' = [n \in DOMAIN file' |-> file'[n]]
    BY <1>1, <2>2 DEF FileType
  <2>4. file'[name].by = file[name].by /\ file'[name].parts = Overwrite(file[name].parts, i, v)
    BY <2>3 DEF FileRecord
  <2>5. file'[name] \in FileRecord
    BY <2>1, <2>3 DEF FileRecord
  <2>6. FileType'
    BY <2>3, <2>5 DEF FileType
  <2> QED
    BY <2>3, <2>4, <2>6
<1>2. CASE name \notin DOMAIN file
  BY <1>2 DEF Write, FileType
<1> QED
  BY <1>1, <1>2

\* What is left when a file is removed.
LEMMA RemoveFacts ==
  ASSUME FileType, NEW name, file' = Restrict(file, DOMAIN file \ {name})
  PROVE  /\ FileType'
         /\ DOMAIN file' = DOMAIN file \ {name}
         /\ \A n \in DOMAIN file \ {name} : file'[n] = file[n]
BY DEF FileType, Restrict

\* The steps that change files, by their place in the program.
FileMove(p) ==
  \/ At(p, "create") /\ file' = Truncate(p, Download(stamp[p]))
  \/ At(p, "unzip") /\ file' = Truncate(p, Entry(entry[p] + 1))
  \/ At(p, "copy") /\ file' = Write(Download(stamp[p]), done[p] + 1, fetched[p])
  \/ At(p, "inflate") /\ file' = Write(Entry(entry[p]), done[p] + 1, fetched[p])
  \/ /\ At(p, "remove") /\ Archive(p) \in DOMAIN file
     /\ file' = Restrict(file, DOMAIN file \ {Archive(p)})

\* Files are changed by these only.
LEMMA FileMoves ==
  ASSUME NEW p \in Callers, Step(p)
  PROVE  (p \in setup.loaders /\ FileMove(p)) \/ file' = file
BY DEF Step, LoaderStep, GetterStep, Load, Ping, ChooseSource, SendRequest, WebStep,
   GetAnswer, RequestFailed, NameDownload, CreateDownload, CopyDownload, OpenArchive,
   NextEntry, Inflate, CountFiles, RemoveArchive, RemoveFails, ReadPart, ImportEnds, Return,
   PingFails, StorageFails, Stop, Restart, Call, Reply, Cancel, FileMove, WritePart,
   loadVars

\* So every step keeps the types of the files.
LEMMA FileTypes ==
  ASSUME TypeOK, NEW p \in Callers, Step(p)
  PROVE  FileType'
<1>1. FileType /\ done[p] \in Nat /\ fetched[p] \in Parts
  BY DEF TypeOK, FileType, FileRecord
<1>2. done[p] + 1 \in Nat \ {0}
  BY <1>1
<1> QED
  BY <1>1, <1>2, FileMoves, TruncateFacts, WriteFacts, RemoveFacts DEF FileMove, FileType, FileRecord

-----------------------------------------------------------------------------

\* Which steps change which variables, and for which process.
ControlMove(p) ==
  /\ setup' = setup /\ published' = published
  /\ pc' = pc \/ \E l \in Labels : pc' = [pc EXCEPT ![p] = l]
  /\ why' = why \/ \E r \in Reasons : why' = [why EXCEPT ![p] = r]
  /\ fetched' = fetched \/ \E v \in {0, published} : fetched' = [fetched EXCEPT ![p] = v]
  /\ done' = done \/ \E d \in {0, done[p] + 1} : done' = [done EXCEPT ![p] = d]
  /\ kept' = kept \/ \E b \in BOOLEAN : kept' = [kept EXCEPT ![p] = b]
  /\ UNCHANGED <<clock, stamp>> \/ NameDownload(p)
  /\ pings' = pings \/ PingFails(p) \/ Restart(p)
  /\ entry' = entry \/ OpenArchive(p) \/ NextEntry(p)
  /\ seen' = seen \/ ReadPart(p) \/ Restart(p)
  /\ runs' = runs \/ Restart(p)

\* Every step of a process is one of these.
LEMMA ControlMoves ==
  ASSUME NEW p \in Callers, Step(p)
  PROVE  ControlMove(p)
<1> USE DEF Step, LoaderStep, GetterStep, Load, Ping, ChooseSource, SendRequest, WebStep,
   GetAnswer, RequestFailed, CreateDownload, CopyDownload,
   Inflate, CountFiles, RemoveArchive, RemoveFails, ImportEnds, Return,
   StorageFails, Stop, Call, Reply, Cancel, WritePart, Goto, Fail, LeaveExtract, Cleanup, AfterRemove, loadVars
<1>1. setup' = setup /\ published' = published
  BY DEF NameDownload, OpenArchive, NextEntry, ReadPart, PingFails, Restart
<1>2. pc' = pc \/ \E l \in Labels : pc' = [pc EXCEPT ![p] = l]
  BY DEF NameDownload, OpenArchive, NextEntry, ReadPart, PingFails, Restart, Labels
<1>3. why' = why \/ \E r \in Reasons : why' = [why EXCEPT ![p] = r]
  BY DEF NameDownload, OpenArchive, NextEntry, ReadPart, PingFails, Restart, Reasons
<1>4. fetched' = fetched \/ \E v \in {0, published} : fetched' = [fetched EXCEPT ![p] = v]
  BY DEF NameDownload, OpenArchive, NextEntry, ReadPart, PingFails, Restart
<1>5. done' = done \/ \E d \in {0, done[p] + 1} : done' = [done EXCEPT ![p] = d]
  BY DEF NameDownload, OpenArchive, NextEntry, ReadPart, PingFails, Restart
<1>6. kept' = kept \/ \E b \in BOOLEAN : kept' = [kept EXCEPT ![p] = b]
  BY DEF NameDownload, OpenArchive, NextEntry, ReadPart, PingFails, Restart
<1>7. UNCHANGED <<clock, stamp>> \/ NameDownload(p)
  BY DEF OpenArchive, NextEntry, ReadPart, PingFails, Restart
<1>8. pings' = pings \/ PingFails(p) \/ Restart(p)
  BY DEF NameDownload, OpenArchive, NextEntry, ReadPart
<1>9. entry' = entry \/ OpenArchive(p) \/ NextEntry(p)
  BY DEF NameDownload, ReadPart, PingFails, Restart
<1>10. seen' = seen \/ ReadPart(p) \/ Restart(p)
  BY DEF NameDownload, OpenArchive, NextEntry, PingFails
<1>11. runs' = runs \/ Restart(p)
  BY DEF NameDownload, OpenArchive, NextEntry, ReadPart, PingFails
<1> QED
  BY <1>1, <1>2, <1>3, <1>4, <1>5, <1>6, <1>7, <1>8, <1>9, <1>10, <1>11 DEF ControlMove

\* Who is going to ping has failed to less often than is allowed.
PingsLeft == \A p \in Callers : At(p, "ping") => pings[p] < maxRetry

\* Nothing but a failed ping counts, and only a start begins to ping.
LEMMA PingsAreCounted ==
  ASSUME TypeOK, PingsLeft, NEW p \in Callers, Step(p)
  PROVE  /\ pings' \in [Callers -> 0..maxRetry]
         /\ PingsLeft'
<1>1. /\ pc \in [Callers -> Labels] /\ pings \in [Callers -> 0..maxRetry]
      /\ \A q \in Callers : pings[q] \in 0..5
  BY DEF TypeOK, maxRetry
<1>2. CASE PingFails(p)
  <2>1. /\ pings' = [pings EXCEPT ![p] = pings[p] + 1] /\ pings[p] < 5
        /\ IF pings[p] + 1 < 5 THEN pc' = pc ELSE pc' = [pc EXCEPT ![p] = "return"]
    BY <1>2 DEF PingFails, PingsLeft, PingsAgain, maxRetry, Fail, Goto
  <2>2. pings[p] + 1 \in 0..maxRetry
    BY <1>1, <2>1 DEF maxRetry
  <2>3. pings' \in [Callers -> 0..maxRetry]
    BY <1>1, <2>1, <2>2
  <2>4. PingsLeft'
    BY <1>1, <2>1 DEF PingsLeft, At, maxRetry
  <2> QED
    BY <2>3, <2>4
<1>3. CASE Restart(p)
  <2>1. pings' = [pings EXCEPT ![p] = 0] /\ pc' = [pc EXCEPT ![p] = "ping"]
    BY <1>3 DEF Restart, Goto
  <2> QED
    BY <1>1, <2>1 DEF PingsLeft, At, maxRetry
<1>4. CASE ~ PingFails(p) /\ ~ Restart(p)
  <2>1. pings' = pings
    BY <1>4, ControlMoves DEF ControlMove
  <2>2. pc'[p] # "ping" \/ pc' = pc
    BY <1>1, <1>4 DEF Step, LoaderStep, GetterStep, Load, Ping, ChooseSource, SendRequest, WebStep,
       GetAnswer, RequestFailed, NameDownload, CreateDownload, CopyDownload, OpenArchive,
       NextEntry, Inflate, CountFiles, RemoveArchive, RemoveFails, ReadPart, ImportEnds, Return,
       StorageFails, Stop, Call, Reply, Cancel, WritePart, Goto, Fail, LeaveExtract, Cleanup,
       AfterRemove, loadVars
  <2>3. \A q \in Callers \ {p} : pc'[q] = pc[q]
    BY <1>1, ControlMoves DEF ControlMove
  <2> QED
    BY <1>1, <2>1, <2>2, <2>3 DEF PingsLeft, At
<1> QED
  BY <1>2, <1>3, <1>4

\* A step of a process keeps all types.
LEMMA TypeStep ==
  ASSUME TypeOK, PingsLeft, NEW p \in Callers, Step(p)
  PROVE  TypeOK'
<1>1. /\ setup \in Setups /\ published \in Versions /\ clock \in Nat
      /\ pc \in [Callers -> Labels] /\ why \in [Callers -> Reasons]
      /\ fetched \in [Callers -> Parts] /\ done \in [Callers -> Nat]
      /\ kept \in [Callers -> BOOLEAN] /\ runs \in [Callers -> Nat]
      /\ stamp \in [Callers -> 0..clock] /\ seen \in [Callers -> Seq(Parts)]
      /\ entry \in [Callers -> 0..Len(setup.entries)]
      /\ \A q \in Callers : runs[q] \in 1..setup.runs[q]
  BY DEF TypeOK
<1>2. ControlMove(p)
  BY ControlMoves
<1>3. setup' \in Setups /\ published' \in Versions
  BY <1>1, <1>2 DEF ControlMove
<1>4. pc' \in [Callers -> Labels] /\ why' \in [Callers -> Reasons]
  <2>1. pc' = pc \/ \E l \in Labels : pc' = [pc EXCEPT ![p] = l]
    BY <1>2 DEF ControlMove
  <2>2. why' = why \/ \E r \in Reasons : why' = [why EXCEPT ![p] = r]
    BY <1>2 DEF ControlMove
  <2>3. pc' \in [Callers -> Labels]
    BY <1>1, <2>1
  <2>4. why' \in [Callers -> Reasons]
    BY <1>1, <2>2
  <2> QED
    BY <2>3, <2>4
<1>5. fetched' \in [Callers -> Parts]
  <2>1. 0 \in Parts /\ published \in Parts
    BY <1>1 DEF Parts
  <2>2. fetched' = fetched \/ \E v \in Parts : fetched' = [fetched EXCEPT ![p] = v]
    BY <1>2, <2>1 DEF ControlMove
  <2> QED
    BY <1>1, <2>2
<1>6. done' \in [Callers -> Nat]
  <2>1. {0, done[p] + 1} \subseteq Nat
    BY <1>1
  <2> QED
    BY <1>1, <1>2, <2>1 DEF ControlMove
<1>7. kept' \in [Callers -> BOOLEAN]
  BY <1>1, <1>2 DEF ControlMove
<1>8. clock' \in Nat /\ stamp' \in [Callers -> 0..clock']
  <2>1. CASE UNCHANGED <<clock, stamp>>
    BY <1>1, <2>1
  <2>2. CASE NameDownload(p)
    <3>1. /\ clock' \in clock..(clock + 1)
          /\ stamp' = stamp \/ stamp' = [stamp EXCEPT ![p] = clock']
      BY <2>2 DEF NameDownload
    <3>2. clock' \in Nat /\ clock' \in 0..clock' /\ \A t \in 0..clock : t \in 0..clock'
      BY <1>1, <3>1
    <3>3. \A q \in Callers : stamp[q] \in 0..clock'
      BY <1>1, <3>2
    <3> QED
      BY <1>1, <3>1, <3>2, <3>3
  <2> QED
    BY <1>2, <2>1, <2>2 DEF ControlMove
<1>9. entry' \in [Callers -> 0..Len(setup'.entries)]
  <2>1. Len(setup.entries) \in Nat /\ setup' = setup
    BY <1>1, <1>2, SetupFacts DEF ControlMove
  <2>2. entry' = entry \/ \E n \in 0..Len(setup.entries) : entry' = [entry EXCEPT ![p] = n]
    <3>1. CASE OpenArchive(p)
      <4>1. 0 \in 0..Len(setup.entries) /\ entry' = [entry EXCEPT ![p] = 0]
        BY <2>1, <3>1 DEF OpenArchive
      <4> QED
        BY <4>1
    <3>2. CASE NextEntry(p)
      <4>1. entry[p] \in 0..Len(setup.entries) /\ entry[p] < Len(setup.entries)
        BY <1>1, <3>2 DEF NextEntry
      <4>2. entry[p] + 1 \in 0..Len(setup.entries)
        BY <2>1, <4>1
      <4> QED
        BY <3>2, <4>2 DEF NextEntry
    <3> QED
      BY <1>2, <3>1, <3>2 DEF ControlMove
  <2> QED
    BY <1>1, <2>1, <2>2
<1>10. seen' \in [Callers -> Seq(Parts)]
  <2>1. CASE ReadPart(p)
    <3> DEFINE parts == Content(ImportFile(p))
               next == parts[Len(seen[p]) + 1]
    <3>1. parts \in Seq(Parts)
      <4>1. << >> \in Seq(Parts)
        OBVIOUS
      <4> QED
        BY <4>1 DEF TypeOK, Content
    <3>2. seen[p] \in Seq(Parts) /\ Len(seen[p]) < Len(parts)
      BY <1>1, <2>1 DEF ReadPart
    <3> HIDE DEF parts
    <3>3. next \in Parts
      BY <3>1, <3>2
    <3>4. Append(seen[p], next) \in Seq(Parts)
      BY <3>2, <3>3
    <3>5. seen' = [seen EXCEPT ![p] = Append(seen[p], next)]
      BY <2>1 DEF ReadPart, parts
    <3> HIDE DEF next
    <3> QED
      BY <1>1, <3>4, <3>5
  <2>2. CASE Restart(p)
    <3>1. seen' = [seen EXCEPT ![p] = << >>]
      BY <2>2 DEF Restart
    <3>2. << >> \in Seq(Parts)
      OBVIOUS
    <3> QED
      BY <1>1, <3>1, <3>2
  <2> QED
    BY <1>1, <1>2, <2>1, <2>2 DEF ControlMove
<1>11. runs' \in [Callers -> Nat] /\ \A q \in Callers : runs'[q] \in 1..setup'.runs[q]
  <2>1. CASE Restart(p)
    <3>1. /\ setup.runs[p] \in Nat /\ runs[p] < setup.runs[p] /\ runs[p] \in Nat
          /\ runs' = [runs EXCEPT ![p] = runs[p] + 1] /\ setup' = setup
      BY <1>1, <2>1, SetupFacts DEF Restart
    <3>2. runs[p] + 1 \in 1..setup.runs[p] /\ runs[p] + 1 \in Nat
      BY <3>1
    <3> QED
      BY <1>1, <3>1, <3>2
  <2>2. CASE runs' = runs
    BY <1>1, <1>2, <2>2 DEF ControlMove
  <2> QED
    BY <1>2, <2>1, <2>2 DEF ControlMove
<1>12. pings' \in [Callers -> 0..maxRetry]
  BY PingsAreCounted
<1>13. FileType'
  BY FileTypes
<1>14. WebTypeOK'
  <2>1. CASE WebMove(p)
    BY <2>1, WebTypes
  <2>2. CASE UNCHANGED webVars
    BY <2>2 DEF TypeOK, WebTypeOK, webVars
  <2> QED
    BY <2>1, <2>2, WebMoves
<1> QED
  BY <1>3, <1>4, <1>5, <1>6, <1>7, <1>8, <1>9, <1>10, <1>11, <1>12, <1>13, <1>14
  DEF TypeOK, FileType, FileRecord

\* The types hold in the beginning.
LEMMA TypeInit ==
  ASSUME Init
  PROVE  TypeOK /\ PingsLeft
<1>1. setup \in Setups
  BY DEF Init
<1>2. /\ setup.runs \in [Callers -> Nat \ {0}] /\ Len(setup.entries) \in Nat
      /\ Len(PartsOf) \in Nat \ {0} /\ Versions = 1..Len(PartsOf)
  BY <1>1, SetupFacts
<1>3. 1 \in Versions /\ 0 \in Parts /\ 0 \in 0..Len(setup.entries) /\ 0 \in 0..maxRetry
  BY <1>2 DEF Parts, maxRetry
<1>4. /\ published = 1 /\ clock = 0 /\ why = [p \in Callers |-> ""]
      /\ pings = [p \in Callers |-> 0] /\ stamp = [p \in Callers |-> 0]
      /\ fetched = [p \in Callers |-> 0] /\ entry = [p \in Callers |-> 0]
      /\ done = [p \in Callers |-> 0] /\ seen = [p \in Callers |-> << >>]
      /\ kept = [p \in Callers |-> FALSE] /\ runs = [p \in Callers |-> 1]
  BY DEF Init
<1>5. WebTypeOK
  BY DEF Init, WebInit, WebTypeOK, Answers
<1>6. FileType
  <2>1. Document(1) \in Seq(Parts)
    BY <1>1, <1>3, DocumentFacts
  <2>2. [parts |-> Document(1), by |-> {}] \in FileRecord
    BY <2>1 DEF FileRecord
  <2> QED
    BY <2>2 DEF Init, FileType
<1>7. pc \in [Callers -> Labels] /\ why \in [Callers -> Reasons]
  BY DEF Init, Labels, Reasons
<1>8. pings \in [Callers -> 0..maxRetry] /\ entry \in [Callers -> 0..Len(setup.entries)]
  BY <1>3, <1>4
<1>9. PingsLeft
  <2>1. pings = [p \in Callers |-> 0]
    BY <1>4
  <2> QED
    BY <2>1 DEF PingsLeft, maxRetry
<1>10. clock \in Nat /\ stamp \in [Callers -> 0..clock]
  <2>1. clock = 0
    BY <1>4
  <2>2. stamp = [p \in Callers |-> 0]
    BY <1>4
  <2> QED
    BY <2>1, <2>2
<1>11. /\ fetched \in [Callers -> Parts] /\ done \in [Callers -> Nat]
       /\ kept \in [Callers -> BOOLEAN] /\ runs \in [Callers -> Nat]
  BY <1>3, <1>4
<1>12. seen \in [Callers -> Seq(Parts)]
  <2>1. << >> \in Seq(Parts)
    OBVIOUS
  <2> QED
    BY <1>4, <2>1
<1>13. \A p \in Callers : runs[p] \in 1..setup.runs[p]
  <2>1. runs = [p \in Callers |-> 1]
    BY <1>4
  <2>2. \A n \in Nat \ {0} : 1 \in 1..n
    OBVIOUS
  <2>3. \A p \in Callers : 1 \in 1..setup.runs[p]
    BY <1>2, <2>2, Zenon
  <2> QED
    BY <2>1, <2>3, Zenon
<1> QED
  BY <1>1, <1>3, <1>4, <1>5, <1>6, <1>7, <1>8, <1>9, <1>10, <1>11, <1>12, <1>13
  DEF TypeOK, FileType, FileRecord

\* And every step keeps them, also the publishing of a new version.
LEMMA TypeNext ==
  ASSUME TypeOK, PingsLeft, [Next]_vars
  PROVE  TypeOK' /\ PingsLeft'
<1>1. CASE \E p \in Callers : Step(p)
  BY <1>1, TypeStep, PingsAreCounted
<1>2. CASE Publish
  <2>1. Len(PartsOf) \in Nat /\ Versions = 1..Len(PartsOf) /\ published \in Versions
    BY SetupFacts DEF TypeOK
  <2>2. published' \in Versions
    BY <1>2, <2>1 DEF Publish
  <2>3. UNCHANGED <<webVars, setup, clock, file, pc, why, pings, stamp, fetched, entry, done,
                    seen, kept, runs>>
    BY <1>2 DEF Publish
  <2> QED
    BY <2>2, <2>3 DEF TypeOK, WebTypeOK, webVars, PingsLeft, At
<1>3. CASE UNCHANGED vars
  BY <1>3 DEF TypeOK, WebTypeOK, webVars, PingsLeft, At, vars, loadVars
<1> QED
  BY <1>1, <1>2, <1>3, StepsOfNext

\* Every variable has its type in every state, no ping is made after the fifth
\* that failed, and a download is never named by a time to come, for any number
\* of processes that load and callers of Get, whatever they are interrupted by.
THEOREM TypeCorrect == Spec => []TypeOK
<1>1. Init => TypeOK /\ PingsLeft
  BY TypeInit
<1>2. TypeOK /\ PingsLeft /\ [Next]_vars => (TypeOK /\ PingsLeft)'
  BY TypeNext
<1> QED
  BY <1>1, <1>2, PTL DEF Spec

-----------------------------------------------------------------------------
(* The requests, and the bodies of their responses. *)

\* As long as a Get goes on, its requests are those that are counted as retries,
\* and the first; WithRetry waits again only with retries left.
RequestsAreRetries ==
  \A p \in Callers :
    /\ sent[p] <= setup.retries + 1
    /\ phase[p] = "timer" =>
         /\ sent[p] = counter[p] /\ counter[p] <= setup.retries
         /\ sent[p] > 0 => last[p] = "retryable"
    /\ phase[p] \in {"request", "late"} =>
         sent[p] = counter[p] + 1 /\ counter[p] <= setup.retries
    /\ phase[p] = "refused" /\ last[p] = "retryable" =>
         ended[p] \/ sent[p] = setup.retries + 1

OpenBodyIsAnswered == \A p \in Callers : body[p] = "open" => phase[p] = "answered"

OverIsIdle == \A p \in Callers \ setup.getters : Over(p) => phase[p] = "idle"

WebInv == RequestsAreRetries /\ OpenBodyIsAnswered

\* The operations of the web client keep both.
LEMMA WebInvMove ==
  ASSUME TypeOK, WebInv, NEW p \in Callers, WebMove(p), setup' = setup
  PROVE  WebInv'
<1> USE DEF WebInv, RequestsAreRetries, OpenBodyIsAnswered
<1>1. setup.retries \in Nat /\ WebTypeOK
  BY SetupFacts DEF TypeOK
<1>2. CASE Get(p)
  BY <1>1, <1>2 DEF Get, InPhase, WebTypeOK
<1>3. CASE TimerFires(p, setup.retries)
  BY <1>1, <1>3 DEF TimerFires, InPhase, WebTypeOK
<1>4. ASSUME NEW answer \in Answers, Answered(p, answer, setup.retries) PROVE WebInv'
  <2>1. /\ counter[p] \in Nat /\ sent[p] = counter[p] + 1 /\ counter[p] <= setup.retries
        /\ sent' = sent /\ ended' = ended
        /\ last' = [last EXCEPT ![p] = answer]
        /\ body' = [body EXCEPT ![p] = BodyAfter(answer)]
    BY <1>1, <1>4 DEF Answered, WebTypeOK
  <2>2. CASE answer = "expected"
    <3>1. phase' = [phase EXCEPT ![p] = "answered"] /\ counter' = counter
      BY <1>4, <2>2 DEF Answered, InPhase
    <3> QED
      BY <1>1, <2>1, <2>2, <3>1 DEF WebTypeOK
  <2>3. CASE answer = "retryable" /\ counter[p] # setup.retries
    <3>1. /\ phase' = [phase EXCEPT ![p] = "timer"]
          /\ counter' = [counter EXCEPT ![p] = counter[p] + 1]
          /\ BodyAfter(answer) = "closed"
      BY <1>4, <2>3 DEF Answered, InPhase, RetryLeft, WaitAgain, BodyAfter
    <3> QED
      BY <1>1, <2>1, <2>3, <3>1 DEF WebTypeOK
  <2>4. CASE answer # "expected" /\ ~ (answer = "retryable" /\ counter[p] # setup.retries)
    <3>1. /\ phase' = [phase EXCEPT ![p] = "refused"] /\ counter' = counter
          /\ BodyAfter(answer) # "open"
      BY <1>4, <2>4 DEF Answered, InPhase, RetryLeft, BodyAfter
    <3> QED
      BY <1>1, <2>1, <2>4, <3>1 DEF WebTypeOK
  <2> QED
    BY <2>2, <2>3, <2>4
<1>5. CASE StopsWaiting(p) \/ EndContext(p)
  BY <1>1, <1>5 DEF StopsWaiting, EndContext, InPhase, WebTypeOK
<1>6. CASE Release(p) \/ Forget(p)
  BY <1>1, <1>6 DEF Release, Forget, CloseBody, InPhase, WebTypeOK
<1> QED
  BY <1>2, <1>3, <1>4, <1>5, <1>6 DEF WebMove

\* A load is over only after it has released what came of its request.
LEMMA OverStep ==
  ASSUME TypeOK, OverIsIdle, NEW p \in Callers, Step(p)
  PROVE  OverIsIdle'
<1>1. pc \in [Callers -> Labels] /\ WebTypeOK
  BY DEF TypeOK
<1>2. \A q \in Callers \ {p} : pc'[q] = pc[q] /\ phase'[q] = phase[q]
  <2>1. \A q \in Callers \ {p} : pc'[q] = pc[q]
    BY <1>1, ControlMoves DEF ControlMove
  <2>2. WebMove(p) => \A q \in Callers \ {p} : phase'[q] = phase[q]
    BY <1>1 DEF WebMove, Get, TimerFires, StopsWaiting, Answered, EndContext, Release, Forget,
       InPhase, WebTypeOK
  <2> QED
    BY <2>1, <2>2, WebMoves DEF webVars
<1>3. Over(p)' => phase'[p] = "idle" \/ p \in setup.getters
  <2> USE DEF Over, At, Goto, Fail, LeaveExtract, Cleanup, AfterRemove
  <2>1. CASE Return(p) \/ Stop(p)
    BY <1>1, <2>1 DEF Return, Stop, Release, Forget, InPhase, WebTypeOK
  <2>2. CASE p \in setup.getters
    BY <2>2
  <2>3. CASE ~ Return(p) /\ ~ Stop(p) /\ LoaderStep(p)
    <3>1. ~ Over(p)'
      <4>1. CASE Ping(p) \/ PingFails(p) \/ ChooseSource(p) \/ SendRequest(p) \/ GetAnswer(p)
        BY <1>1, <4>1 DEF Ping, PingFails, ChooseSource, SendRequest, WebStep, GetAnswer, loadVars
      <4>2. CASE RequestFailed(p) \/ NameDownload(p) \/ CreateDownload(p) \/ CopyDownload(p)
        BY <1>1, <4>2 DEF RequestFailed, NameDownload, CreateDownload, CopyDownload, WritePart
      <4>3. CASE OpenArchive(p) \/ NextEntry(p) \/ Inflate(p) \/ CountFiles(p)
        BY <1>1, <4>3 DEF OpenArchive, NextEntry, Inflate, CountFiles, WritePart
      <4>4. CASE RemoveArchive(p) \/ RemoveFails(p) \/ ReadPart(p) \/ ImportEnds(p)
        BY <1>1, <4>4 DEF RemoveArchive, RemoveFails, ReadPart, ImportEnds
      <4>5. CASE StorageFails(p) \/ Restart(p)
        BY <1>1, <4>5 DEF StorageFails, Restart
      <4> QED
        BY <2>3, <4>1, <4>2, <4>3, <4>4, <4>5 DEF LoaderStep, Load
    <3> QED
      BY <3>1
  <2> QED
    BY <2>1, <2>2, <2>3 DEF Step
<1>4. setup' = setup
  BY ControlMoves DEF ControlMove
<1> QED
  BY <1>2, <1>3, <1>4 DEF OverIsIdle, Over

\* What a Get begins with: nothing sent, no body, no load that is over.
LEMMA WebInvInit ==
  ASSUME Init
  PROVE  WebInv /\ OverIsIdle
<1>1. setup \in Setups /\ setup.retries \in Nat
  BY SetupFacts DEF Init
<1>2. /\ phase = [p \in Callers |-> "idle"] /\ sent = [p \in Callers |-> 0]
      /\ body = [p \in Callers |-> "none"]
  BY DEF Init, WebInit
<1>3. RequestsAreRetries
  <2>1. ASSUME NEW p \in Callers PROVE phase[p] = "idle" /\ sent[p] <= setup.retries + 1
    BY <1>1, <1>2
  <2> QED
    BY <2>1 DEF RequestsAreRetries
<1> QED
  BY <1>2, <1>3 DEF WebInv, OpenBodyIsAnswered, OverIsIdle

RequestInv == TypeOK /\ PingsLeft /\ WebInv /\ OverIsIdle

\* Every step keeps them.
LEMMA RequestInvNext ==
  ASSUME RequestInv, [Next]_vars
  PROVE  RequestInv'
<1>1. TypeOK' /\ PingsLeft'
  BY TypeNext DEF RequestInv
<1>2. ASSUME NEW p \in Callers, Step(p) PROVE WebInv' /\ OverIsIdle'
  <2>1. setup' = setup
    BY <1>2, ControlMoves DEF ControlMove
  <2>2. CASE WebMove(p)
    BY <1>2, <2>1, <2>2, WebInvMove, OverStep DEF RequestInv
  <2>3. CASE UNCHANGED webVars
    <3>1. WebInv'
      BY <2>1, <2>3 DEF RequestInv, WebInv, RequestsAreRetries, OpenBodyIsAnswered, webVars
    <3> QED
      BY <1>2, <3>1, OverStep DEF RequestInv
  <2> QED
    BY <1>2, <2>2, <2>3, WebMoves
<1>3. CASE Publish \/ UNCHANGED vars
  <2>1. UNCHANGED <<webVars, setup, pc>>
    BY <1>3 DEF Publish, vars, loadVars
  <2> QED
    BY <1>1, <2>1 DEF RequestInv, WebInv, RequestsAreRetries, OpenBodyIsAnswered, webVars,
       OverIsIdle, Over
<1> QED
  BY <1>1, <1>2, <1>3, StepsOfNext DEF RequestInv

\* What is said of requests and their bodies holds in every state.
LEMMA RequestInvariant == Spec => []RequestInv
<1>1. Init => RequestInv
  BY TypeInit, WebInvInit DEF RequestInv
<1> QED
  BY <1>1, RequestInvNext, PTL DEF Spec

\* For any number of retries a Get makes at most one request more, waits to make
\* one again only after an answer that may be retried, and gives up after such
\* an answer only if all retries are used or its context has ended.
THEOREM RequestsEnd == Spec => []RequestsAreBounded
<1>1. RequestInv => RequestsAreBounded
  BY DEF RequestInv, WebInv, RequestsAreRetries, RequestsAreBounded
<1> QED
  BY <1>1, RequestInvariant, PTL

\* No response is left open by a request that waits to be made again or was given
\* up, nor by a load that is over, also if it was killed or its import failed.
THEOREM BodiesEnd == Spec => []BodiesAreClosed
<1>1. RequestInv => BodiesAreClosed
  <2>1. TypeOK => setup.loaders \cap setup.getters = {}
    BY SetupFacts DEF TypeOK
  <2> QED
    BY <2>1 DEF RequestInv, WebInv, OpenBodyIsAnswered, OverIsIdle, BodiesAreClosed
<1> QED
  BY <1>1, RequestInvariant, PTL

-----------------------------------------------------------------------------
(* The files. *)

\* What a process has to have done where it is.
Places(p) ==
  /\ pc[p] \in {"get", "create", "copy", "open", "unzip", "inflate", "remove"} =>
       setup.source = "url"
  /\ pc[p] \in {"open", "unzip", "inflate", "remove"} => setup.mime = "zip"
  /\ pc[p] \notin {"remove", "return", "done", "failed", "stopped"} => why[p] = ""
  /\ At(p, "done") => why[p] = ""
  /\ setup.source # "url" => fetched[p] = 0
  /\ At(p, "get") /\ phase[p] = "answered" => fetched[p] # 0
  /\ pc[p] \in {"create", "copy", "open", "unzip", "inflate", "remove"} => fetched[p] # 0
  /\ setup.source = "url" /\ pc[p] \in {"import", "return", "done"} /\ why[p] = "" =>
       fetched[p] # 0
  /\ pc[p] \notin {"import", "return", "done", "failed", "stopped"} => seen[p] = << >>
  /\ At(p, "inflate") => entry[p] > 0
  /\ At(p, "remove") /\ why[p] = "" => Len(setup.entries) = 1

\* What is imported: the version that was downloaded, or the local file.
VersionOf(p) == IF setup.source = "url" THEN fetched[p] ELSE 1

\* The file in hand has the parts that were written to it so far, ...
Partial(p, name) ==
  /\ name \in DOMAIN file /\ p \in file[name].by
  /\ done[p] < PartsOf[fetched[p]]
  /\ file[name].by \subseteq {p} =>
       file[name].parts = [i \in 1..done[p] |-> fetched[p]]

\* ... and at the end the whole document, if no other process has opened it.
Whole(p, name) ==
  /\ name \in DOMAIN file
  /\ file[name].by \subseteq {p} => file[name].parts = Document(VersionOf(p))

\* What was read is the beginning of the document.
ReadSoFar(p) ==
  /\ Len(seen[p]) <= PartsOf[VersionOf(p)]
  /\ \A i \in 1..Len(seen[p]) : seen[p][i] = VersionOf(p)

FilePlaces(p) ==
  /\ At(p, "copy") /\ setup.mime # "zip" => Partial(p, Download(stamp[p]))
  /\ At(p, "inflate") => Partial(p, Entry(entry[p]))
  /\ At(p, "unzip") /\ entry[p] > 0 => Whole(p, Entry(entry[p]))
  /\ At(p, "remove") /\ why[p] = "" => Whole(p, Entry(1))
  /\ At(p, "import") =>
       /\ Whole(p, ImportFile(p))
       /\ file[ImportFile(p)].by \subseteq {p} => ReadSoFar(p)
  /\ pc[p] \in {"return", "done"} /\ why[p] = "" =>
       /\ ImportFile(p) \in DOMAIN file
       /\ file[ImportFile(p)].by \subseteq {p} => seen[p] = Document(VersionOf(p))

\* After the removal of an archive it is not there, unless that failed, or another
\* process has made one of the same name.
ArchivePlace(p) ==
  (/\ setup.source = "url" /\ setup.mime = "zip"
   /\ pc[p] \in {"import", "return", "done", "failed"}
   /\ why[p] \in {"", "zip", "entry", "count", "parse", "import"}
   /\ ~ kept[p])
    => Archive(p) \notin DOMAIN file \/ p \notin file[Archive(p)].by

\* The local file is never written.
LocalIsKept ==
  setup.source # "url" => Local \in DOMAIN file /\ file[Local].parts = Document(1)

LoadInv ==
  /\ LocalIsKept
  /\ \A p \in setup.loaders : Places(p) /\ FilePlaces(p) /\ ArchivePlace(p)

\* Its counters are numbers.
LEMMA NumberFacts ==
  ASSUME TypeOK, NEW p \in Callers
  PROVE  /\ published \in Nat \ {0} /\ entry[p] \in Nat /\ done[p] \in Nat /\ stamp[p] \in Nat
         /\ fetched[p] \in Nat /\ (fetched[p] # 0 => fetched[p] \in Versions)
<1>1. /\ Versions = 1..Len(PartsOf) /\ Len(PartsOf) \in Nat /\ Len(setup.entries) \in Nat
  BY SetupFacts DEF TypeOK
<1>2. /\ published \in Versions /\ entry[p] \in 0..Len(setup.entries) /\ clock \in Nat
      /\ done[p] \in Nat /\ stamp[p] \in 0..clock /\ fetched[p] \in Parts
  BY DEF TypeOK
<1> QED
  BY <1>1, <1>2 DEF Parts

\* A process that loads takes the steps of a loader only.
LEMMA LoaderSteps ==
  ASSUME TypeOK, NEW p \in setup.loaders, Step(p)
  PROVE  p \in Callers /\ LoaderStep(p)
BY SetupFacts DEF TypeOK, Step

\* Every step of a process leads to a place where it has done what it has to.
LEMMA PlacesStep ==
  ASSUME TypeOK, NEW p \in setup.loaders, Places(p), Step(p)
  PROVE  Places(p)'
<1>1. /\ p \in Callers /\ LoaderStep(p) /\ setup' = setup
      /\ pc \in [Callers -> Labels] /\ why \in [Callers -> Reasons]
      /\ fetched \in [Callers -> Parts] /\ entry \in [Callers -> 0..Len(setup.entries)]
      /\ seen \in [Callers -> Seq(Parts)]
      /\ phase \in [Callers -> {"idle", "timer", "request", "late", "answered", "refused"}]
  BY LoaderSteps, ControlMoves DEF TypeOK, WebTypeOK, ControlMove
<1>2. published # 0 /\ entry[p] \in Nat /\ entry[p] + 1 > 0
  <2>1. published \in Nat \ {0} /\ entry[p] \in Nat
    BY <1>1, NumberFacts
  <2> QED
    BY <2>1
<1> USE DEF Places, At, Goto, Fail, LeaveExtract, Cleanup, AfterRemove, loadVars, webVars
<1>3. CASE Ping(p)
  BY <1>1, <1>2, <1>3 DEF Ping
<1>4. CASE PingFails(p)
  BY <1>1, <1>2, <1>4 DEF PingFails
<1>5. CASE ChooseSource(p)
  BY <1>1, <1>2, <1>5 DEF ChooseSource, Get, InPhase
<1>6. CASE SendRequest(p)
  BY <1>1, <1>2, <1>6 DEF SendRequest, WebStep, TimerFires, InPhase
<1>7. CASE GetAnswer(p)
  <2>1. PICK answer \in Answers :
          /\ Answered(p, answer, setup.retries)
          /\ fetched' = [fetched EXCEPT ![p] = IF answer = "expected" THEN published ELSE 0]
    BY <1>7 DEF GetAnswer
  <2>2. answer # "expected" => phase'[p] # "answered"
    BY <1>1, <2>1 DEF Answered, InPhase, WaitAgain
  <2>3. /\ pc[p] = "get" /\ pc' = pc /\ why' = why /\ entry' = entry /\ seen' = seen
        /\ fetched'[p] = IF answer = "expected" THEN published ELSE 0
    BY <1>1, <1>7, <2>1 DEF GetAnswer
  <2> QED
    BY <1>1, <1>2, <2>2, <2>3
<1>8. CASE RequestFailed(p)
  BY <1>1, <1>2, <1>8 DEF RequestFailed
<1>9. CASE NameDownload(p)
  BY <1>1, <1>2, <1>9 DEF NameDownload
<1>10. CASE CreateDownload(p)
  BY <1>1, <1>2, <1>10 DEF CreateDownload
<1>11. CASE CopyDownload(p)
  BY <1>1, <1>2, <1>11 DEF CopyDownload, WritePart
<1>12. CASE OpenArchive(p)
  BY <1>1, <1>2, <1>12 DEF OpenArchive
<1>13. CASE NextEntry(p)
  <2>1. /\ pc[p] = "unzip" /\ fetched' = fetched /\ seen' = seen /\ phase' = phase
        /\ \/ pc'[p] = "remove" /\ why'[p] = "entry" /\ entry' = entry
           \/ pc'[p] = "inflate" /\ why' = why /\ entry'[p] = entry[p] + 1
    BY <1>1, <1>13 DEF NextEntry
  <2> QED
    BY <1>1, <1>2, <2>1
<1>14. CASE Inflate(p)
  BY <1>1, <1>2, <1>14 DEF Inflate, WritePart
<1>15. CASE CountFiles(p)
  BY <1>1, <1>2, <1>15 DEF CountFiles
<1>16. CASE RemoveArchive(p)
  BY <1>1, <1>2, <1>16 DEF RemoveArchive
<1>17. CASE RemoveFails(p)
  BY <1>1, <1>2, <1>17 DEF RemoveFails
<1>18. CASE ReadPart(p)
  BY <1>1, <1>2, <1>18 DEF ReadPart
<1>19. CASE ImportEnds(p)
  BY <1>1, <1>2, <1>19 DEF ImportEnds
<1>20. CASE Return(p)
  BY <1>1, <1>2, <1>20 DEF Return
<1>21. CASE StorageFails(p)
  BY <1>1, <1>2, <1>21 DEF StorageFails
<1>22. CASE Stop(p)
  BY <1>1, <1>2, <1>22 DEF Stop
<1>23. CASE Restart(p)
  BY <1>1, <1>2, <1>23 DEF Restart
<1> QED
  BY <1>1, <1>3, <1>4, <1>5, <1>6, <1>7, <1>8, <1>9, <1>10, <1>11, <1>12, <1>13,
     <1>14, <1>15, <1>16, <1>17, <1>18, <1>19, <1>20, <1>21, <1>22, <1>23
  DEF LoaderStep, Load

\* A step of another process leaves what a process knows of itself.
LEMMA OthersStay ==
  ASSUME TypeOK, NEW p \in Callers, NEW q \in Callers, p # q, Step(q)
  PROVE  /\ pc'[p] = pc[p] /\ why'[p] = why[p] /\ stamp'[p] = stamp[p]
         /\ fetched'[p] = fetched[p] /\ entry'[p] = entry[p] /\ done'[p] = done[p]
         /\ seen'[p] = seen[p] /\ kept'[p] = kept[p] /\ phase'[p] = phase[p]
         /\ setup' = setup
<1>1. ControlMove(q)
  BY ControlMoves
<1>2. /\ pc'[p] = pc[p] /\ why'[p] = why[p] /\ fetched'[p] = fetched[p] /\ done'[p] = done[p]
      /\ kept'[p] = kept[p] /\ setup' = setup
  BY <1>1 DEF ControlMove, TypeOK
<1>3. stamp'[p] = stamp[p]
  BY <1>1 DEF ControlMove, TypeOK, NameDownload
<1>4. entry'[p] = entry[p]
  BY <1>1 DEF ControlMove, TypeOK, OpenArchive, NextEntry
<1>5. seen'[p] = seen[p]
  BY <1>1 DEF ControlMove, TypeOK, ReadPart, Restart
<1>6. WebMove(q) => phase'[p] = phase[p]
  <2>1. WebTypeOK
    BY DEF TypeOK
  <2>2. ASSUME NEW answer \in Answers, Answered(q, answer, setup.retries)
        PROVE  phase'[p] = phase[p]
    BY <2>1, <2>2 DEF Answered, InPhase, WebTypeOK
  <2>3. CASE Get(q) \/ TimerFires(q, setup.retries)
    BY <2>1, <2>3 DEF Get, TimerFires, InPhase, WebTypeOK
  <2>4. CASE StopsWaiting(q) \/ EndContext(q) \/ Release(q) \/ Forget(q)
    BY <2>1, <2>4 DEF StopsWaiting, EndContext, Release, Forget, InPhase, WebTypeOK
  <2> QED
    BY <2>2, <2>3, <2>4 DEF WebMove
<1> QED
  BY <1>2, <1>3, <1>4, <1>5, <1>6, WebMoves DEF webVars

\* A file that no process removes stays, and its parts change only by a process
\* that has opened it.
Lasting(name) == setup.mime = "zip" => name[1] # "download"

\* No step of a process takes away a lasting file, nor a writer of its parts.
LEMMA OtherFiles ==
  ASSUME TypeOK, NEW p \in Callers, NEW q \in Callers, Step(q),
         q \in setup.loaders => Places(q) /\ FilePlaces(q),
         NEW name \in DOMAIN file, Lasting(name)
  PROVE  /\ name \in DOMAIN file'
         /\ file'[name] = file[name] \/ q \in file'[name].by
         /\ p \in file[name].by => p \in file'[name].by
<1>1. FileType /\ done[q] + 1 \in Nat \ {0} /\ fetched[q] \in Parts
  <2>1. FileType /\ fetched[q] \in Parts
    BY DEF TypeOK, FileType, FileRecord
  <2>2. done[q] \in Nat
    BY NumberFacts
  <2> QED
    BY <2>1, <2>2
<1>2. WritersOf(name) = file[name].by
  BY DEF WritersOf
<1>3. CASE file' = file
  BY <1>3
<1>4. ASSUME NEW n, file' = Truncate(q, n)
      PROVE  /\ name \in DOMAIN file'
             /\ file'[name] = file[name] \/ q \in file'[name].by
             /\ p \in file[name].by => p \in file'[name].by
  <2>1. /\ DOMAIN file' = DOMAIN file \cup {n}
        /\ file'[n] = [parts |-> << >>, by |-> WritersOf(n) \cup {q}]
        /\ \A other \in DOMAIN file \ {n} : file'[other] = file[other]
    BY <1>1, <1>4, TruncateFacts
  <2>2. CASE n = name
    BY <1>2, <2>1, <2>2
  <2>3. CASE n # name
    BY <2>1, <2>3
  <2> QED
    BY <2>2, <2>3
<1>5. ASSUME NEW n, file' = Write(n, done[q] + 1, fetched[q]), n = name => q \in file[name].by
      PROVE  /\ name \in DOMAIN file'
             /\ file'[name] = file[name] \/ q \in file'[name].by
             /\ p \in file[name].by => p \in file'[name].by
  <2>1. /\ DOMAIN file' = DOMAIN file
        /\ n \in DOMAIN file => file'[n].by = file[n].by
        /\ \A other \in DOMAIN file \ {n} : file'[other] = file[other]
    BY <1>1, <1>5, WriteFacts
  <2>2. CASE n = name
    BY <1>5, <2>1, <2>2
  <2>3. CASE n # name
    BY <2>1, <2>3
  <2> QED
    BY <2>2, <2>3
<1>6. CASE q \in setup.loaders /\ FileMove(q)
  <2>1. Places(q) /\ FilePlaces(q)
    BY <1>6
  <2>2. CASE At(q, "create") /\ file' = Truncate(q, Download(stamp[q]))
    BY <1>4, <2>2
  <2>3. CASE At(q, "unzip") /\ file' = Truncate(q, Entry(entry[q] + 1))
    BY <1>4, <2>3
  <2>4. CASE At(q, "copy") /\ file' = Write(Download(stamp[q]), done[q] + 1, fetched[q])
    <3>1. Download(stamp[q]) = name => setup.mime # "zip"
      BY DEF Lasting, Download
    <3>2. Download(stamp[q]) = name => q \in file[name].by
      BY <2>1, <2>4, <3>1 DEF FilePlaces, Partial
    <3> QED
      BY <1>5, <2>4, <3>2
  <2>5. CASE At(q, "inflate") /\ file' = Write(Entry(entry[q]), done[q] + 1, fetched[q])
    <3>1. Entry(entry[q]) = name => q \in file[name].by
      BY <2>1, <2>5 DEF FilePlaces, Partial
    <3> QED
      BY <1>5, <2>5, <3>1
  <2>6. CASE At(q, "remove") /\ file' = Restrict(file, DOMAIN file \ {Archive(q)})
    <3>1. Archive(q) # name
      <4>1. name[1] # "download"
        BY <2>1, <2>6 DEF Places, At, Lasting
      <4>2. Archive(q)[1] = "download"
        BY DEF Archive, Download
      <4> QED
        BY <4>1, <4>2
    <3>2. /\ DOMAIN file' = DOMAIN file \ {Archive(q)}
          /\ \A n \in DOMAIN file \ {Archive(q)} : file'[n] = file[n]
      BY <1>1, <2>6, RemoveFacts
    <3> QED
      BY <3>1, <3>2
  <2> QED
    BY <1>6, <2>2, <2>3, <2>4, <2>5, <2>6 DEF FileMove
<1> QED
  BY <1>3, <1>6, FileMoves

\* So what a process has in hand stays what it is, or is no longer its own alone.
LEMMA FilePlacesOther ==
  ASSUME TypeOK, NEW p \in setup.loaders, Places(p), FilePlaces(p),
         NEW q \in Callers, p # q, Step(q),
         q \in setup.loaders => Places(q) /\ FilePlaces(q)
  PROVE  FilePlaces(p)'
<1>1. p \in Callers
  BY SetupFacts DEF TypeOK
<1>2. /\ pc'[p] = pc[p] /\ why'[p] = why[p] /\ stamp'[p] = stamp[p]
      /\ fetched'[p] = fetched[p] /\ entry'[p] = entry[p] /\ done'[p] = done[p]
      /\ seen'[p] = seen[p] /\ setup' = setup
  BY <1>1, OthersStay
<1>3. \A name \in DOMAIN file : Lasting(name) =>
        /\ name \in DOMAIN file'
        /\ file'[name].by \subseteq {p} => file'[name] = file[name]
        /\ p \in file[name].by => p \in file'[name].by
  BY <1>1, OtherFiles
<1>4. /\ setup.mime # "zip" => Lasting(Download(stamp[p]))
      /\ Lasting(Entry(entry[p])) /\ Lasting(Entry(1))
  BY DEF Lasting, Download, Entry
<1>5. Lasting(ImportFile(p)) /\ ImportFile(p)' = ImportFile(p)
  BY <1>2 DEF Lasting, ImportFile, Download, Entry, Local
<1>6. VersionOf(p)' = VersionOf(p) /\ (ReadSoFar(p) => ReadSoFar(p)')
  BY <1>2 DEF VersionOf, ReadSoFar
<1>7. ASSUME NEW name \in DOMAIN file, Lasting(name), Partial(p, name)
      PROVE  /\ name \in DOMAIN file' /\ p \in file'[name].by
             /\ done'[p] < PartsOf[fetched'[p]]
             /\ file'[name].by \subseteq {p} =>
                  file'[name].parts = [i \in 1..done'[p] |-> fetched'[p]]
  BY <1>2, <1>3, <1>7 DEF Partial
<1>8. ASSUME NEW name \in DOMAIN file, Lasting(name), Whole(p, name)
      PROVE  /\ name \in DOMAIN file'
             /\ file'[name].by \subseteq {p} => file'[name].parts = Document(VersionOf(p))
  BY <1>3, <1>8 DEF Whole
<1>9. At(p, "copy")' /\ setup'.mime # "zip" => Partial(p, Download(stamp[p]))'
  BY <1>2, <1>4, <1>7 DEF FilePlaces, At, Partial
<1>10. At(p, "inflate")' => Partial(p, Entry(entry[p]))'
  BY <1>2, <1>4, <1>7 DEF FilePlaces, At, Partial
<1>11. At(p, "unzip")' /\ entry'[p] > 0 => Whole(p, Entry(entry[p]))'
  BY <1>2, <1>4, <1>6, <1>8 DEF FilePlaces, At, Whole, Document
<1>12. At(p, "remove")' /\ why'[p] = "" => Whole(p, Entry(1))'
  BY <1>2, <1>4, <1>6, <1>8 DEF FilePlaces, At, Whole, Document
<1>13. At(p, "import")' =>
         /\ Whole(p, ImportFile(p))'
         /\ file'[ImportFile(p)'].by \subseteq {p} => ReadSoFar(p)'
  <2> SUFFICES ASSUME At(p, "import")'
               PROVE  /\ Whole(p, ImportFile(p))'
                      /\ file'[ImportFile(p)'].by \subseteq {p} => ReadSoFar(p)'
    OBVIOUS
  <2> DEFINE name == ImportFile(p)
  <2>1. Whole(p, name) /\ (file[name].by \subseteq {p} => ReadSoFar(p))
    BY <1>2 DEF FilePlaces, At
  <2>2. name \in DOMAIN file
    BY <2>1 DEF Whole
  <2> HIDE DEF name
  <2>3. /\ name \in DOMAIN file'
        /\ file'[name].by \subseteq {p} => file'[name].parts = Document(VersionOf(p))
        /\ file'[name].by \subseteq {p} => file'[name] = file[name]
    BY <1>3, <1>5, <1>8, <2>1, <2>2 DEF name
  <2>4. Whole(p, name)'
    BY <1>5, <1>6, <2>3 DEF Whole, Document, name
  <2>5. file'[name].by \subseteq {p} => ReadSoFar(p)'
    BY <1>6, <2>1, <2>3
  <2> QED
    BY <1>5, <2>4, <2>5 DEF name
<1>14. pc'[p] \in {"return", "done"} /\ why'[p] = "" =>
         /\ ImportFile(p)' \in DOMAIN file'
         /\ file'[ImportFile(p)'].by \subseteq {p} => seen'[p] = Document(VersionOf(p)')
  BY <1>2, <1>3, <1>5, <1>6 DEF FilePlaces
<1> QED
  BY <1>9, <1>10, <1>11, <1>12, <1>13, <1>14 DEF FilePlaces, Document

\* Where a process is after a step that says nothing about its files.
Quiet(p) ==
  /\ At(p, "copy") => setup.mime = "zip"
  /\ ~ At(p, "inflate") /\ ~ At(p, "import")
  /\ At(p, "unzip") => entry[p] = 0
  /\ pc[p] \in {"remove", "return", "done"} => why[p] # ""

\* A process that reads and writes no file is where no file is needed.
LEMMA QuietPlaces ==
  ASSUME NEW p, Quiet(p)'
  PROVE  FilePlaces(p)'
<1>1. ~ (At(p, "copy") /\ setup.mime # "zip")' /\ ~ At(p, "inflate")' /\ ~ At(p, "import")'
  BY DEF Quiet
<1>2. ~ (At(p, "unzip") /\ entry[p] > 0)'
  <2>1. At(p, "unzip")' => entry'[p] = 0
    BY DEF Quiet
  <2>2. ~ (0 > 0)
    OBVIOUS
  <2> QED
    BY <2>1, <2>2
<1>3. ~ (At(p, "remove") /\ why[p] = "")' /\ ~ (pc[p] \in {"return", "done"} /\ why[p] = "")'
  BY DEF Quiet, At
<1> QED
  BY <1>1, <1>2, <1>3, Zenon DEF FilePlaces

\* One part more of the file in hand.
LEMMA WrittenPart ==
  ASSUME TypeOK, NEW p \in Callers, NEW name, Partial(p, name), fetched[p] \in Versions,
         file' = Write(name, done[p] + 1, fetched[p])
  PROVE  /\ name \in DOMAIN file' /\ p \in file'[name].by
         /\ done[p] + 1 \in 1..PartsOf[fetched[p]]
         /\ file'[name].by \subseteq {p} =>
              file'[name].parts = [i \in 1..(done[p] + 1) |-> fetched[p]]
<1> DEFINE d == done[p]
           v == fetched[p]
<1>1. FileType /\ d \in Nat /\ v \in Parts /\ PartsOf[v] \in Nat
  <2>1. FileType
    BY DEF TypeOK, FileType, FileRecord
  <2>2. d \in Nat /\ v \in Parts /\ PartsOf[v] \in Nat
    BY NumberFacts, SetupFacts DEF Parts, TypeOK
  <2> QED
    BY <2>1, <2>2
<1>2. d + 1 \in Nat \ {0} /\ d + 1 \in 1..PartsOf[v]
  BY <1>1 DEF Partial
<1>3. /\ name \in DOMAIN file /\ name \in DOMAIN file'
      /\ file'[name].by = file[name].by
      /\ file'[name].parts = Overwrite(file[name].parts, d + 1, v)
  <2>1. name \in DOMAIN file
    BY DEF Partial
  <2> QED
    BY <1>1, <1>2, <2>1, WriteFacts
<1>4. Overwrite([i \in 1..d |-> v], d + 1, v) = [i \in 1..(d + 1) |-> v]
  <2>1. Len([i \in 1..d |-> v]) = d
    BY <1>1
  <2>2. (IF d + 1 > d THEN d + 1 ELSE d) = d + 1
    BY <1>1
  <2>3. \A k \in 1..(d + 1) :
          (IF k = d + 1 THEN v ELSE IF k <= d THEN [i \in 1..d |-> v][k] ELSE 0) = v
    BY <1>1
  <2> HIDE DEF d, v
  <2> QED
    BY <2>1, <2>2, <2>3 DEF Overwrite
<1> QED
  BY <1>2, <1>3, <1>4 DEF Partial

\* With the last part the document is whole.
LEMMA LastPart ==
  ASSUME NEW p, fetched[p] \in Versions, setup.source = "url"
  PROVE  [i \in 1..PartsOf[fetched[p]] |-> fetched[p]] = Document(VersionOf(p))
BY DEF Document, VersionOf

\* Every step of a process keeps what it has to know of its own files.
LEMMA FilePlacesStep ==
  ASSUME TypeOK, LocalIsKept, NEW p \in setup.loaders, Places(p), FilePlaces(p), Step(p)
  PROVE  FilePlaces(p)'
<1>1. p \in Callers /\ LoaderStep(p)
  BY LoaderSteps
<1>2. /\ setup' = setup
      /\ pc \in [Callers -> Labels] /\ why \in [Callers -> Reasons]
      /\ fetched \in [Callers -> Parts] /\ entry \in [Callers -> 0..Len(setup.entries)]
      /\ done \in [Callers -> Nat] /\ seen \in [Callers -> Seq(Parts)]
  <2>1. setup' = setup
    BY <1>1, ControlMoves DEF ControlMove
  <2> QED
    BY <2>1 DEF TypeOK
<1>3. FileType
  BY DEF TypeOK, FileType, FileRecord
<1>4. /\ entry[p] \in Nat /\ done[p] \in Nat /\ stamp[p] \in Nat
      /\ fetched[p] # 0 => fetched[p] \in Versions
      /\ fetched[p] \in Versions => PartsOf[fetched[p]] \in Nat \ {0}
  BY <1>1, NumberFacts, SetupFacts DEF TypeOK
<1>5. CASE \/ Ping(p) \/ PingFails(p) \/ SendRequest(p) \/ GetAnswer(p) \/ RequestFailed(p)
           \/ NameDownload(p) \/ OpenArchive(p) \/ StorageFails(p) \/ Stop(p) \/ Restart(p)
  <2>1. Quiet(p)'
    BY <1>1, <1>2, <1>5 DEF Quiet, At, Ping, PingFails, SendRequest, WebStep, GetAnswer,
       RequestFailed, NameDownload, OpenArchive, StorageFails, Stop, Restart, Goto, Fail,
       LeaveExtract, Cleanup, loadVars
  <2> QED
    BY <2>1, QuietPlaces
<1>6. CASE ChooseSource(p)
  <2>1. CASE setup.source = "json"
    <3>1. /\ pc'[p] = "import" /\ file' = file /\ seen'[p] = << >> /\ stamp' = stamp
          /\ Local \in DOMAIN file /\ file[Local].parts = Document(1)
      BY <1>1, <1>2, <1>6, <2>1 DEF ChooseSource, At, Goto, Places, LocalIsKept
    <3>2. ImportFile(p)' = Local /\ VersionOf(p)' = 1
      BY <1>2, <2>1 DEF ImportFile, VersionOf
    <3>3. Whole(p, ImportFile(p))'
      BY <3>1, <3>2 DEF Whole, Document
    <3>4. ReadSoFar(p)'
      <4>1. PartsOf[1] \in Nat
        BY SetupFacts DEF TypeOK
      <4> QED
        BY <3>1, <3>2, <4>1 DEF ReadSoFar
    <3> QED
      BY <3>1, <3>3, <3>4 DEF FilePlaces, At
  <2>2. CASE setup.source # "json"
    <3>1. Quiet(p)'
      BY <1>1, <1>2, <1>6, <2>2 DEF Quiet, ChooseSource, At, Goto, Fail
    <3> QED
      BY <3>1, QuietPlaces
  <2> QED
    BY <2>1, <2>2
<1>7. CASE CreateDownload(p)
  <2>1. CASE pc'[p] = "copy" /\ setup.mime # "zip"
    <3> DEFINE name == Download(stamp[p])
    <3>1. /\ file' = Truncate(p, name) /\ done' = [done EXCEPT ![p] = 0]
          /\ stamp' = stamp /\ fetched' = fetched /\ fetched[p] # 0
      BY <1>1, <1>2, <1>7, <2>1 DEF CreateDownload, At, Goto, Fail, Places
    <3>2. /\ name \in DOMAIN file' /\ p \in file'[name].by
          /\ file'[name].parts = << >>
      <4> HIDE DEF name
      <4>1. /\ DOMAIN file' = DOMAIN file \cup {name}
            /\ file'[name] = [parts |-> << >>, by |-> WritersOf(name) \cup {p}]
        BY <1>1, <1>3, <3>1, TruncateFacts
      <4> QED
        BY <4>1
    <3>3. done'[p] = 0 /\ 0 < PartsOf[fetched[p]]
      BY <1>1, <1>2, <1>4, <3>1
    <3>4. << >> = [i \in 1..0 |-> fetched[p]]
      OBVIOUS
    <3>5. Partial(p, Download(stamp[p]))'
      BY <3>1, <3>2, <3>3, <3>4 DEF Partial
    <3> QED
      BY <2>1, <3>5 DEF FilePlaces, At
  <2>2. CASE ~ (pc'[p] = "copy" /\ setup.mime # "zip")
    <3>1. Quiet(p)'
      BY <1>1, <1>2, <1>7, <2>2 DEF Quiet, CreateDownload, At, Goto, Fail
    <3> QED
      BY <3>1, QuietPlaces
  <2> QED
    BY <2>1, <2>2
<1>8. CASE CopyDownload(p)
  <2>1. CASE setup.mime = "zip"
    <3>1. Quiet(p)'
      BY <1>1, <1>2, <1>8, <2>1 DEF Quiet, CopyDownload, WritePart, At, Goto
    <3> QED
      BY <3>1, QuietPlaces
  <2>2. CASE setup.mime # "zip"
    <3> DEFINE name == Download(stamp[p])
    <3>1. /\ Partial(p, name) /\ fetched[p] \in Versions /\ setup.source = "url"
          /\ seen[p] = << >>
      BY <1>4, <1>8, <2>2 DEF CopyDownload, FilePlaces, Places, At
    <3>2. /\ file' = Write(name, done[p] + 1, fetched[p])
          /\ done' = [done EXCEPT ![p] = done[p] + 1]
          /\ stamp' = stamp /\ fetched' = fetched /\ seen' = seen
      BY <1>8 DEF CopyDownload, WritePart
    <3>3. IF done[p] + 1 = PartsOf[fetched[p]] THEN pc'[p] = "import" ELSE pc'[p] = "copy"
      BY <1>1, <1>2, <1>8, <2>2 DEF CopyDownload, WritePart, Goto, At
    <3>4. /\ name \in DOMAIN file' /\ p \in file'[name].by
          /\ done[p] + 1 \in 1..PartsOf[fetched[p]]
          /\ file'[name].by \subseteq {p} =>
               file'[name].parts = [i \in 1..(done[p] + 1) |-> fetched[p]]
      BY <1>1, <3>1, <3>2, WrittenPart
    <3>5. CASE done[p] + 1 = PartsOf[fetched[p]]
      <4>1. ImportFile(p)' = name /\ VersionOf(p)' = VersionOf(p) /\ VersionOf(p) = fetched[p]
        BY <1>2, <2>2, <3>1, <3>2 DEF ImportFile, VersionOf
      <4>2. Whole(p, ImportFile(p))'
        BY <3>1, <3>4, <3>5, <4>1, LastPart DEF Whole, Document
      <4>3. ReadSoFar(p)'
        BY <1>4, <3>1, <3>2, <4>1 DEF ReadSoFar
      <4> QED
        BY <3>3, <3>5, <4>2, <4>3 DEF FilePlaces, At
    <3>6. CASE done[p] + 1 # PartsOf[fetched[p]]
      <4>1. done'[p] = done[p] + 1 /\ fetched'[p] = fetched[p]
        BY <1>1, <1>2, <3>2
      <4>2. done[p] + 1 < PartsOf[fetched[p]]
        BY <1>4, <3>1, <3>4, <3>6
      <4>3. Partial(p, Download(stamp[p]))'
        BY <3>2, <3>4, <4>1, <4>2 DEF Partial
      <4> QED
        BY <3>3, <3>6, <4>3 DEF FilePlaces, At
    <3> QED
      BY <3>5, <3>6
  <2> QED
    BY <2>1, <2>2
<1>9. CASE NextEntry(p)
  <2>1. CASE pc'[p] = "inflate"
    <3> DEFINE name == Entry(entry[p] + 1)
    <3>1. /\ file' = Truncate(p, name) /\ done' = [done EXCEPT ![p] = 0]
          /\ entry' = [entry EXCEPT ![p] = entry[p] + 1]
          /\ fetched' = fetched /\ fetched[p] # 0
      BY <1>1, <1>2, <1>9, <2>1 DEF NextEntry, At, Goto, LeaveExtract, Cleanup, Places
    <3>2. /\ name \in DOMAIN file' /\ p \in file'[name].by
          /\ file'[name].parts = << >>
      <4> HIDE DEF name
      <4>1. /\ DOMAIN file' = DOMAIN file \cup {name}
            /\ file'[name] = [parts |-> << >>, by |-> WritersOf(name) \cup {p}]
        BY <1>1, <1>3, <3>1, TruncateFacts
      <4> QED
        BY <4>1
    <3>3. done'[p] = 0 /\ 0 < PartsOf[fetched[p]] /\ entry'[p] = entry[p] + 1
      BY <1>1, <1>2, <1>4, <3>1
    <3>4. << >> = [i \in 1..0 |-> fetched[p]]
      OBVIOUS
    <3>5. Partial(p, Entry(entry[p]))'
      BY <3>1, <3>2, <3>3, <3>4 DEF Partial
    <3> QED
      BY <2>1, <3>5 DEF FilePlaces, At
  <2>2. CASE pc'[p] # "inflate"
    <3>1. Quiet(p)'
      BY <1>1, <1>2, <1>9, <2>2 DEF Quiet, NextEntry, At, Goto, LeaveExtract, Cleanup
    <3> QED
      BY <3>1, QuietPlaces
  <2> QED
    BY <2>1, <2>2
<1>10. CASE Inflate(p)
  <2>1. CASE ~ Readable(p)
    <3>1. Quiet(p)'
      BY <1>1, <1>2, <1>10, <2>1 DEF Quiet, Inflate, At, Goto, LeaveExtract, Cleanup
    <3> QED
      BY <3>1, QuietPlaces
  <2>2. CASE Readable(p)
    <3> DEFINE name == Entry(entry[p])
    <3>1. /\ Partial(p, name) /\ fetched[p] \in Versions /\ setup.source = "url"
      BY <1>4, <1>10 DEF Inflate, FilePlaces, Places, At
    <3>2. /\ file' = Write(name, done[p] + 1, fetched[p])
          /\ done' = [done EXCEPT ![p] = done[p] + 1]
          /\ entry' = entry /\ fetched' = fetched
      BY <1>10, <2>2 DEF Inflate, WritePart
    <3>3. IF done[p] + 1 = PartsOf[fetched[p]] THEN pc'[p] = "unzip" ELSE pc'[p] = "inflate"
      BY <1>1, <1>2, <1>10, <2>2 DEF Inflate, WritePart, Goto, At
    <3>4. /\ name \in DOMAIN file' /\ p \in file'[name].by
          /\ done[p] + 1 \in 1..PartsOf[fetched[p]]
          /\ file'[name].by \subseteq {p} =>
               file'[name].parts = [i \in 1..(done[p] + 1) |-> fetched[p]]
      BY <1>1, <3>1, <3>2, WrittenPart
    <3>5. CASE done[p] + 1 = PartsOf[fetched[p]]
      <4>1. Whole(p, Entry(entry[p]))'
        BY <1>2, <3>1, <3>2, <3>4, <3>5, LastPart DEF Whole, Document, VersionOf
      <4> QED
        BY <3>3, <3>5, <4>1 DEF FilePlaces, At
    <3>6. CASE done[p] + 1 # PartsOf[fetched[p]]
      <4>1. done'[p] = done[p] + 1 /\ fetched'[p] = fetched[p]
        BY <1>1, <1>2, <3>2
      <4>2. done[p] + 1 < PartsOf[fetched[p]]
        BY <1>4, <3>1, <3>4, <3>6
      <4>3. Partial(p, Entry(entry[p]))'
        BY <3>2, <3>4, <4>1, <4>2 DEF Partial
      <4> QED
        BY <3>3, <3>6, <4>3 DEF FilePlaces, At
    <3> QED
      BY <3>5, <3>6
  <2> QED
    BY <2>1, <2>2
<1>11. CASE CountFiles(p)
  <2>1. CASE Len(setup.entries) = 1
    <3>1. /\ pc'[p] = "remove" /\ file' = file /\ fetched' = fetched
          /\ At(p, "unzip") /\ entry[p] = 1
      BY <1>1, <1>2, <1>11, <2>1 DEF CountFiles, LeaveExtract, Cleanup, Goto
    <3>2. Whole(p, Entry(1))
      <4>1. entry[p] > 0
        BY <3>1
      <4> QED
        BY <3>1, <4>1, Zenon DEF FilePlaces
    <3>3. Whole(p, Entry(1))'
      BY <1>2, <3>1, <3>2 DEF Whole, Document, VersionOf
    <3> QED
      BY <3>1, <3>3 DEF FilePlaces, At
  <2>2. CASE Len(setup.entries) # 1
    <3>1. Quiet(p)'
      BY <1>1, <1>2, <1>11, <2>2 DEF Quiet, CountFiles, At, Goto, LeaveExtract, Cleanup
    <3> QED
      BY <3>1, QuietPlaces
  <2> QED
    BY <2>1, <2>2
<1>12. CASE RemoveArchive(p) \/ RemoveFails(p)
  <2>1. CASE why[p] = ""
    <3>1. /\ At(p, "remove") /\ pc'[p] = "import" /\ fetched' = fetched /\ seen' = seen
          /\ seen[p] = << >> /\ setup.source = "url" /\ setup.mime = "zip" /\ fetched[p] # 0
          /\ file' = file \/ file' = Restrict(file, DOMAIN file \ {Archive(p)})
      BY <1>1, <1>2, <1>12, <2>1
      DEF RemoveArchive, RemoveFails, AfterRemove, At, Goto, Places
    <3>2. Whole(p, Entry(1))
      BY <2>1, <3>1 DEF FilePlaces
    <3>3. Entry(1) # Archive(p)
      BY DEF Entry, Archive, Download
    <3>4. Entry(1) \in DOMAIN file' /\ file'[Entry(1)] = file[Entry(1)]
      <4>1. Entry(1) \in DOMAIN file
        BY <3>2 DEF Whole
      <4>2. CASE file' = Restrict(file, DOMAIN file \ {Archive(p)})
        <5>1. /\ DOMAIN file' = DOMAIN file \ {Archive(p)}
              /\ \A n \in DOMAIN file \ {Archive(p)} : file'[n] = file[n]
          BY <1>3, <4>2, RemoveFacts
        <5> QED
          BY <3>3, <4>1, <5>1
      <4> QED
        BY <3>1, <4>1, <4>2
    <3>5. ImportFile(p)' = Entry(1) /\ VersionOf(p)' = VersionOf(p) /\ VersionOf(p) = fetched[p]
      BY <1>2, <3>1 DEF ImportFile, VersionOf
    <3>6. Whole(p, ImportFile(p))'
      BY <3>2, <3>4, <3>5 DEF Whole, Document
    <3>7. ReadSoFar(p)'
      BY <1>4, <3>1, <3>5 DEF ReadSoFar
    <3> QED
      BY <3>1, <3>6, <3>7 DEF FilePlaces, At
  <2>2. CASE why[p] # ""
    <3>1. Quiet(p)'
      BY <1>1, <1>2, <1>12, <2>2 DEF Quiet, RemoveArchive, RemoveFails, AfterRemove, At, Goto
    <3> QED
      BY <3>1, QuietPlaces
  <2> QED
    BY <2>1, <2>2
<1>13. CASE ReadPart(p)
  <2> DEFINE name == ImportFile(p)
             parts == Content(name)
             next == parts[Len(seen[p]) + 1]
             v == VersionOf(p)
  <2>1. /\ pc[p] = "import" /\ pc' = pc /\ file' = file /\ fetched' = fetched
        /\ stamp' = stamp /\ Len(seen[p]) < Len(parts)
        /\ seen' = [seen EXCEPT ![p] = Append(seen[p], next)]
    BY <1>13 DEF ReadPart, At
  <2>2. ImportFile(p)' = name /\ VersionOf(p)' = v
    BY <1>2, <2>1 DEF ImportFile, VersionOf
  <2>3. Whole(p, name) /\ (file[name].by \subseteq {p} => ReadSoFar(p))
    BY <2>1 DEF FilePlaces, At
  <2>4. v \in Versions
    <3>1. 1 \in Versions
      BY SetupFacts DEF TypeOK
    <3>2. why[p] = "" /\ (setup.source = "url" => fetched[p] # 0)
      BY <2>1 DEF Places
    <3> QED
      BY <1>4, <3>1, <3>2 DEF VersionOf
  <2>5. Whole(p, ImportFile(p))'
    BY <2>1, <2>2, <2>3 DEF Whole, Document
  <2>6. ASSUME file[name].by \subseteq {p} PROVE ReadSoFar(p)'
    <3>1. parts = Document(v)
      BY <2>3, <2>6 DEF Whole, Content
    <3>2. /\ Len(parts) = PartsOf[v] /\ PartsOf[v] \in Nat
          /\ \A i \in 1..PartsOf[v] : parts[i] = v
      BY <2>4, <3>1, DocumentFacts, SetupFacts DEF TypeOK
    <3>3. /\ ReadSoFar(p) /\ seen[p] \in Seq(Parts)
      BY <1>1, <1>2, <2>3, <2>6
    <3> DEFINE s == seen[p]
    <3>4. Len(s) \in Nat /\ Len(s) + 1 <= PartsOf[v] /\ Len(s) + 1 \in 1..PartsOf[v]
      BY <2>1, <3>2, <3>3
    <3>5. next = v
      BY <3>2, <3>4
    <3>6. seen'[p] = Append(s, v)
      BY <1>1, <1>2, <2>1, <3>5
    <3>7. \A i \in 1..Len(s) : s[i] = v
      BY <3>3 DEF ReadSoFar
    <3> HIDE DEF s, v, name, parts, next
    <3>8. Len(Append(s, v)) = Len(s) + 1 /\ \A i \in 1..(Len(s) + 1) : Append(s, v)[i] = v
      BY <3>3, <3>4, <3>7 DEF s
    <3> QED
      BY <2>2, <3>4, <3>6, <3>8 DEF ReadSoFar
  <2> QED
    BY <2>1, <2>2, <2>5, <2>6 DEF FilePlaces, At
<1>14. CASE ImportEnds(p)
  <2>1. CASE pc'[p] = "return" /\ why'[p] = ""
    <3> DEFINE name == ImportFile(p)
               v == VersionOf(p)
    <3>1. /\ pc[p] = "import" /\ file' = file /\ fetched' = fetched /\ seen' = seen
          /\ stamp' = stamp /\ Len(seen[p]) >= Len(Content(name))
      BY <1>14 DEF ImportEnds, At
    <3>2. ImportFile(p)' = name /\ VersionOf(p)' = v
      BY <1>2, <3>1 DEF ImportFile, VersionOf
    <3>3. Whole(p, name) /\ (file[name].by \subseteq {p} => ReadSoFar(p))
      BY <3>1 DEF FilePlaces, At
    <3>4. v \in Versions
      <4>1. 1 \in Versions
        BY SetupFacts DEF TypeOK
      <4>2. why[p] = "" /\ (setup.source = "url" => fetched[p] # 0)
        BY <3>1 DEF Places
      <4> QED
        BY <1>4, <4>1, <4>2 DEF VersionOf
    <3>5. ASSUME file[name].by \subseteq {p} PROVE seen[p] = Document(v)
      <4>1. Content(name) = Document(v)
        BY <3>3, <3>5 DEF Whole, Content
      <4>2. Len(Document(v)) = PartsOf[v] /\ PartsOf[v] \in Nat
        BY <3>4, DocumentFacts, SetupFacts DEF TypeOK
      <4>3. seen[p] \in Seq(Parts) /\ ReadSoFar(p)
        BY <1>1, <1>2, <3>3, <3>5
      <4>4. Len(seen[p]) = PartsOf[v] /\ \A i \in 1..Len(seen[p]) : seen[p][i] = v
        BY <3>1, <4>1, <4>2, <4>3 DEF ReadSoFar
      <4> HIDE DEF v
      <4> QED
        BY <4>3, <4>4 DEF Document
    <3> QED
      BY <2>1, <3>1, <3>2, <3>3, <3>5 DEF FilePlaces, At, Whole, Document
  <2>2. CASE ~ (pc'[p] = "return" /\ why'[p] = "")
    <3>1. Quiet(p)'
      BY <1>1, <1>2, <1>14, <2>2 DEF Quiet, ImportEnds, At, Goto, Fail
    <3> QED
      BY <3>1, QuietPlaces
  <2> QED
    BY <2>1, <2>2
<1>15. CASE Return(p)
  <2>1. CASE why[p] = ""
    <3>1. /\ pc[p] = "return" /\ pc'[p] = "done" /\ file' = file /\ seen' = seen
          /\ fetched' = fetched /\ stamp' = stamp
      BY <1>1, <1>2, <1>15, <2>1 DEF Return, At, Goto
    <3>2. ImportFile(p)' = ImportFile(p) /\ VersionOf(p)' = VersionOf(p)
      BY <1>2, <3>1 DEF ImportFile, VersionOf
    <3>3. /\ ImportFile(p) \in DOMAIN file
          /\ file[ImportFile(p)].by \subseteq {p} => seen[p] = Document(VersionOf(p))
      BY <2>1, <3>1 DEF FilePlaces
    <3> QED
      BY <3>1, <3>2, <3>3 DEF FilePlaces, At, Document
  <2>2. CASE why[p] # ""
    <3>1. Quiet(p)'
      BY <1>1, <1>2, <1>15, <2>2 DEF Quiet, Return, At, Goto
    <3> QED
      BY <3>1, QuietPlaces
  <2> QED
    BY <2>1, <2>2
<1> QED
  BY <1>1, <1>5, <1>6, <1>7, <1>8, <1>9, <1>10, <1>11, <1>12, <1>13, <1>14, <1>15
  DEF LoaderStep, Load

\* After the removal of the archive the process does not touch it any more, and
\* the others touch their own only, or one that has the same name.
LEMMA ArchivePlaceStep ==
  ASSUME TypeOK, NEW p \in setup.loaders, Places(p), ArchivePlace(p), Step(p)
  PROVE  ArchivePlace(p)'
<1>1. p \in Callers /\ LoaderStep(p)
  BY LoaderSteps
<1>2. /\ setup' = setup
      /\ pc \in [Callers -> Labels] /\ why \in [Callers -> Reasons]
      /\ kept \in [Callers -> BOOLEAN]
  <2>1. setup' = setup
    BY <1>1, ControlMoves DEF ControlMove
  <2> QED
    BY <2>1 DEF TypeOK
<1>3. CASE RemoveArchive(p)
  <2>1. file' = Restrict(file, DOMAIN file \ {Archive(p)}) /\ stamp' = stamp
    BY <1>3 DEF RemoveArchive
  <2>2. Archive(p)' = Archive(p) /\ Archive(p) \notin DOMAIN file'
    BY <2>1 DEF Archive, Download, Restrict
  <2> QED
    BY <2>2 DEF ArchivePlace
<1>4. CASE RemoveFails(p)
  <2>1. kept'[p] = TRUE
    BY <1>1, <1>2, <1>4 DEF RemoveFails
  <2> QED
    BY <2>1 DEF ArchivePlace
<1>5. CASE ReadPart(p) \/ ImportEnds(p) \/ Return(p) \/ (At(p, "import") /\ StorageFails(p))
  <2>1. /\ pc[p] \in {"import", "return"} /\ file' = file /\ stamp' = stamp /\ kept' = kept
        /\ why[p] = "" \/ why'[p] = why[p]
    BY <1>1, <1>2, <1>5 DEF ReadPart, ImportEnds, Return, StorageFails, At, Fail, LeaveExtract,
       Places
  <2> QED
    BY <1>2, <2>1 DEF ArchivePlace, Archive
<1>6. CASE ~ (RemoveArchive(p) \/ RemoveFails(p) \/ ReadPart(p) \/ ImportEnds(p) \/ Return(p)
              \/ (At(p, "import") /\ StorageFails(p)))
  <2>1. setup.source = "url" /\ setup.mime = "zip" =>
          \/ pc'[p] \notin {"import", "return", "done", "failed"}
          \/ why'[p] \notin {"", "zip", "entry", "count", "parse", "import"}
    <3> USE DEF At, Goto, Fail, LeaveExtract, Cleanup
    <3>1. CASE Ping(p) \/ PingFails(p) \/ ChooseSource(p) \/ SendRequest(p) \/ GetAnswer(p)
      BY <1>1, <1>2, <3>1 DEF Ping, PingFails, ChooseSource, SendRequest, WebStep, GetAnswer,
         loadVars
    <3>2. CASE RequestFailed(p) \/ NameDownload(p) \/ CreateDownload(p) \/ CopyDownload(p)
      BY <1>1, <1>2, <3>2 DEF RequestFailed, NameDownload, CreateDownload, CopyDownload,
         WritePart
    <3>3. CASE OpenArchive(p) \/ NextEntry(p) \/ Inflate(p) \/ CountFiles(p)
      BY <1>1, <1>2, <3>3 DEF OpenArchive, NextEntry, Inflate, CountFiles, WritePart
    <3>4. CASE StorageFails(p) /\ ~ At(p, "import")
      BY <1>1, <1>2, <3>4 DEF StorageFails
    <3>5. CASE Stop(p) \/ Restart(p)
      BY <1>1, <1>2, <3>5 DEF Stop, Restart
    <3> QED
      BY <1>1, <1>6, <3>1, <3>2, <3>3, <3>4, <3>5 DEF LoaderStep, Load
  <2> QED
    BY <1>2, <2>1 DEF ArchivePlace
<1> QED
  BY <1>3, <1>4, <1>5, <1>6

\* The step of another process leaves it known who holds an archive.
LEMMA ArchivePlaceOther ==
  ASSUME TypeOK, NEW p \in setup.loaders, ArchivePlace(p), NEW q \in Callers, p # q, Step(q)
  PROVE  ArchivePlace(p)'
<1>1. p \in Callers /\ FileType
  BY SetupFacts DEF TypeOK, FileType, FileRecord
<1>2. /\ pc'[p] = pc[p] /\ why'[p] = why[p] /\ stamp'[p] = stamp[p] /\ kept'[p] = kept[p]
      /\ setup' = setup
  BY <1>1, OthersStay
<1> DEFINE name == Archive(p)
<1>3. name' = name
  BY <1>2 DEF Archive, Download
<1> DEFINE Gone(f) == name \notin DOMAIN f \/ p \notin f[name].by
<1>4. Gone(file) => Gone(file')
  <2> HIDE DEF name
  <2>1. done[q] + 1 \in Nat \ {0} /\ fetched[q] \in Parts
    <3>1. fetched[q] \in Parts /\ done[q] \in Nat
      BY DEF TypeOK
    <3> QED
      BY <3>1
  <2>2. ASSUME NEW n, file' = Truncate(q, n), Gone(file) PROVE Gone(file')
    <3>1. /\ DOMAIN file' = DOMAIN file \cup {n}
          /\ file'[n] = [parts |-> << >>, by |-> WritersOf(n) \cup {q}]
          /\ \A other \in DOMAIN file \ {n} : file'[other] = file[other]
      BY <1>1, <2>2, TruncateFacts
    <3>2. n = name => p \notin WritersOf(n)
      BY <2>2 DEF WritersOf
    <3> QED
      BY <2>2, <3>1, <3>2
  <2>3. ASSUME NEW n, file' = Write(n, done[q] + 1, fetched[q]), Gone(file) PROVE Gone(file')
    <3>1. /\ DOMAIN file' = DOMAIN file
          /\ n \in DOMAIN file => file'[n].by = file[n].by
          /\ \A other \in DOMAIN file \ {n} : file'[other] = file[other]
      BY <1>1, <2>1, <2>3, WriteFacts
    <3> QED
      BY <2>3, <3>1
  <2>4. ASSUME NEW n, file' = Restrict(file, DOMAIN file \ {n}), Gone(file) PROVE Gone(file')
    <3>1. /\ DOMAIN file' = DOMAIN file \ {n}
          /\ \A other \in DOMAIN file \ {n} : file'[other] = file[other]
      BY <1>1, <2>4, RemoveFacts
    <3> QED
      BY <2>4, <3>1
  <2>5. CASE file' = file
    BY <2>5
  <2> HIDE DEF Gone
  <2> QED
    BY <2>2, <2>3, <2>4, <2>5, FileMoves DEF FileMove
<1> QED
  BY <1>2, <1>3, <1>4 DEF ArchivePlace

\* The beginning: nothing was fetched or read, and no process is anywhere near a file.
LEMMA LoadInvInit ==
  ASSUME Init
  PROVE  LoadInv
<1>1. setup \in Setups /\ setup.loaders \subseteq Callers
  BY SetupFacts DEF Init
<1>2. LocalIsKept
  BY DEF Init, LocalIsKept
<1>3. ASSUME NEW p \in setup.loaders PROVE Places(p) /\ FilePlaces(p) /\ ArchivePlace(p)
  <2>1. pc[p] = "ping" /\ why[p] = "" /\ fetched[p] = 0 /\ seen[p] = << >>
    BY <1>1 DEF Init
  <2>2. Places(p)
    BY <2>1 DEF Places, At
  <2>3. FilePlaces(p)
    BY <2>1 DEF FilePlaces, At
  <2>4. ArchivePlace(p)
    BY <2>1 DEF ArchivePlace
  <2> QED
    BY <2>2, <2>3, <2>4
<1> QED
  BY <1>2, <1>3 DEF LoadInv

\* Every step of any process keeps it for all of them.
LEMMA LoadInvNext ==
  ASSUME TypeOK, LoadInv, [Next]_vars
  PROVE  LoadInv'
<1>1. ASSUME NEW q \in Callers, Step(q) PROVE LoadInv'
  <2>1. setup' = setup
    BY <1>1, ControlMoves DEF ControlMove
  <2>2. LocalIsKept'
    <3>1. setup.source # "url" => file' = file
      BY <1>1, FileMoves DEF FileMove, LoadInv, Places, At
    <3> QED
      BY <2>1, <3>1 DEF LoadInv, LocalIsKept, Document
  <2>3. ASSUME NEW p \in setup.loaders PROVE (Places(p) /\ FilePlaces(p) /\ ArchivePlace(p))'
    <3>1. LocalIsKept /\ Places(p) /\ FilePlaces(p) /\ ArchivePlace(p)
      BY DEF LoadInv
    <3>2. CASE p = q
      BY <1>1, <3>1, <3>2, PlacesStep, FilePlacesStep, ArchivePlaceStep
    <3>3. CASE p # q
      <4>1. p \in Callers
        BY SetupFacts DEF TypeOK
      <4>2. Places(p)'
        <5>1. /\ pc'[p] = pc[p] /\ why'[p] = why[p] /\ fetched'[p] = fetched[p]
              /\ entry'[p] = entry[p] /\ seen'[p] = seen[p] /\ phase'[p] = phase[p]
          BY <1>1, <3>3, <4>1, OthersStay
        <5> QED
          BY <2>1, <3>1, <5>1 DEF Places, At
      <4>3. FilePlaces(p)'
        BY <1>1, <3>1, <3>3, FilePlacesOther DEF LoadInv
      <4>4. ArchivePlace(p)'
        BY <1>1, <3>1, <3>3, ArchivePlaceOther
      <4> QED
        BY <4>2, <4>3, <4>4
    <3> QED
      BY <3>2, <3>3
  <2> QED
    BY <2>1, <2>2, <2>3 DEF LoadInv
<1>2. CASE Publish \/ UNCHANGED vars
  <2>1. UNCHANGED <<webVars, setup, file, pc, why, stamp, fetched, entry, done, seen, kept>>
    BY <1>2 DEF Publish, vars, loadVars
  <2>2. LocalIsKept' <=> LocalIsKept
    BY <2>1 DEF LocalIsKept
  <2>3. ASSUME NEW p \in setup.loaders PROVE (Places(p) /\ FilePlaces(p) /\ ArchivePlace(p))'
    <3>1. Places(p) /\ FilePlaces(p) /\ ArchivePlace(p)
      BY DEF LoadInv
    <3>2. Places(p)'
      BY <2>1, <3>1 DEF Places, At, webVars
    <3>3. VersionOf(p)' = VersionOf(p) /\ ImportFile(p)' = ImportFile(p)
      BY <2>1 DEF VersionOf, ImportFile
    <3>4. FilePlaces(p)'
      BY <2>1, <3>1, <3>3 DEF FilePlaces, Partial, Whole, ReadSoFar, At
    <3>5. ArchivePlace(p)'
      BY <2>1, <3>1 DEF ArchivePlace, Archive
    <3> QED
      BY <3>2, <3>4, <3>5
  <2> QED
    BY <2>1, <2>2, <2>3 DEF LoadInv
<1> QED
  BY <1>1, <1>2, StepsOfNext

\* What is said of the files holds in every state.
LEMMA LoadInvariant == Spec => [](TypeOK /\ PingsLeft /\ LoadInv)
<1>1. Init => TypeOK /\ PingsLeft /\ LoadInv
  BY TypeInit, LoadInvInit
<1>2. TypeOK /\ PingsLeft /\ LoadInv /\ [Next]_vars => (TypeOK /\ PingsLeft /\ LoadInv)'
  BY TypeNext, LoadInvNext
<1> QED
  BY <1>1, <1>2, PTL DEF Spec

\* Whatever comes of the unzipping, and however many processes work at the same
\* names: an archive is left behind only by a process that is killed or whose
\* removal of it fails.
THEOREM ArchivesEnd == Spec => []ArchivesAreRemoved
<1>1. TypeOK /\ LoadInv => ArchivesAreRemoved
  <2> SUFFICES ASSUME TypeOK, LoadInv, NEW p \in setup.loaders
               PROVE  (/\ setup.mime = "zip" /\ fetched[p] # 0
                       /\ pc[p] \in {"done", "failed"}
                       /\ why[p] \in {"", "zip", "entry", "count", "parse", "import"}
                       /\ ~ kept[p])
                        => Archive(p) \notin DOMAIN file \/ p \notin file[Archive(p)].by
    BY DEF ArchivesAreRemoved
  <2>1. Places(p) /\ ArchivePlace(p)
    BY DEF LoadInv
  <2> QED
    BY <2>1 DEF Places, ArchivePlace
<1> QED
  BY <1>1, LoadInvariant, PTL

\* For any versions of any number of parts, any interruptions and restarts, and
\* any number of processes in the same directory: a load that reports success
\* has imported the whole document that it downloaded, unless another process
\* has opened the very file.
THEOREM SuccessIsWhole == Spec => []SuccessReadsWhole
<1>1. LoadInv => SuccessReadsWhole
  <2> SUFFICES ASSUME LoadInv, NEW p \in setup.loaders, At(p, "done"),
                      file[ImportFile(p)].by \subseteq {p}
               PROVE  seen[p] = Document(VersionOf(p))
    BY DEF SuccessReadsWhole, VersionOf
  <2>1. Places(p) /\ FilePlaces(p)
    BY DEF LoadInv
  <2> QED
    BY <2>1 DEF Places, FilePlaces, At
<1> QED
  BY <1>1, LoadInvariant, PTL
=============================================================================
