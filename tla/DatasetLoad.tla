----------------------------- MODULE DatasetLoad -----------------------------
(***************************************************************************)
(* cmd/dataset around the import: it connects to the database, and the     *)
(* FileLoader of internal/mtgjson downloads the data set into the local    *)
(* storage, unzips it there, removes the archive, and gives the JSON file  *)
(* to Import.  Any of it may fail, the process may die, it is started      *)
(* again, and another one may run at the same time in the same directory.  *)
(*                                                                         *)
(* A data set comes in versions of some parts each.  A file is a sequence  *)
(* of parts, written and read one after the other.  An archive is a file   *)
(* with the parts of its data set.                                         *)
(***************************************************************************)
EXTENDS WebRetry, Sequences, FiniteSets, Functions

CONSTANTS
  PartsOf,   \* number of parts of every version of the data set
  Setups     \* what to begin with, see IsSetup

Versions == DOMAIN PartsOf
Document(v) == [i \in 1..PartsOf[v] |-> v]

Sources == {"url", "json", "other"}   \* a URL, a local .json file, another file

\* The content type of the response, and the entries of an archive: "file", or
\* "bad" for an entry without content, which a directory is, one that is too
\* large, or one with a path outside of the directory.
IsSetup(s) ==
  /\ s.loaders \subseteq Callers     \* processes that load the data set
  /\ s.getters \subseteq Callers     \* requests of the Scryfall client
  /\ s.loaders \cap s.getters = {}
  /\ s.source \in Sources
  /\ s.mime \in {"json", "zip", "image", "unsupported"}
  /\ s.entries \in Seq({"file", "bad"})
  /\ s.replace \in BOOLEAN           \* storage mode REPLACE, else CREATE
  /\ s.retries \in Nat
  /\ s.runs \in [Callers -> Nat \ {0}]   \* bound on the starts of a process

ASSUME DatasetLoadAssumption ==
  /\ PartsOf \in Seq(Nat \ {0}) /\ PartsOf # << >>
  /\ \A s \in Setups : IsSetup(s)

VARIABLES
  setup,      \* one of Setups; constant
  published,  \* the version that is to be downloaded by now
  clock,      \* milliseconds, counted where they matter
  file,       \* files by their names: their parts, and the processes that wrote them
  pc,         \* what a process does next
  why,        \* why it failed or is about to, "" if it did not
  pings,      \* failed pings of the database
  stamp,      \* of the name of the download
  fetched,    \* the version that was downloaded, 0 if none
  entry,      \* number of entries unzipped
  done,       \* parts written to the file in hand
  seen,       \* parts read by Import so far
  kept,       \* the archive could not be removed
  runs        \* starts of a process

loadVars == <<setup, published, clock, file, pc, why, pings, stamp, fetched, entry,
              done, seen, kept, runs>>
vars == <<webVars, loadVars>>

Local == <<"local", 0>>
Download(t) == <<"download", t>>
Entry(i) == <<"entry", i>>

Init ==
  /\ WebInit
  /\ setup \in Setups
  /\ published = 1
  /\ clock = 0
  /\ file = [name \in IF setup.source = "url" THEN {} ELSE {Local} |->
               [parts |-> Document(1), by |-> {}]]
  /\ pc = [p \in Callers |-> IF p \in setup.loaders THEN "ping"
                             ELSE IF p \in setup.getters THEN "call" ELSE "absent"]
  /\ why = [p \in Callers |-> ""]
  /\ pings = [p \in Callers |-> 0]
  /\ stamp = [p \in Callers |-> 0]
  /\ fetched = [p \in Callers |-> 0]
  /\ entry = [p \in Callers |-> 0]
  /\ done = [p \in Callers |-> 0]
  /\ seen = [p \in Callers |-> << >>]
  /\ kept = [p \in Callers |-> FALSE]
  /\ runs = [p \in Callers |-> 1]

At(p, label) == pc[p] = label
Goto(p, label) == pc' = [pc EXCEPT ![p] = label]

Fail(p, reason) ==
  /\ why' = [why EXCEPT ![p] = reason]
  /\ Goto(p, "return")

\* The last run of a process is one without failures from outside.
MayFail(p) == runs[p] < setup.runs[p]

-----------------------------------------------------------------------------
(* The database, and the choice of the source. *)

maxRetry == 5

PingsOnceMore(n) == n <= maxRetry                              \* mutant
PingsAgain(n) == n < maxRetry

Ping(p) ==
  /\ At(p, "ping")
  /\ Goto(p, "source")
  /\ UNCHANGED <<webVars, setup, published, clock, file, why, pings, stamp, fetched,
                 entry, done, seen, kept, runs>>

PingFails(p) ==
  /\ At(p, "ping") /\ MayFail(p)
  /\ pings' = [pings EXCEPT ![p] = @ + 1]
  /\ IF PingsAgain(pings[p] + 1) THEN UNCHANGED <<pc, why>> ELSE Fail(p, "ping")
  /\ UNCHANGED <<webVars, setup, published, clock, file, stamp, fetched, entry, done,
                 seen, kept, runs>>

ChooseSource(p) ==
  /\ At(p, "source")
  /\ \/ setup.source = "url" /\ Get(p) /\ Goto(p, "get") /\ UNCHANGED why
     \/ setup.source = "json" /\ Goto(p, "import") /\ UNCHANGED <<webVars, why>>
     \/ setup.source = "other" /\ Fail(p, "extension") /\ UNCHANGED webVars
  /\ UNCHANGED <<setup, published, clock, file, pings, stamp, fetched, entry, done, seen,
                 kept, runs>>

-----------------------------------------------------------------------------
(* The request. *)

WebStep(p) == At(p, "get") /\ UNCHANGED loadVars

SendRequest(p) == WebStep(p) /\ TimerFires(p, setup.retries)

\* In its last run a process meets a server that recovers in time.
TimelyAnswer(p, answer) ==
  \/ answer = "expected"
  \/ answer = "retryable" /\ counter[p] < setup.retries

GetAnswer(p) ==
  /\ At(p, "get")
  /\ \E answer \in Answers :
       /\ MayFail(p) \/ TimelyAnswer(p, answer)
       /\ Answered(p, answer, setup.retries)
       /\ fetched' = [fetched EXCEPT ![p] = IF answer = "expected" THEN published ELSE 0]
  /\ UNCHANGED <<setup, published, clock, file, pc, why, pings, stamp, entry, done, seen,
                 kept, runs>>

RequestFailed(p) ==
  /\ At(p, "get")
  /\ phase[p] = "refused"
  /\ Fail(p, "request")
  /\ UNCHANGED <<webVars, setup, published, clock, file, pings, stamp, fetched, entry,
                 done, seen, kept, runs>>

\* The name is made of the time in milliseconds: two processes may have the
\* same, but a process takes longer than that to come here again.
NameDownload(p) ==
  /\ At(p, "get")
  /\ phase[p] = "answered"
  /\ clock' \in {t \in clock..(clock + 1) : t > stamp[p]}
  /\ IF setup.mime = "unsupported"
     THEN Fail(p, "type") /\ UNCHANGED stamp
     ELSE /\ stamp' = [stamp EXCEPT ![p] = clock']
          /\ Goto(p, "create")
          /\ UNCHANGED why
  /\ UNCHANGED <<webVars, setup, published, file, pings, fetched, entry, done, seen,
                 kept, runs>>

-----------------------------------------------------------------------------
(* Files. *)

Content(name) == IF name \in DOMAIN file THEN file[name].parts ELSE << >>

WritersOf(name) == IF name \in DOMAIN file THEN file[name].by ELSE {}

Opened(p, name, parts) ==
  [n \in DOMAIN file \cup {name} |->
     IF n = name THEN [parts |-> parts, by |-> WritersOf(name) \cup {p}] ELSE file[n]]

NotTruncated(p, name) == Opened(p, name, Content(name))        \* mutant

\* O_CREATE | O_TRUNC
Truncate(p, name) == Opened(p, name, << >>)

\* Part i of version v written at its place: a hole in front of it reads as
\* zero, and what is behind it stays.
Overwrite(old, i, v) ==
  [k \in 1..(IF i > Len(old) THEN i ELSE Len(old)) |->
     IF k = i THEN v ELSE IF k <= Len(old) THEN old[k] ELSE 0]

\* What is written to a file that was removed is gone.
Write(name, i, v) ==
  IF name \in DOMAIN file
  THEN [file EXCEPT ![name].parts = Overwrite(@, i, v)]
  ELSE file

\* Store, up to the open file.
CreateDownload(p) ==
  /\ At(p, "create")
  /\ IF setup.replace \/ Download(stamp[p]) \notin DOMAIN file
     THEN /\ file' = Truncate(p, Download(stamp[p]))
          /\ done' = [done EXCEPT ![p] = 0]
          /\ Goto(p, "copy")
          /\ UNCHANGED why
     ELSE Fail(p, "exists") /\ UNCHANGED <<file, done>>
  /\ UNCHANGED <<webVars, setup, published, clock, pings, stamp, fetched, entry, seen,
                 kept, runs>>

\* One more part of the version in hand, and where to go after the last one.
WritePart(p, name, next) ==
  /\ file' = Write(name, done[p] + 1, fetched[p])
  /\ done' = [done EXCEPT ![p] = @ + 1]
  /\ IF done[p] + 1 = PartsOf[fetched[p]] THEN Goto(p, next) ELSE UNCHANGED pc

\* io.Copy and Sync; what is no archive is imported as it is.
CopyDownload(p) ==
  /\ At(p, "copy")
  /\ WritePart(p, Download(stamp[p]), IF setup.mime = "zip" THEN "open" ELSE "import")
  /\ UNCHANGED <<webVars, setup, published, clock, why, pings, stamp, fetched, entry,
                 seen, kept, runs>>

-----------------------------------------------------------------------------
(* extract *)

Archive(p) == Download(stamp[p])

\* The archive can be read: it is whole, or was when it was opened and has been
\* removed since.
Readable(p) ==
  Archive(p) \in DOMAIN file => Content(Archive(p)) = Document(fetched[p])

NoCleanup == "return"                                          \* mutant

\* The deferred removal of the archive comes after every end of extract.
Cleanup == "remove"

LeaveExtract(p, reason) ==
  /\ why' = [why EXCEPT ![p] = reason]
  /\ Goto(p, Cleanup)

OpenArchive(p) ==
  /\ At(p, "open")
  /\ entry' = [entry EXCEPT ![p] = 0]
  /\ IF Archive(p) \in DOMAIN file /\ Readable(p)
     THEN Goto(p, "unzip") /\ UNCHANGED why
     ELSE LeaveExtract(p, "zip")
  /\ UNCHANGED <<webVars, setup, published, clock, file, pings, stamp, fetched, done, seen,
                 kept, runs>>

\* writeFile takes any file, whatever the mode of the storage.
NextEntry(p) ==
  /\ At(p, "unzip")
  /\ entry[p] < Len(setup.entries)
  /\ IF setup.entries[entry[p] + 1] = "bad"
     THEN LeaveExtract(p, "entry") /\ UNCHANGED <<file, done, entry>>
     ELSE /\ file' = Truncate(p, Entry(entry[p] + 1))
          /\ done' = [done EXCEPT ![p] = 0]
          /\ entry' = [entry EXCEPT ![p] = @ + 1]
          /\ Goto(p, "inflate")
          /\ UNCHANGED why
  /\ UNCHANGED <<webVars, setup, published, clock, pings, stamp, fetched, seen, kept, runs>>

Inflate(p) ==
  /\ At(p, "inflate")
  /\ IF Readable(p)
     THEN WritePart(p, Entry(entry[p]), "unzip") /\ UNCHANGED why
     ELSE LeaveExtract(p, "zip") /\ UNCHANGED <<file, done>>
  /\ UNCHANGED <<webVars, setup, published, clock, pings, stamp, fetched, entry, seen,
                 kept, runs>>

\* Exactly one file is expected.
CountFiles(p) ==
  /\ At(p, "unzip")
  /\ entry[p] = Len(setup.entries)
  /\ LeaveExtract(p, IF Len(setup.entries) = 1 THEN "" ELSE "count")
  /\ UNCHANGED <<webVars, setup, published, clock, file, pings, stamp, fetched, entry,
                 done, seen, kept, runs>>

AfterRemove(p) == Goto(p, IF why[p] = "" THEN "import" ELSE "return")

RemoveArchive(p) ==
  /\ At(p, "remove")
  /\ Archive(p) \in DOMAIN file
  /\ file' = Restrict(file, DOMAIN file \ {Archive(p)})
  /\ AfterRemove(p)
  /\ UNCHANGED <<webVars, setup, published, clock, why, pings, stamp, fetched, entry,
                 done, seen, kept, runs>>

\* The error is joined to a variable that is no result of extract, and is lost.
RemoveFails(p) ==
  /\ At(p, "remove")
  /\ Archive(p) \notin DOMAIN file \/ MayFail(p)
  /\ kept' = [kept EXCEPT ![p] = TRUE]
  /\ AfterRemove(p)
  /\ UNCHANGED <<webVars, setup, published, clock, file, why, pings, stamp, fetched,
                 entry, done, seen, runs>>

-----------------------------------------------------------------------------
(* Import of the file, and the end. *)

ImportFile(p) ==
  IF setup.source = "json" THEN Local
  ELSE IF setup.mime = "zip" THEN Entry(1) ELSE Download(stamp[p])

ReadPart(p) ==
  /\ At(p, "import")
  /\ Len(seen[p]) < Len(Content(ImportFile(p)))
  /\ seen' = [seen EXCEPT ![p] = Append(@, Content(ImportFile(p))[Len(@) + 1])]
  /\ UNCHANGED <<webVars, setup, published, clock, file, pc, why, pings, stamp, fetched,
                 entry, done, kept, runs>>

\* A document that is whole is imported.  Of one that is not, the parser may or
\* may not notice it, as it takes the end of the file after a set for the end of
\* the document; but it insists on the beginning.
ImportEnds(p) ==
  /\ At(p, "import")
  /\ Len(seen[p]) >= Len(Content(ImportFile(p)))
  /\ LET whole == \E v \in Versions : seen[p] = Document(v)
         json == /\ setup.source = "json" \/ setup.mime # "image"
                 /\ seen[p] # << >> /\ seen[p][1] # 0
     IN  \/ json /\ Goto(p, "return") /\ UNCHANGED why
         \/ ~ (json /\ whole) /\ Fail(p, "parse")
  /\ UNCHANGED <<webVars, setup, published, clock, file, pings, stamp, fetched, entry,
                 done, seen, kept, runs>>

\* The deferred closing of the body, and the end of main or its panic.
Return(p) ==
  /\ At(p, "return")
  /\ Release(p)
  /\ Goto(p, IF why[p] = "" THEN "done" ELSE "failed")
  /\ UNCHANGED <<setup, published, clock, file, why, pings, stamp, fetched, entry, done,
                 seen, kept, runs>>

\* A file operation or a service fails.  What was written stays.
StorageFails(p) ==
  /\ MayFail(p)
  /\ \/ pc[p] \in {"source", "create", "copy"} /\ Fail(p, "store")
     \/ At(p, "import") /\ Fail(p, "import")
     \/ pc[p] \in {"open", "unzip", "inflate"} /\ LeaveExtract(p, "zip")
  /\ UNCHANGED <<webVars, setup, published, clock, file, pings, stamp, fetched, entry,
                 done, seen, kept, runs>>

Load(p) ==
  \/ Ping(p) \/ ChooseSource(p) \/ SendRequest(p) \/ GetAnswer(p) \/ RequestFailed(p)
  \/ NameDownload(p) \/ CreateDownload(p) \/ CopyDownload(p) \/ OpenArchive(p)
  \/ NextEntry(p) \/ Inflate(p) \/ CountFiles(p) \/ RemoveArchive(p) \/ RemoveFails(p)
  \/ ReadPart(p) \/ ImportEnds(p) \/ Return(p)

Over(p) == pc[p] \in {"done", "failed", "stopped"}

\* The process is killed.
Stop(p) ==
  /\ ~ Over(p) /\ MayFail(p)
  /\ Forget(p)
  /\ Goto(p, "stopped")
  /\ UNCHANGED <<setup, published, clock, file, why, pings, stamp, fetched, entry, done,
                 seen, kept, runs>>

Restart(p) ==
  /\ Over(p) /\ runs[p] < setup.runs[p]
  /\ runs' = [runs EXCEPT ![p] = @ + 1]
  /\ Forget(p)
  /\ Goto(p, "ping")
  /\ why' = [why EXCEPT ![p] = ""]
  /\ pings' = [pings EXCEPT ![p] = 0]
  /\ fetched' = [fetched EXCEPT ![p] = 0]
  /\ seen' = [seen EXCEPT ![p] = << >>]
  /\ kept' = [kept EXCEPT ![p] = FALSE]
  /\ UNCHANGED <<setup, published, clock, file, stamp, entry, done>>

-----------------------------------------------------------------------------
(* A request of the Scryfall client, for a card or for an image, under the  *)
(* context of its caller.  It never closes the body of the answer.          *)

Call(p) ==
  /\ At(p, "call")
  /\ Get(p) /\ Goto(p, "reply")
  /\ UNCHANGED <<setup, published, clock, file, why, pings, stamp, fetched, entry, done,
                 seen, kept, runs>>

Reply(p) ==
  /\ At(p, "reply")
  /\ \/ phase[p] \in {"answered", "refused"} /\ Goto(p, "done") /\ UNCHANGED webVars
     \/ UNCHANGED pc /\ (\/ TimerFires(p, setup.retries)
                         \/ StopsWaiting(p)
                         \/ \E answer \in Answers : Answered(p, answer, setup.retries))
  /\ UNCHANGED <<setup, published, clock, file, why, pings, stamp, fetched, entry, done,
                 seen, kept, runs>>

Cancel(p) == At(p, "reply") /\ EndContext(p) /\ UNCHANGED loadVars

-----------------------------------------------------------------------------
Publish ==
  /\ published < Len(PartsOf)
  /\ published' = published + 1
  /\ UNCHANGED <<webVars, setup, clock, file, pc, why, pings, stamp, fetched, entry, done,
                 seen, kept, runs>>

Ended ==
  /\ \A p \in setup.loaders : Over(p) /\ runs[p] = setup.runs[p]
  /\ \A p \in setup.getters : Over(p)
  /\ UNCHANGED vars

Next ==
  \/ \E p \in setup.loaders : Load(p) \/ PingFails(p) \/ StorageFails(p) \/ Stop(p) \/ Restart(p)
  \/ \E p \in setup.getters : Call(p) \/ Reply(p) \/ Cancel(p)
  \/ Publish
  \/ Ended

Spec == Init /\ [][Next]_vars

\* A request ends at the latest with the timeout of the http client, and file
\* operations end; a process that is over is started again.
FairSpec ==
  Spec /\ \A p \in Callers :
    /\ WF_vars(p \in setup.loaders /\ (Load(p) \/ Restart(p)))
    /\ WF_vars(p \in setup.getters /\ (Call(p) \/ Reply(p)))

-----------------------------------------------------------------------------
(* Properties. *)

Parts == Versions \cup {0}   \* a hole is 0

Labels == {"ping", "source", "get", "create", "copy", "open", "unzip", "inflate",
           "remove", "import", "return", "done", "failed", "stopped", "call", "reply",
           "absent"}

Reasons == {"", "ping", "extension", "request", "type", "exists", "store", "zip", "entry",
            "count", "parse", "import"}

\* Every variable has its type, no more pings were made than are allowed, and no
\* download is named by a time to come.
TypeOK ==
  /\ WebTypeOK
  /\ setup \in Setups
  /\ published \in Versions
  /\ clock \in Nat
  /\ file = [name \in DOMAIN file |-> file[name]]
  /\ \A name \in DOMAIN file : file[name] \in [parts : Seq(Parts), by : SUBSET Callers]
  /\ pc \in [Callers -> Labels]
  /\ why \in [Callers -> Reasons]
  /\ pings \in [Callers -> 0..maxRetry]
  /\ stamp \in [Callers -> 0..clock]
  /\ fetched \in [Callers -> Parts]
  /\ entry \in [Callers -> 0..Len(setup.entries)]
  /\ done \in [Callers -> Nat]
  /\ seen \in [Callers -> Seq(Parts)]
  /\ kept \in [Callers -> BOOLEAN]
  /\ runs \in [Callers -> Nat]
  /\ \A p \in Callers : runs[p] \in 1..setup.runs[p]

\* As the tests count them: never more than one request and Retries more; after
\* an answer that is final no further one; and a status that may be retried is
\* given up only when all the retries are used, or the context has ended.
RequestsAreBounded ==
  \A p \in Callers :
    /\ sent[p] <= setup.retries + 1
    /\ phase[p] = "timer" /\ sent[p] > 0 => last[p] = "retryable"
    /\ phase[p] = "refused" /\ last[p] = "retryable" =>
         ended[p] \/ sent[p] = setup.retries + 1

\* No body is open while a request waits to be made again, after it was given
\* up, and when a load is over, whichever way it ended.  The Scryfall client
\* leaves the body of a good answer to the garbage collector.
BodiesAreClosed ==
  \A p \in Callers :
    body[p] = "open" => phase[p] = "answered" /\ (p \in setup.loaders => ~ Over(p))

\* A load that has come as far as to unzip its archive leaves it behind only
\* if it is killed or the removal itself fails, however the unzipping ended.
ArchivesAreRemoved ==
  \A p \in setup.loaders :
    (/\ setup.mime = "zip" /\ fetched[p] # 0
     /\ pc[p] \in {"done", "failed"}
     /\ why[p] \in {"", "zip", "entry", "count", "parse", "import"}
     /\ ~ kept[p])
      => Archive(p) \notin DOMAIN file \/ p \notin file[Archive(p)].by

\* What a load reports as imported is the whole document that it downloaded:
\* no part is missing, and none is of another version that an earlier load, an
\* interrupted one, or another process has left in a file.  Only if another
\* process has written to the very file there is no such guarantee.
SuccessReadsWhole ==
  \A p \in setup.loaders :
    At(p, "done") /\ file[ImportFile(p)].by \subseteq {p} =>
      seen[p] = Document(IF setup.source = "url" THEN fetched[p] ELSE 1)

\* After any interruptions, the last run of a process alone, with a server that
\* recovers within the retries, imports the data set: no leftover is in the way,
\* and no wait for a timer or a request is for ever.
LastRunLoads ==
  (/\ Cardinality(setup.loaders) = 1
   /\ \/ setup.source = "json"
      \/ setup.source = "url" /\ setup.mime = "json"
      \/ setup.source = "url" /\ setup.mime = "zip" /\ setup.entries = <<"file">>)
    ~> \A p \in setup.loaders : runs[p] = setup.runs[p] /\ At(p, "done")
=============================================================================
