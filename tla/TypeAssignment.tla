--------------------------- MODULE TypeAssignment ---------------------------
(***************************************************************************)
(* mergeTypes of internal/cards: concurrent importers assign the types     *)
(* (sub, super or card types, each kind in tables of its own) to the faces *)
(* they import.  Each does it in one READ COMMITTED transaction on a       *)
(* connection of the pool: compare with the assigned types, look the       *)
(* missing ones up, create those that are not there, assign them.          *)
(*                                                                         *)
(* The faces are distinct, so the importers meet only in the table of the  *)
(* type names.  The row locks are those PostgreSQL takes for the two       *)
(* statements used: INSERT ... ON CONFLICT (name) DO UPDATE locks the row  *)
(* of the name exclusively, the foreign key of the assignment shares it.   *)
(*                                                                         *)
(* Type names are numbers, in the order ORDER BY name returns them.        *)
(***************************************************************************)
EXTENDS Naturals, Sequences, FiniteSets, SliceOps

CONSTANTS
  Workers,   \* importers, one for each face
  Names,     \* type names
  Jobs,      \* what the importers may have to do, see JobType
  MaxConns   \* pool size, config.MaxConnectionsOrDefault

JobType ==
  [new    : BOOLEAN,        \* the card was created by this import
   list   : Seq(Names),     \* types of the face in the data set
   before : SUBSET Names]   \* types assigned to it in the database

ASSUME TypeAssignmentAssumption ==
  /\ IsFiniteSet(Workers)
  /\ Names \subseteq Nat
  /\ MaxConns \in Nat \ {0}
  /\ Jobs \subseteq [Workers -> {j \in JobType :
                                  IsFiniteSet(j.before) /\ (j.new => j.before = {})}]

VARIABLES
  job,       \* the job of every importer; constant
  pc,        \* "begin", "merge", "find", "next", "assign", "done", "failed"
  toCreate,  \* names still to be assigned
  found,     \* names that Find returned
  pending,   \* assignments written but not committed
  dropped,   \* assignments deleted but not committed
  assigned,  \* committed assignments of the face
  table,     \* committed type names
  excl,      \* importers' exclusive locks: the names they inserted or updated
  shared,    \* importers' shared locks: the names they assigned
  why        \* why an importer failed, "" if it did not

vars == <<job, pc, toCreate, found, pending, dropped, assigned, table, excl,
          shared, why>>

\* A transaction has a connection from BEGIN to COMMIT or ROLLBACK.
InTransaction(w) == pc[w] \in {"merge", "find", "next", "assign"}
ConnsNotGivenBack == {w \in Workers : pc[w] \notin {"begin", "done"}}   \* mutant
ConnsInUse == {w \in Workers : InTransaction(w)}

Init ==
  /\ job \in Jobs
  /\ pc = [w \in Workers |-> "begin"]
  /\ toCreate = [w \in Workers |-> << >>]
  /\ found = [w \in Workers |-> {}]
  /\ pending = [w \in Workers |-> {}]
  /\ dropped = [w \in Workers |-> {}]
  /\ assigned = [w \in Workers |-> job[w].before]
  /\ table = UNION {job[w].before : w \in Workers}
  /\ excl = [w \in Workers |-> {}]
  /\ shared = [w \in Workers |-> {}]
  /\ why = [w \in Workers |-> ""]

-----------------------------------------------------------------------------
(* What a transaction is about to do, and the locks that it needs for it.  *)

StrikeNothing(acc, name) == acc                                \* mutant

\* One round of the loop over the assigned types, which come sorted by name.
Strike(acc, name) ==
  IF Contains(acc.toCreate, name)
  THEN [acc EXCEPT !.toCreate = RemoveSwap(@, SelectInSeq(@, LAMBDA n : n = name))]
  ELSE [acc EXCEPT !.toRemove = @ \cup {name}]

\* The assigned types, ORDER BY name.
FindAssignments(j) ==
  CHOOSE s \in [1..Cardinality(j.before) -> j.before] :
    \A i, k \in DOMAIN s : i < k => s[i] < s[k]

\* The loop: what is left to create, and what to remove, after n of them.
Compare(j) ==
  LET names == FindAssignments(j)
      after[n \in 0..Cardinality(j.before)] ==
        IF n = 0 THEN [toCreate |-> j.list, toRemove |-> {}]
        ELSE Strike(after[n - 1], names[n])
  IN  after[Cardinality(j.before)]

\* The names to assign, in the order in which they are assigned, and to delete.
ToCreate(j) == Compare(j).toCreate
RemovesNothing(j) == {}                                        \* mutant
ToRemove(j) == Compare(j).toRemove

Creates(w) == pc[w] = "next" /\ toCreate[w] # << >> /\ Head(toCreate[w]) \notin found[w]

Assigns(w) ==
  /\ toCreate[w] # << >>
  /\ \/ pc[w] = "assign"
     \/ pc[w] = "next" /\ Head(toCreate[w]) \in found[w]

\* The importers whose locks keep w from its next statement.
Blockers(w) ==
  {v \in Workers \ {w} :
     \/ Creates(w) /\ Head(toCreate[w]) \in excl[v] \cup shared[v]
     \/ Assigns(w) /\ Head(toCreate[w]) \in excl[v]}

\* w waits, directly or not, for itself: it is in every set that has its blockers
\* and the blockers of all its members.
Deadlocked(w) ==
  \A C \in SUBSET Workers :
    Blockers(w) \subseteq C /\ (\A v \in C : Blockers(v) \subseteq C) => w \in C

-----------------------------------------------------------------------------
Goto(w, label) == pc' = [pc EXCEPT ![w] = label]

BeginsWithoutPool(w) ==                                        \* mutant
  /\ pc[w] = "begin"
  /\ Goto(w, "merge")
  /\ UNCHANGED <<job, toCreate, found, pending, dropped, assigned, table, excl,
                 shared, why>>

Begin(w) ==
  /\ pc[w] = "begin"
  /\ Cardinality(ConnsInUse) < MaxConns
  /\ Goto(w, "merge")
  /\ UNCHANGED <<job, toCreate, found, pending, dropped, assigned, table, excl,
                 shared, why>>

\* The names to assign in the order of a Go map                    mutant
MergesInMapOrder(w) ==
  /\ pc[w] = "merge"
  /\ toCreate' \in {[toCreate EXCEPT ![w] = s] : s \in SetToSeqs(ToSet(ToCreate(job[w])))}
  /\ dropped' = [dropped EXCEPT ![w] = ToRemove(job[w])]
  /\ Goto(w, IF ToCreate(job[w]) = << >> THEN "next" ELSE "find")
  /\ UNCHANGED <<job, found, pending, assigned, table, excl, shared, why>>

\* The comparison with the assigned types and DeleteAssignments; a new card has
\* none and skips it.  With nothing to assign the transaction is over.
MergeExisting(w) ==
  /\ pc[w] = "merge"
  /\ toCreate' = [toCreate EXCEPT ![w] = ToCreate(job[w])]
  /\ dropped' = [dropped EXCEPT ![w] = ToRemove(job[w])]
  /\ Goto(w, IF ToCreate(job[w]) = << >> THEN "next" ELSE "find")
  /\ UNCHANGED <<job, found, pending, assigned, table, excl, shared, why>>

\* Rows that are not committed yet                                 mutant
FindsUncommitted(w) ==
  /\ pc[w] = "find"
  /\ found' = [found EXCEPT ![w] =
                 ToSet(toCreate[w]) \cap (table \cup UNION {excl[v] : v \in Workers})]
  /\ Goto(w, "next")
  /\ UNCHANGED <<job, toCreate, pending, dropped, assigned, table, excl, shared, why>>

\* Find sees what is committed by now.
Find(w) ==
  /\ pc[w] = "find"
  /\ found' = [found EXCEPT ![w] = ToSet(toCreate[w]) \cap table]
  /\ Goto(w, "next")
  /\ UNCHANGED <<job, toCreate, pending, dropped, assigned, table, excl, shared, why>>

Create(w) ==
  /\ Creates(w)
  /\ Blockers(w) = {}
  /\ excl' = [excl EXCEPT ![w] = @ \cup {Head(toCreate[w])}]
  /\ Goto(w, "assign")
  /\ UNCHANGED <<job, toCreate, found, pending, dropped, assigned, table, shared, why>>

\* What DeleteAssignments has left.
Remaining(w) == assigned[w] \ dropped[w]

\* UNIQUE (face_id, type_id) holds for what the transaction sees.
AlreadyAssigned(w) == Head(toCreate[w]) \in pending[w] \cup Remaining(w)

AssignToFace(w) ==
  /\ Assigns(w)
  /\ Blockers(w) = {}
  /\ ~ AlreadyAssigned(w)
  /\ pending' = [pending EXCEPT ![w] = @ \cup {Head(toCreate[w])}]
  /\ shared' = [shared EXCEPT ![w] = @ \cup {Head(toCreate[w])}]
  /\ toCreate' = [toCreate EXCEPT ![w] = Tail(@)]
  /\ Goto(w, "next")
  /\ UNCHANGED <<job, found, dropped, assigned, table, excl, why>>

Unlock(w) ==
  /\ excl' = [excl EXCEPT ![w] = {}]
  /\ shared' = [shared EXCEPT ![w] = {}]

Commit(w) ==
  /\ pc[w] = "next" /\ toCreate[w] = << >>
  /\ assigned' = [assigned EXCEPT ![w] = Remaining(w) \cup pending[w]]
  /\ table' = table \cup excl[w]
  /\ Unlock(w)
  /\ Goto(w, "done")
  /\ UNCHANGED <<job, toCreate, found, pending, dropped, why>>

CommitsAnyway(w, reason) ==                                    \* mutant
  /\ Unlock(w)
  /\ why' = [why EXCEPT ![w] = reason]
  /\ assigned' = [assigned EXCEPT ![w] = Remaining(w) \cup pending[w]]
  /\ Goto(w, "failed")
  /\ UNCHANGED <<job, toCreate, found, pending, dropped, table>>

Rollback(w, reason) ==
  /\ Unlock(w)
  /\ why' = [why EXCEPT ![w] = reason]
  /\ Goto(w, "failed")
  /\ UNCHANGED <<job, toCreate, found, pending, dropped, assigned, table>>

AssignTwice(w) ==
  /\ Assigns(w)
  /\ Blockers(w) = {}
  /\ AlreadyAssigned(w)
  /\ Rollback(w, "duplicate")

\* The database ends a cycle of waits by an error for one of the waiting.
DeadlockVictim(w) == Blockers(w) # {} /\ Deadlocked(w) /\ Rollback(w, "deadlock")

\* Any statement, or the connection, may fail.
StatementFails(w) == InTransaction(w) /\ Rollback(w, "failure")

Statement(w) ==
  \/ Begin(w) \/ MergeExisting(w) \/ Find(w) \/ Create(w) \/ AssignToFace(w)
  \/ Commit(w) \/ AssignTwice(w) \/ DeadlockVictim(w)

Ended == (\A w \in Workers : pc[w] \in {"done", "failed"}) /\ UNCHANGED vars

Next == (\E w \in Workers : Statement(w) \/ StatementFails(w)) \/ Ended

Spec == Init /\ [][Next]_vars

\* As long as some importer can go on, one does: the scheduler runs them, a free
\* connection or lock is given to one who waits for it, and the database ends
\* every cycle of waits.
FairSpec == Spec /\ WF_vars(\E w \in Workers : Statement(w))

-----------------------------------------------------------------------------
(* Properties. *)

\* Every variable has its type, and the pool is never overdrawn.
TypeOK ==
  /\ Cardinality(ConnsInUse) <= MaxConns
  /\ job \in Jobs
  /\ pc \in [Workers -> {"begin", "merge", "find", "next", "assign", "done", "failed"}]
  /\ toCreate \in [Workers -> Seq(Names)]
  /\ found \in [Workers -> SUBSET Names] /\ pending \in [Workers -> SUBSET Names]
  /\ dropped \in [Workers -> SUBSET Names] /\ assigned \in [Workers -> SUBSET Names]
  /\ excl \in [Workers -> SUBSET Names] /\ shared \in [Workers -> SUBSET Names]
  /\ table \in SUBSET Names
  /\ why \in [Workers -> {"", "duplicate", "deadlock", "failure"}]

\* A face has the types it had or, once its importer is done, exactly those of
\* the data set: never a part of them, whatever failed and whoever interfered.
AllOrNothing ==
  \A w \in Workers :
    assigned[w] = IF pc[w] = "done" THEN ToSet(job[w].list) ELSE job[w].before

\* What is assigned is a row of the type table, or one that the assigning
\* transaction itself is about to commit: no assignment rests on a row that a
\* transaction of another importer may still roll back.
NoDanglingAssignment ==
  \A w \in Workers :
    /\ assigned[w] \subseteq table
    /\ InTransaction(w) => pending[w] \subseteq table \cup excl[w]

\* An order of the names in which every importer assigns its types.
OrderOfAll(rank) ==
  \A w \in Workers :
    LET names == ToCreate(job[w])
    IN  \A i, k \in DOMAIN names : i < k /\ names[i] # names[k] =>
          rank[names[i]] < rank[names[k]]

\* An importer is made the victim of a deadlock only if there is no one order of
\* the names in which all importers assign theirs.  In particular new faces whose
\* lists are all sorted never fail that way.
VictimsHaveNoCommonOrder ==
  (\E w \in Workers : why[w] = "deadlock") =>
    ~ \E rank \in [Names -> Names] : OrderOfAll(rank)

\* Two lists that have two names in opposite orders.
Opposed(s, t) ==
  \E i, j \in DOMAIN s, k, l \in DOMAIN t :
    i < j /\ k < l /\ s[i] = t[l] /\ s[j] = t[k] /\ s[i] # s[j]

\* The lists of the data set agree on the order of the types, as those of the
\* test data do.
ListsAgree ==
  \A v, w \in Workers : ~ Opposed(job[v].list, job[w].list)

\* What the test of concurrently created types expects: no import fails when
\* the lists agree.
AgreeingListsDoNotDeadlock ==
  ListsAgree => \A w \in Workers : why[w] # "deadlock"

\* An importer fails on a repeated name only if its own list repeats one: the
\* assigned types struck from the list leave no name to be assigned twice.
DuplicatesAreInTheList ==
  \A w \in Workers : why[w] = "duplicate" =>
    Cardinality(ToSet(job[w].list)) < Len(job[w].list)

\* Every importer ends: a free connection, a lock, or an error comes its way.
EveryImporterEnds == <>(\A w \in Workers : pc[w] \in {"done", "failed"})

-----------------------------------------------------------------------------
(* The abstract specification. *)

Atomic == INSTANCE TypeMerge WITH
  list  <- [w \in Workers |-> job[w].list],
  state <- [w \in Workers |-> IF pc[w] \in {"done", "failed"} THEN pc[w] ELSE "open"]

\* To the rest of the program a merge is one step, on the face and on the table
\* of the names, although it reads, creates and assigns one name after the other
\* beside other importers.
ImplementsAtomicMerge == Atomic!Spec
=============================================================================
