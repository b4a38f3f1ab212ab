------------------------ MODULE TypeAssignmentProofs ------------------------
(***************************************************************************)
(* Proofs about TypeAssignment for any number of importers and connections *)
(* and for all lists of types.                                             *)
(***************************************************************************)
EXTENDS TypeAssignment, SliceOpsProofs

-----------------------------------------------------------------------------
(* What the comparison of a list with the assigned types leaves. *)

JobOK(j) == j \in JobType /\ IsFiniteSet(j.before)

\* The rows of ORDER BY name are the assigned types, each once.
LEMMA FindAssignmentsFacts ==
  ASSUME NEW j, JobOK(j)
  PROVE  LET s == FindAssignments(j)
             n == Cardinality(j.before)
         IN  /\ n \in Nat
             /\ s \in [1..n -> j.before]
             /\ \A i, k \in 1..n : s[i] = s[k] => i = k
             /\ \A x \in j.before : \E i \in 1..n : s[i] = x
<1> DEFINE s == FindAssignments(j)
           n == Cardinality(j.before)
           Sorted(t) == \A i, k \in DOMAIN t : i < k => t[i] < t[k]
<1>1. j.before \in SUBSET Nat /\ IsFiniteSet(j.before) /\ n \in Nat
  BY TypeAssignmentAssumption, FS_CardinalityType DEF JobOK, JobType
<1>2. \E t \in [1..n -> j.before] : Sorted(t)
  <2>1. PICK t \in [1..n -> j.before] : \A i, k \in 1..n : i < k => t[i] < t[k]
    BY <1>1, SortedList
  <2> QED
    BY <2>1
<1>3. s = CHOOSE t \in [1..n -> j.before] : Sorted(t)
  BY DEF FindAssignments
<1>4. s \in [1..n -> j.before] /\ Sorted(s)
  <2> HIDE DEF s, Sorted
  <2> QED
    BY <1>2, <1>3
<1> HIDE DEF s
<1>5. ASSUME NEW i \in 1..n, NEW k \in 1..n, s[i] = s[k] PROVE i = k
  <2>1. s[i] \in Nat /\ s[k] \in Nat /\ i \in DOMAIN s /\ k \in DOMAIN s
    BY <1>1, <1>4
  <2>2. ~ (i < k) /\ ~ (k < i)
    BY <1>4, <1>5, <2>1
  <2> HIDE DEF n
  <2> QED
    BY <1>1, <2>2
<1>6. s \in Injection(1..n, j.before)
  BY <1>4, <1>5 DEF Injection, IsInjective
<1>7. Cardinality(1..n) = n
  <2>1. Cardinality(1..n) = IF 1 > n THEN 0 ELSE n - 1 + 1
    BY <1>1, FS_Interval
  <2> QED
    BY <1>1, <2>1
<1>8. s \in Surjection(1..n, j.before)
  BY <1>1, <1>6, <1>7, FS_Injection
<1> QED
  BY <1>1, <1>4, <1>5, <1>8 DEF Surjection, s

Struck == [toCreate : Seq(Names), toRemove : SUBSET Names]

\* One round of the loop: the name is taken from the list, or is to be removed.
LEMMA StrikeFacts ==
  ASSUME NEW acc \in Struck, NEW name \in Names
  PROVE  LET rest == Strike(acc, name).toCreate
         IN  /\ Strike(acc, name) \in Struck
             /\ name \in ToSet(acc.toCreate) =>
                  /\ Strike(acc, name).toRemove = acc.toRemove
                  /\ ToSet(rest) \cup {name} = ToSet(acc.toCreate)
                  /\ NoRepeat(acc.toCreate) <=> NoRepeat(rest) /\ name \notin ToSet(rest)
             /\ name \notin ToSet(acc.toCreate) =>
                  /\ Strike(acc, name).toRemove = acc.toRemove \cup {name}
                  /\ rest = acc.toCreate
<1> DEFINE tc == acc.toCreate
           p == SelectInSeq(tc, LAMBDA n : n = name)
<1>1. tc \in Seq(Names) /\ acc.toRemove \in SUBSET Names
  BY DEF Struck
<1>2. name \in ToSet(tc) <=> Contains(tc, name)
  BY <1>1 DEF ToSet, Contains
<1>3. CASE Contains(tc, name)
  <2>1. p \in 1..Len(tc) /\ tc[p] = name
    BY <1>1, <1>3, PositionOf
  <2>2. Strike(acc, name) = [acc EXCEPT !.toCreate = RemoveSwap(tc, p)]
    BY <1>3 DEF Strike
  <2> HIDE DEF p
  <2>3. RemoveSwap(tc, p) \in Seq(Names)
    BY <1>1, <2>1, RemoveSwapFacts
  <2>4. /\ Strike(acc, name) \in Struck
        /\ Strike(acc, name).toCreate = RemoveSwap(tc, p)
        /\ Strike(acc, name).toRemove = acc.toRemove
    BY <2>2, <2>3 DEF Struck
  <2>5. ToSet(RemoveSwap(tc, p)) \cup {name} = ToSet(tc)
    BY <1>1, <2>1, RemoveSwapElements
  <2>6. NoRepeat(tc) <=> NoRepeat(RemoveSwap(tc, p)) /\ name \notin ToSet(RemoveSwap(tc, p))
    BY <1>1, <2>1, RemoveSwapNoRepeat
  <2> QED
    BY <1>2, <1>3, <2>4, <2>5, <2>6
<1>4. CASE ~ Contains(tc, name)
  <2>1. Strike(acc, name) = [acc EXCEPT !.toRemove = @ \cup {name}]
    BY <1>4 DEF Strike
  <2> QED
    BY <1>1, <1>2, <1>4, <2>1 DEF Struck
<1> QED
  BY <1>3, <1>4

\* The loop has a result, one round after the other.
LEMMA CompareRounds ==
  ASSUME NEW j, JobOK(j)
  PROVE  LET n == Cardinality(j.before)
         IN  \E after \in [0..n -> Struck] :
               /\ after[0] = [toCreate |-> j.list, toRemove |-> {}]
               /\ \A i \in 1..n : after[i] = Strike(after[i - 1], FindAssignments(j)[i])
               /\ Compare(j) = after[n]
<1> DEFINE n == Cardinality(j.before)
           s == FindAssignments(j)
           base == [toCreate |-> j.list, toRemove |-> {}]
           step == [p \in Struck \X Nat |->
                      IF p[2] \in 1..n THEN Strike(p[1], s[p[2]]) ELSE p[1]]
           Rounds(g) == g = [i \in 0..n |-> IF i = 0 THEN base ELSE Strike(g[i - 1], s[i])]
           after == CHOOSE g : Rounds(g)
<1>1. n \in Nat /\ s \in [1..n -> Names]
  BY FindAssignmentsFacts DEF JobOK, JobType
<1>2. base \in Struck
  BY DEF JobOK, JobType, Struck
<1>3. Compare(j) = after[n]
  BY DEF Compare
<1> HIDE DEF n, s, base
<1>4. step \in [Struck \X Nat -> Struck]
  <2> SUFFICES ASSUME NEW a \in Struck, NEW i \in Nat
               PROVE  (IF i \in 1..n THEN Strike(a, s[i]) ELSE a) \in Struck
    OBVIOUS
  <2> QED
    BY <1>1, StrikeFacts
<1>5. PICK f : Iterates(f, Struck, base, step)
  <2> HIDE DEF step
  <2> QED
    BY <1>2, <1>4, Recursion
<1>6. ASSUME NEW i \in 1..n PROVE f[i] = Strike(f[i - 1], s[i])
  <2>1. i - 1 \in Nat /\ (i - 1) + 1 = i
    BY <1>1
  <2>2. f[i] = step[<<f[i - 1], i>>]
    BY <1>5, <2>1 DEF Iterates
  <2>3. f[i - 1] \in Struck /\ i \in Nat
    BY <1>1, <1>5, <2>1 DEF Iterates
  <2> QED
    BY <2>2, <2>3
<1> DEFINE g == [i \in 0..n |-> f[i]]
<1>7. Rounds(g)
  <2> SUFFICES ASSUME NEW i \in 0..n
               PROVE  f[i] = IF i = 0 THEN base ELSE Strike(g[i - 1], s[i])
    BY Zenon
  <2>1. CASE i = 0
    BY <1>5, <2>1 DEF Iterates
  <2>2. CASE i # 0
    <3>1. i \in 1..n /\ i - 1 \in 0..n
      BY <1>1, <2>2
    <3> QED
      BY <1>6, <2>2, <3>1
  <2> QED
    BY <2>1, <2>2
<1>8. Rounds(after)
  <2> HIDE DEF g, Rounds
  <2> QED
    BY <1>7, Zenon
<1> HIDE DEF after
<1>9. \A i \in 0..n : after[i] = IF i = 0 THEN base ELSE Strike(after[i - 1], s[i])
  BY <1>8, Zenon
<1>10. after[0] = base /\ \A i \in 1..n : after[i] = Strike(after[i - 1], s[i])
  BY <1>1, <1>9
<1>11. after \in [0..n -> Struck]
  <2> DEFINE T == {i \in Nat : i <= n => after[i] \in Struck}
  <2>1. 0 \in T
    BY <1>2, <1>10
  <2>2. ASSUME NEW i \in Nat, i \in T PROVE i + 1 \in T
    <3> SUFFICES ASSUME i + 1 <= n PROVE after[i + 1] \in Struck
      OBVIOUS
    <3>1. after[i] \in Struck /\ i + 1 \in 1..n /\ s[i + 1] \in Names
      BY <1>1, <2>2
    <3>2. after[i + 1] = Strike(after[i], s[i + 1])
      BY <1>10, <3>1
    <3> QED
      BY <3>1, <3>2, StrikeFacts
  <2> HIDE DEF T
  <2>3. \A i \in Nat : i \in T
    BY <2>1, <2>2, Induction
  <2>4. \A i \in 0..n : after[i] \in Struck
    BY <1>1, <2>3 DEF T
  <2>5. after = [i \in 0..n |-> after[i]]
    BY <1>8
  <2> QED
    BY <2>4, <2>5
<1> QED
  BY <1>3, <1>10, <1>11 DEF n, s, base

\* The types that the comparison leaves in the database.
Kept(j) == j.before \ ToRemove(j)

\* What is created and what is kept are together the types of the list, and they
\* are so without an overlap exactly if the list repeats no type.
LEMMA CompareFacts ==
  ASSUME NEW j, JobOK(j)
  PROVE  /\ ToCreate(j) \in Seq(Names)
         /\ ToRemove(j) \subseteq j.before
         /\ ToSet(ToCreate(j)) \cup Kept(j) = ToSet(j.list)
         /\ NoRepeat(j.list) <=> /\ NoRepeat(ToCreate(j))
                                 /\ ToSet(ToCreate(j)) \cap Kept(j) = {}
<1> DEFINE n == Cardinality(j.before)
           s == FindAssignments(j)
           L == ToSet(j.list)
           Sn(i) == {s[k] : k \in 1..i}
<1>1. PICK after \in [0..n -> Struck] :
        /\ after[0] = [toCreate |-> j.list, toRemove |-> {}]
        /\ \A i \in 1..n : after[i] = Strike(after[i - 1], s[i])
        /\ Compare(j) = after[n]
  BY CompareRounds
<1>2. /\ n \in Nat
      /\ s \in [1..n -> j.before]
      /\ \A i, k \in 1..n : s[i] = s[k] => i = k
      /\ \A x \in j.before : \E i \in 1..n : s[i] = x
  BY FindAssignmentsFacts
<1>3. j.before \subseteq Names /\ j.list \in Seq(Names)
  BY DEF JobOK, JobType
<1> HIDE DEF n, s
<1> DEFINE Holds(i) == LET tc == after[i].toCreate
                       IN  /\ after[i].toRemove = Sn(i) \ L
                           /\ ToSet(tc) \cup (Sn(i) \cap L) = L
                           /\ NoRepeat(j.list) <=> NoRepeat(tc) /\ ToSet(tc) \cap Sn(i) = {}
           T == {i \in Nat : i <= n => Holds(i)}
<1>4. 0 \in T
  <2>1. Sn(0) = {} /\ after[0].toCreate = j.list /\ after[0].toRemove = {}
    BY <1>1
  <2> QED
    BY <2>1
<1>5. ASSUME NEW i \in Nat, i \in T PROVE i + 1 \in T
  <2> SUFFICES ASSUME i + 1 <= n PROVE Holds(i + 1)
    OBVIOUS
  <2> DEFINE acc == after[i]
             name == s[i + 1]
             tc == acc.toCreate
             rest == after[i + 1].toCreate
  <2>1. i \in 0..n /\ i + 1 \in 1..n /\ (i + 1) - 1 = i
    BY <1>2
  <2>2. acc \in Struck /\ name \in Names /\ after[i + 1] = Strike(acc, name)
    BY <1>1, <1>2, <1>3, <2>1
  <2>3. Holds(i)
    BY <1>5, <2>1
  <2>4. Sn(i + 1) = Sn(i) \cup {name}
    BY <2>1
  <2>5. name \notin Sn(i)
    BY <1>2, <2>1
  <2> HIDE DEF Sn, L, acc, name
  <2>6. name \in ToSet(tc) <=> name \in L
    BY <2>3, <2>5 DEF acc
  <2>7. CASE name \in ToSet(tc)
    <3>1. /\ after[i + 1].toRemove = acc.toRemove
          /\ ToSet(rest) \cup {name} = ToSet(tc)
          /\ NoRepeat(tc) <=> NoRepeat(rest) /\ name \notin ToSet(rest)
      BY <2>2, <2>7, StrikeFacts
    <3>2. after[i + 1].toRemove = Sn(i + 1) \ L
      BY <2>3, <2>4, <2>6, <2>7, <3>1 DEF acc
    <3>3. ToSet(rest) \cup (Sn(i + 1) \cap L) = L
      BY <2>3, <2>4, <2>6, <2>7, <3>1 DEF acc
    <3>4. NoRepeat(j.list) <=> NoRepeat(rest) /\ ToSet(rest) \cap Sn(i + 1) = {}
      BY <2>3, <2>4, <2>5, <3>1 DEF acc
    <3> QED
      BY <3>2, <3>3, <3>4
  <2>8. CASE name \notin ToSet(tc)
    <3>1. after[i + 1].toRemove = acc.toRemove \cup {name} /\ rest = tc
      BY <2>2, <2>8, StrikeFacts
    <3>2. after[i + 1].toRemove = Sn(i + 1) \ L
      BY <2>3, <2>4, <2>6, <2>8, <3>1 DEF acc
    <3>3. ToSet(rest) \cup (Sn(i + 1) \cap L) = L
      BY <2>3, <2>4, <2>6, <2>8, <3>1 DEF acc
    <3>4. NoRepeat(j.list) <=> NoRepeat(rest) /\ ToSet(rest) \cap Sn(i + 1) = {}
      BY <2>3, <2>4, <2>8, <3>1 DEF acc
    <3> QED
      BY <3>2, <3>3, <3>4
  <2> QED
    BY <2>7, <2>8
<1> HIDE DEF T
<1>6. \A i \in Nat : i \in T
  BY <1>4, <1>5, Induction
<1>7. Holds(n)
  BY <1>2, <1>6 DEF T
<1>8. Sn(n) = j.before
  BY <1>2
<1>9. ToCreate(j) = after[n].toCreate /\ ToRemove(j) = after[n].toRemove
  BY <1>1 DEF ToCreate, ToRemove
<1>10. after[n] \in Struck
  BY <1>1, <1>2
<1> HIDE DEF Sn
<1>11. ToRemove(j) \subseteq j.before /\ Kept(j) = j.before \cap L
  BY <1>7, <1>8, <1>9 DEF Kept
<1>12. ToCreate(j) \in Seq(Names)
  BY <1>9, <1>10 DEF Struck
<1>13. ToSet(ToCreate(j)) \cup Kept(j) = L
  BY <1>7, <1>8, <1>9, <1>11
<1>14. NoRepeat(j.list) <=> NoRepeat(ToCreate(j)) /\ ToSet(ToCreate(j)) \cap Kept(j) = {}
  BY <1>7, <1>8, <1>9, <1>11, <1>13
<1> QED
  BY <1>11, <1>12, <1>13, <1>14

-----------------------------------------------------------------------------
(* The inductive invariant. *)

\* How far an importer is: it has assigned the first n of its names, none twice,
\* none that the face has already, and has the others still to assign.
Assigned(w, n) ==
  LET names == ToCreate(job[w])
  IN  /\ toCreate[w] = SubSeq(names, n + 1, Len(names))
      /\ pending[w] = {names[i] : i \in 1..n}
      /\ \A i, k \in 1..n : names[i] = names[k] => i = k
      /\ \A i \in 1..n : names[i] \notin Kept(job[w])

Working(w) == pc[w] \in {"find", "next", "assign"}

ProgressOf(w) ==
  Working(w) =>
    /\ dropped[w] = ToRemove(job[w])
    /\ \E n \in 0..Len(ToCreate(job[w])) : Assigned(w, n)
    /\ pc[w] = "find" => pending[w] = {}
    /\ pc[w] # "next" => toCreate[w] # << >>

\* The locks of an importer: it shares the names that it has assigned, and has for
\* itself those that it created, of which the last may not be assigned yet.
LocksOf(w) ==
  Working(w) =>
    /\ shared[w] = pending[w]
    /\ pending[w] \subseteq found[w] \cup excl[w]
    /\ IF pc[w] = "assign"
       THEN Head(toCreate[w]) \in excl[w] /\ excl[w] \subseteq pending[w] \cup {Head(toCreate[w])}
       ELSE excl[w] \subseteq pending[w]

\* Out of a transaction an importer has no lock, and before it nothing to commit.
IdleOf(w) ==
  /\ ~ Working(w) => excl[w] = {} /\ shared[w] = {}
  /\ pc[w] \in {"begin", "merge"} => pending[w] = {} /\ found[w] = {}

ResultOf(w) ==
  /\ assigned[w] = IF pc[w] = "done" THEN ToSet(job[w].list) ELSE job[w].before
  /\ why[w] = "duplicate" => ~ NoRepeat(job[w].list)

Local(w) == ProgressOf(w) /\ LocksOf(w) /\ IdleOf(w) /\ ResultOf(w)

\* No two importers have locks on a name that exclude each other.
LocksExclude ==
  \A v, w \in Workers : v # w => excl[v] \cap (excl[w] \cup shared[w]) = {}

\* Rows that are in the table stay there.
TableHasRows ==
  \A w \in Workers : found[w] \subseteq table /\ assigned[w] \subseteq table

IInv ==
  /\ TypeOK
  /\ \A w \in Workers : Local(w)
  /\ LocksExclude
  /\ TableHasRows
  /\ VictimsHaveNoCommonOrder

-----------------------------------------------------------------------------
(* Type correctness. *)

\* What the comparison needs of a job, every importer's has.
LEMMA JobsAreOK ==
  ASSUME TypeOK, NEW w \in Workers
  PROVE  JobOK(job[w])
BY TypeAssignmentAssumption DEF TypeOK, JobOK

\* Initially every variable has its type.
LEMMA TypeInit == Init => TypeOK
<1> SUFFICES ASSUME Init PROVE TypeOK
  OBVIOUS
<1>1. job \in Jobs /\ job \in [Workers -> JobType]
  BY TypeAssignmentAssumption DEF Init
<1>2. \A w \in Workers : job[w].before \in SUBSET Names
  BY <1>1 DEF JobType
<1>3. Cardinality(ConnsInUse) <= MaxConns
  <2>1. ConnsInUse = {}
    BY DEF Init, ConnsInUse, InTransaction
  <2> QED
    BY <2>1, FS_EmptySet, TypeAssignmentAssumption
<1>4. /\ pc \in [Workers -> {"begin", "merge", "find", "next", "assign", "done", "failed"}]
      /\ toCreate \in [Workers -> Seq(Names)]
      /\ why \in [Workers -> {"", "duplicate", "deadlock", "failure"}]
  <2>1. << >> \in Seq(Names)
    OBVIOUS
  <2> QED
    BY <2>1 DEF Init
<1>5. /\ found \in [Workers -> SUBSET Names] /\ pending \in [Workers -> SUBSET Names]
      /\ dropped \in [Workers -> SUBSET Names] /\ assigned \in [Workers -> SUBSET Names]
      /\ excl \in [Workers -> SUBSET Names] /\ shared \in [Workers -> SUBSET Names]
  BY <1>2 DEF Init
<1>6. table \in SUBSET Names
  BY <1>2 DEF Init
<1> QED
  BY <1>1, <1>3, <1>4, <1>5, <1>6 DEF TypeOK

\* A connection is taken only if one is free.
LEMMA PoolNext ==
  ASSUME TypeOK, NEW w \in Workers, Statement(w) \/ StatementFails(w)
  PROVE  Cardinality(ConnsInUse') <= MaxConns
<1>1. IsFiniteSet(ConnsInUse) /\ Cardinality(ConnsInUse) \in Nat /\ MaxConns \in Nat
  <2>1. ConnsInUse \subseteq Workers
    BY DEF ConnsInUse
  <2> QED
    BY <2>1, FS_Subset, FS_CardinalityType, TypeAssignmentAssumption
<1>2. CASE Begin(w)
  <2>1. ConnsInUse' = ConnsInUse \cup {w}
    BY <1>2 DEF TypeOK, Begin, Goto, ConnsInUse, InTransaction
  <2>2. Cardinality(ConnsInUse') = IF w \in ConnsInUse THEN Cardinality(ConnsInUse)
                                   ELSE Cardinality(ConnsInUse) + 1
    BY <1>1, <2>1, FS_AddElement
  <2> QED
    BY <1>1, <1>2, <2>2 DEF Begin
<1>3. CASE ~ Begin(w)
  <2>1. \A v \in Workers : InTransaction(v)' => InTransaction(v)
    BY <1>3 DEF TypeOK, Statement, StatementFails, MergeExisting, Find, Create, Creates,
       AssignToFace, Assigns, Commit, AssignTwice, DeadlockVictim, Rollback, Goto,
       InTransaction
  <2>2. ConnsInUse' \subseteq ConnsInUse
    BY <2>1 DEF ConnsInUse
  <2>3. Cardinality(ConnsInUse') <= Cardinality(ConnsInUse) /\ Cardinality(ConnsInUse') \in Nat
    BY <1>1, <2>2, FS_Subset, FS_CardinalityType
  <2>4. Cardinality(ConnsInUse) <= MaxConns
    BY DEF TypeOK
  <2> HIDE DEF ConnsInUse
  <2> QED
    BY <1>1, <2>3, <2>4
<1> QED
  BY <1>2, <1>3

\* Every step of every importer keeps the types.
LEMMA TypeNext == TypeOK /\ [Next]_vars => TypeOK'
<1> SUFFICES ASSUME TypeOK, [Next]_vars PROVE TypeOK'
  OBVIOUS
<1>1. ASSUME NEW w \in Workers, Statement(w) \/ StatementFails(w) PROVE TypeOK'
  <2>1. Cardinality(ConnsInUse') <= MaxConns
    BY <1>1, PoolNext
  <2>2. /\ JobOK(job[w])
        /\ ToCreate(job[w]) \in Seq(Names) /\ ToRemove(job[w]) \in SUBSET Names
    BY JobsAreOK, CompareFacts DEF JobOK, JobType
  <2>3. CASE Begin(w)
    BY <2>1, <2>3 DEF TypeOK, Begin, Goto
  <2>4. CASE MergeExisting(w)
    BY <2>1, <2>2, <2>4 DEF TypeOK, MergeExisting, Goto
  <2>5. CASE Find(w)
    BY <2>1, <2>5 DEF TypeOK, Find, Goto
  <2>6. CASE Create(w)
    <3>1. Head(toCreate[w]) \in Names
      <4>1. toCreate[w] \in Seq(Names) /\ toCreate[w] # << >>
        BY <2>6 DEF TypeOK, Create, Creates
      <4> QED
        BY <4>1
    <3> QED
      BY <2>1, <2>6, <3>1 DEF TypeOK, Create, Goto
  <2>7. CASE AssignToFace(w)
    <3>1. Head(toCreate[w]) \in Names /\ Tail(toCreate[w]) \in Seq(Names)
      <4>1. toCreate[w] \in Seq(Names) /\ toCreate[w] # << >>
        BY <2>7 DEF TypeOK, AssignToFace, Assigns
      <4> QED
        BY <4>1
    <3> QED
      BY <2>1, <2>7, <3>1 DEF TypeOK, AssignToFace, Goto
  <2>8. CASE Commit(w)
    BY <2>1, <2>8 DEF TypeOK, Commit, Unlock, Remaining, Goto
  <2>9. CASE AssignTwice(w) \/ DeadlockVictim(w) \/ StatementFails(w)
    BY <2>1, <2>9 DEF TypeOK, AssignTwice, DeadlockVictim, StatementFails, Rollback, Unlock, Goto
  <2> QED
    BY <1>1, <2>3, <2>4, <2>5, <2>6, <2>7, <2>8, <2>9 DEF Statement
<1>2. CASE UNCHANGED vars
  BY <1>2 DEF TypeOK, vars, ConnsInUse, InTransaction
<1> QED
  BY <1>1, <1>2 DEF Next, Ended

\* The pool is never overdrawn, and every variable keeps its type.
THEOREM TypeCorrect == Spec => []TypeOK
<1> QED
  BY TypeInit, TypeNext, PTL DEF Spec

-----------------------------------------------------------------------------
(* What the invariant says of one importer, step by step. *)

\* What a list still holds after its first n names.
LEMMA RestOfNames ==
  ASSUME NEW names \in Seq(Names), NEW n \in 0..Len(names)
  PROVE  LET rest == SubSeq(names, n + 1, Len(names))
         IN  /\ rest = << >> <=> n = Len(names)
             /\ n # Len(names) => /\ n + 1 \in 1..Len(names)
                                  /\ Head(rest) = names[n + 1]
                                  /\ Tail(rest) = SubSeq(names, (n + 1) + 1, Len(names))
<1>1. n \in Nat /\ Len(names) \in Nat
  OBVIOUS
<1>2. CASE n = Len(names)
  BY <1>1, <1>2, SubSeqEmpty
<1>3. CASE n # Len(names)
  <2>1. n + 1 \in 1..Len(names) /\ Len(names) \in (n + 1)..Len(names)
    BY <1>1, <1>3
  <2>2. Len(SubSeq(names, n + 1, Len(names))) = Len(names) - n
    BY <1>1, <2>1
  <2>3. SubSeq(names, n + 1, Len(names)) # << >>
    <3>1. Len(names) - n # 0
      BY <1>1, <1>3
    <3>2. Len(<< >>) = 0
      OBVIOUS
    <3> QED
      BY <2>2, <3>1, <3>2, Zenon
  <2>4. /\ Head(SubSeq(names, n + 1, Len(names))) = names[n + 1]
        /\ Tail(SubSeq(names, n + 1, Len(names))) = SubSeq(names, (n + 1) + 1, Len(names))
    BY <2>1, HeadTailOfSubSeq, Zenon
  <2> QED
    BY <1>3, <2>1, <2>3, <2>4, Zenon
<1> QED
  BY <1>2, <1>3

Same(w) ==
  /\ pc'[w] = pc[w] /\ toCreate'[w] = toCreate[w] /\ found'[w] = found[w]
  /\ pending'[w] = pending[w] /\ dropped'[w] = dropped[w] /\ assigned'[w] = assigned[w]
  /\ excl'[w] = excl[w] /\ shared'[w] = shared[w] /\ why'[w] = why[w]

\* A step of one importer changes nothing of the others.
LEMMA Frame ==
  ASSUME NEW w \in Workers, job' = job, Same(w), Local(w)
  PROVE  Local(w)'
<1>1. ProgressOf(w)'
  <2>1. /\ pc'[w] = pc[w] /\ toCreate'[w] = toCreate[w] /\ found'[w] = found[w]
        /\ pending'[w] = pending[w] /\ dropped'[w] = dropped[w] /\ assigned'[w] = assigned[w]
    BY DEF Same
  <2>2. Working(w)' = Working(w) /\ ProgressOf(w)
    BY <2>1 DEF Local, Working
  <2>3. ASSUME NEW n, Assigned(w, n) PROVE Assigned(w, n)'
    BY <2>1, <2>3 DEF Assigned, Kept, ToRemove, ToCreate
  <2>4. ToRemove(job[w])' = ToRemove(job[w]) /\ ToCreate(job[w])' = ToCreate(job[w])
    BY DEF ToRemove, ToCreate
  <2> QED
    BY <2>1, <2>2, <2>3, <2>4 DEF ProgressOf
<1>2. LocksOf(w)'
  BY DEF Same, Local, LocksOf, Working
<1>3. IdleOf(w)' /\ ResultOf(w)'
  BY DEF Same, Local, IdleOf, ResultOf, Working
<1> QED
  BY <1>1, <1>2, <1>3 DEF Local

\* Every step is the step of one importer.
LEMMA OthersAreTheSame ==
  ASSUME TypeOK, NEW w \in Workers, Statement(w) \/ StatementFails(w)
  PROVE  job' = job /\ \A v \in Workers \ {w} : Same(v)
<1> USE DEF Goto, Unlock, Rollback, Same
<1>1. CASE Begin(w) \/ MergeExisting(w)
  BY <1>1 DEF TypeOK, Begin, MergeExisting
<1>2. CASE Find(w) \/ Create(w)
  BY <1>2 DEF TypeOK, Find, Create
<1>3. CASE AssignToFace(w)
  BY <1>3 DEF TypeOK, AssignToFace
<1>4. CASE Commit(w)
  BY <1>4 DEF TypeOK, Commit
<1>5. CASE AssignTwice(w) \/ DeadlockVictim(w) \/ StatementFails(w)
  BY <1>5 DEF TypeOK, AssignTwice, DeadlockVictim, StatementFails
<1> QED
  BY <1>1, <1>2, <1>3, <1>4, <1>5 DEF Statement

\* With a connection an importer has not changed anything yet.
LEMMA BeginKeeps ==
  ASSUME TypeOK, NEW w \in Workers, Local(w), Begin(w)
  PROVE  Local(w)'
BY DEF TypeOK, Begin, Goto, Local, ProgressOf, LocksOf, IdleOf, ResultOf, Working

\* After the comparison nothing is assigned yet and everything is to be.
LEMMA MergeExistingKeeps ==
  ASSUME TypeOK, NEW w \in Workers, Local(w), MergeExisting(w)
  PROVE  Local(w)'
<1> DEFINE names == ToCreate(job[w])
<1>1. /\ pc[w] = "merge" /\ job' = job
      /\ toCreate'[w] = names /\ dropped'[w] = ToRemove(job[w])
      /\ pc'[w] = IF names = << >> THEN "next" ELSE "find"
      /\ pending'[w] = {} /\ found'[w] = {} /\ excl'[w] = {} /\ shared'[w] = {}
      /\ assigned'[w] = assigned[w] /\ why'[w] = why[w]
  BY DEF TypeOK, MergeExisting, Goto, Local, IdleOf, Working
<1>2. names \in Seq(Names)
  BY JobsAreOK, CompareFacts
<1>3. Assigned(w, 0)'
  <2>1. SubSeq(names, 0 + 1, Len(names)) = names
    BY <1>2
  <2>2. {names[i] : i \in 1..0} = {}
    OBVIOUS
  <2> QED
    BY <1>1, <2>1, <2>2 DEF Assigned, ToCreate, Kept, ToRemove
<1>4. 0 \in 0..Len(names)
  BY <1>2
<1>5. ToCreate(job[w])' = names /\ ToRemove(job[w])' = ToRemove(job[w])
  BY <1>1 DEF ToCreate, ToRemove
<1> HIDE DEF names
<1>6. ProgressOf(w)'
  BY <1>1, <1>3, <1>4, <1>5 DEF ProgressOf, Working
<1>7. LocksOf(w)' /\ IdleOf(w)'
  BY <1>1 DEF LocksOf, IdleOf, Working
<1>8. ResultOf(w)'
  BY <1>1 DEF ResultOf, Local
<1> QED
  BY <1>6, <1>7, <1>8 DEF Local

\* What is found is only remembered.
LEMMA FindKeeps ==
  ASSUME TypeOK, NEW w \in Workers, Local(w), Find(w)
  PROVE  Local(w)'
<1>1. /\ pc[w] = "find" /\ pc'[w] = "next" /\ job' = job
      /\ toCreate' = toCreate /\ pending' = pending /\ dropped' = dropped
      /\ assigned' = assigned /\ excl' = excl /\ shared' = shared /\ why' = why
  BY DEF TypeOK, Find, Goto
<1>2. ProgressOf(w)'
  BY <1>1 DEF Local, ProgressOf, Working, Assigned, Kept, ToCreate, ToRemove
<1>3. LocksOf(w)'
  BY <1>1 DEF Local, ProgressOf, LocksOf, Working
<1>4. IdleOf(w)' /\ ResultOf(w)'
  BY <1>1 DEF Local, IdleOf, ResultOf, Working
<1> QED
  BY <1>2, <1>3, <1>4 DEF Local

\* The name that is created comes next, and is locked.
LEMMA CreateKeeps ==
  ASSUME TypeOK, NEW w \in Workers, Local(w), Create(w)
  PROVE  Local(w)'
<1>1. /\ pc[w] = "next" /\ pc'[w] = "assign" /\ job' = job /\ toCreate[w] # << >>
      /\ excl'[w] = excl[w] \cup {Head(toCreate[w])}
      /\ toCreate' = toCreate /\ pending' = pending /\ dropped' = dropped /\ found' = found
      /\ assigned' = assigned /\ shared' = shared /\ why' = why
  BY DEF TypeOK, Create, Creates, Goto
<1>2. ProgressOf(w)'
  <2>1. ProgressOf(w) /\ Working(w) /\ Working(w)'
    BY <1>1 DEF Local, Working
  <2>2. ASSUME NEW n, Assigned(w, n) PROVE Assigned(w, n)'
    BY <1>1, <2>2 DEF Assigned, Kept, ToRemove, ToCreate
  <2>3. ToRemove(job[w])' = ToRemove(job[w]) /\ ToCreate(job[w])' = ToCreate(job[w])
    BY <1>1 DEF ToRemove, ToCreate
  <2> QED
    BY <1>1, <2>1, <2>2, <2>3 DEF ProgressOf
<1>3. LocksOf(w)'
  BY <1>1 DEF Local, LocksOf, Working
<1>4. IdleOf(w)' /\ ResultOf(w)'
  BY <1>1 DEF Local, IdleOf, ResultOf, Working
<1> QED
  BY <1>2, <1>3, <1>4 DEF Local

\* The number of names before the one that comes next.
LEMMA NextName ==
  ASSUME TypeOK, NEW w \in Workers, Local(w), Working(w), toCreate[w] # << >>
  PROVE  LET names == ToCreate(job[w])
         IN  /\ names \in Seq(Names)
             /\ \E n \in 0..Len(names) :
                  /\ Assigned(w, n)
                  /\ n + 1 \in 1..Len(names)
                  /\ Head(toCreate[w]) = names[n + 1]
                  /\ Tail(toCreate[w]) = SubSeq(names, (n + 1) + 1, Len(names))
<1> DEFINE names == ToCreate(job[w])
<1>1. names \in Seq(Names)
  BY JobsAreOK, CompareFacts
<1>2. PICK n \in 0..Len(names) : Assigned(w, n)
  BY DEF Local, ProgressOf
<1>3. toCreate[w] = SubSeq(names, n + 1, Len(names))
  BY <1>2 DEF Assigned
<1> HIDE DEF names
<1>4. n # Len(names)
  BY <1>1, <1>3, RestOfNames
<1>5. /\ n + 1 \in 1..Len(names)
      /\ Head(toCreate[w]) = names[n + 1]
      /\ Tail(toCreate[w]) = SubSeq(names, (n + 1) + 1, Len(names))
  BY <1>1, <1>3, <1>4, RestOfNames
<1> QED
  BY <1>1, <1>2, <1>5 DEF names

\* What DeleteAssignments left is what the comparison kept.
LEMMA RemainingIsKept ==
  ASSUME NEW w \in Workers, Local(w), Working(w)
  PROVE  Remaining(w) = Kept(job[w])
BY DEF Local, ProgressOf, ResultOf, Working, Remaining, Kept

\* One more name is assigned, which was not assigned before.
LEMMA AssignToFaceKeeps ==
  ASSUME TypeOK, NEW w \in Workers, Local(w), AssignToFace(w)
  PROVE  Local(w)'
<1> DEFINE names == ToCreate(job[w])
           head == Head(toCreate[w])
<1>1. /\ pc[w] \in {"next", "assign"} /\ pc'[w] = "next" /\ job' = job
      /\ toCreate[w] # << >> /\ toCreate'[w] = Tail(toCreate[w])
      /\ pending'[w] = pending[w] \cup {head} /\ shared'[w] = shared[w] \cup {head}
      /\ head \notin pending[w] \cup Remaining(w)
      /\ pc[w] = "assign" \/ head \in found[w]
      /\ dropped' = dropped /\ found' = found /\ assigned' = assigned
      /\ excl' = excl /\ why' = why
  BY DEF TypeOK, AssignToFace, Assigns, AlreadyAssigned, Goto
<1>2. Working(w)
  BY <1>1 DEF Working
<1>3. names \in Seq(Names)
  BY <1>1, <1>2, NextName
<1>4. PICK n \in 0..Len(names) :
        /\ Assigned(w, n)
        /\ n + 1 \in 1..Len(names)
        /\ head = names[n + 1]
        /\ Tail(toCreate[w]) = SubSeq(names, (n + 1) + 1, Len(names))
  BY <1>1, <1>2, NextName
<1>5. head \notin Kept(job[w])
  BY <1>1, <1>2, RemainingIsKept
<1>6. ToCreate(job[w])' = names /\ ToRemove(job[w])' = ToRemove(job[w]) /\ Kept(job[w])' = Kept(job[w])
  BY <1>1 DEF ToCreate, ToRemove, Kept
<1>7. /\ pending[w] = {names[i] : i \in 1..n}
      /\ \A i, k \in 1..n : names[i] = names[k] => i = k
      /\ \A i \in 1..n : names[i] \notin Kept(job[w])
  BY <1>4 DEF Assigned
<1> HIDE DEF names, head
<1>8. n \in Nat /\ 1..(n + 1) = (1..n) \cup {n + 1}
  BY <1>4
<1>9. Assigned(w, n + 1)'
  <2>1. toCreate'[w] = SubSeq(names, (n + 1) + 1, Len(names))
    BY <1>1, <1>4
  <2>2. pending'[w] = {names[i] : i \in 1..(n + 1)}
    BY <1>1, <1>4, <1>7, <1>8
  <2>3. \A i \in 1..n : names[i] # names[n + 1]
    BY <1>1, <1>4, <1>7
  <2>4. \A i, k \in 1..(n + 1) : names[i] = names[k] => i = k
    BY <1>7, <1>8, <2>3
  <2>5. \A i \in 1..(n + 1) : names[i] \notin Kept(job[w])
    BY <1>4, <1>5, <1>7, <1>8
  <2> QED
    BY <1>6, <2>1, <2>2, <2>4, <2>5 DEF Assigned
<1>10. n + 1 \in 0..Len(names)
  BY <1>4, <1>8
<1>11. ProgressOf(w)'
  <2>1. dropped[w] = ToRemove(job[w])
    BY <1>2 DEF Local, ProgressOf
  <2> QED
    BY <1>1, <1>6, <1>9, <1>10, <2>1 DEF ProgressOf
<1>12. LocksOf(w)'
  BY <1>1, <1>2 DEF Local, LocksOf, Working, head
<1>13. IdleOf(w)' /\ ResultOf(w)'
  BY <1>1 DEF Local, IdleOf, ResultOf, Working
<1> QED
  BY <1>11, <1>12, <1>13 DEF Local

\* With everything assigned the face has the types of the list.
LEMMA CommitKeeps ==
  ASSUME TypeOK, NEW w \in Workers, Local(w), Commit(w)
  PROVE  /\ Local(w)'
         /\ NoRepeat(job[w].list)
         /\ ToSet(job[w].list) = Kept(job[w]) \cup pending[w]
<1> DEFINE names == ToCreate(job[w])
<1>1. /\ pc[w] = "next" /\ pc'[w] = "done" /\ job' = job /\ toCreate[w] = << >>
      /\ assigned'[w] = Remaining(w) \cup pending[w]
      /\ excl'[w] = {} /\ shared'[w] = {} /\ why' = why
  BY DEF TypeOK, Commit, Unlock, Goto
<1>2. /\ names \in Seq(Names)
      /\ ToSet(names) \cup Kept(job[w]) = ToSet(job[w].list)
      /\ NoRepeat(job[w].list) <=> NoRepeat(names) /\ ToSet(names) \cap Kept(job[w]) = {}
  BY JobsAreOK, CompareFacts
<1>3. Remaining(w) = Kept(job[w])
  BY <1>1, RemainingIsKept DEF Working
<1>4. PICK n \in 0..Len(names) : Assigned(w, n)
  BY <1>1 DEF Local, ProgressOf, Working
<1>5. /\ toCreate[w] = SubSeq(names, n + 1, Len(names))
      /\ pending[w] = {names[i] : i \in 1..n}
      /\ \A i, k \in 1..n : names[i] = names[k] => i = k
      /\ \A i \in 1..n : names[i] \notin Kept(job[w])
  BY <1>4 DEF Assigned
<1> HIDE DEF names
<1>6. n = Len(names)
  BY <1>1, <1>2, <1>5, RestOfNames
<1>7. ToSet(names) = pending[w] /\ NoRepeat(names) /\ pending[w] \cap Kept(job[w]) = {}
  BY <1>2, <1>5, <1>6 DEF ToSet, NoRepeat
<1>8. ToSet(job[w].list) = Kept(job[w]) \cup pending[w] /\ NoRepeat(job[w].list)
  BY <1>2, <1>7
<1>9. ResultOf(w)'
  BY <1>1, <1>3, <1>8 DEF Local, ResultOf
<1>10. ProgressOf(w)' /\ LocksOf(w)' /\ IdleOf(w)'
  BY <1>1 DEF ProgressOf, LocksOf, IdleOf, Working
<1> QED
  BY <1>8, <1>9, <1>10 DEF Local

\* A failed importer leaves the face as it was.
LEMMA RollbackKeeps ==
  ASSUME TypeOK, NEW w \in Workers, Local(w), InTransaction(w), NEW reason,
         Rollback(w, reason), reason = "duplicate" => ~ NoRepeat(job[w].list)
  PROVE  Local(w)'
<1>1. /\ pc[w] \in {"merge", "find", "next", "assign"} /\ pc'[w] = "failed" /\ job' = job
      /\ assigned' = assigned /\ excl'[w] = {} /\ shared'[w] = {} /\ why'[w] = reason
  BY DEF TypeOK, Rollback, Unlock, Goto, InTransaction
<1>2. ResultOf(w)'
  BY <1>1 DEF Local, ResultOf
<1>3. ProgressOf(w)' /\ LocksOf(w)' /\ IdleOf(w)'
  BY <1>1 DEF ProgressOf, LocksOf, IdleOf, Working
<1> QED
  BY <1>2, <1>3 DEF Local

\* A name that is assigned already is repeated in the list: what the comparison
\* kept is not to be created.
LEMMA AssignTwiceKeeps ==
  ASSUME TypeOK, NEW w \in Workers, Local(w), AssignTwice(w)
  PROVE  Local(w)'
<1> DEFINE names == ToCreate(job[w])
           head == Head(toCreate[w])
<1>1. /\ Working(w) /\ InTransaction(w) /\ toCreate[w] # << >>
      /\ head \in pending[w] \cup Remaining(w)
      /\ Rollback(w, "duplicate")
  BY DEF AssignTwice, Assigns, AlreadyAssigned, Working, InTransaction
<1>2. /\ names \in Seq(Names)
      /\ NoRepeat(job[w].list) <=> NoRepeat(names) /\ ToSet(names) \cap Kept(job[w]) = {}
  BY JobsAreOK, CompareFacts
<1>3. PICK n \in 0..Len(names) :
        /\ Assigned(w, n)
        /\ n + 1 \in 1..Len(names)
        /\ head = names[n + 1]
  BY <1>1, NextName
<1>4. pending[w] = {names[i] : i \in 1..n}
  BY <1>3 DEF Assigned
<1>5. Remaining(w) = Kept(job[w])
  BY <1>1, RemainingIsKept
<1> HIDE DEF names, head
<1>6. ~ NoRepeat(job[w].list)
  <2>1. CASE head \in pending[w]
    <3>1. PICK i \in 1..n : names[i] = names[n + 1]
      BY <1>3, <1>4, <2>1
    <3>2. i \in DOMAIN names /\ n + 1 \in DOMAIN names /\ i # n + 1
      BY <1>2, <1>3, <3>1
    <3>3. ~ NoRepeat(names)
      BY <3>1, <3>2 DEF NoRepeat
    <3> QED
      BY <1>2, <3>3
  <2>2. CASE head \in Kept(job[w])
    <3>1. head \in ToSet(names)
      BY <1>2, <1>3 DEF ToSet
    <3> QED
      BY <1>2, <2>2, <3>1
  <2> QED
    BY <1>1, <1>5, <2>1, <2>2
<1> QED
  BY <1>1, <1>6, RollbackKeeps

\* Every step keeps what the invariant says of its importer.
LEMMA LocalNext ==
  ASSUME TypeOK, NEW w \in Workers, Local(w), Statement(w) \/ StatementFails(w)
  PROVE  Local(w)'
<1>1. CASE DeadlockVictim(w)
  <2>1. InTransaction(w) /\ Rollback(w, "deadlock")
    BY <1>1 DEF DeadlockVictim, Blockers, Creates, Assigns, InTransaction
  <2> QED
    BY <2>1, RollbackKeeps
<1>2. CASE StatementFails(w)
  <2>1. InTransaction(w) /\ Rollback(w, "failure")
    BY <1>2 DEF StatementFails
  <2> QED
    BY <2>1, RollbackKeeps
<1> QED
  BY <1>1, <1>2, BeginKeeps, MergeExistingKeeps, FindKeeps, CreateKeeps, AssignToFaceKeeps,
     CommitKeeps, AssignTwiceKeeps DEF Statement

-----------------------------------------------------------------------------
(* What it says of several importers. *)

\* A lock is only taken when no lock of another importer excludes it.
LEMMA LocksExcludeNext ==
  ASSUME TypeOK, LocksExclude, NEW w \in Workers, Statement(w) \/ StatementFails(w)
  PROVE  LocksExclude'
<1>1. \A v \in Workers \ {w} : excl'[v] = excl[v] /\ shared'[v] = shared[v]
  BY OthersAreTheSame DEF Same
<1>2. \A v \in Workers \ {w} : /\ excl[v] \cap (excl'[w] \cup shared'[w]) = {}
                               /\ excl'[w] \cap shared[v] = {}
  <2>1. CASE Create(w)
    <3>1. /\ excl'[w] = excl[w] \cup {Head(toCreate[w])} /\ shared' = shared
          /\ Creates(w) /\ Blockers(w) = {}
      BY <2>1 DEF TypeOK, Create
    <3>2. \A v \in Workers \ {w} : Head(toCreate[w]) \notin excl[v] \cup shared[v]
      BY <3>1 DEF Blockers
    <3> QED
      BY <3>1, <3>2 DEF LocksExclude
  <2>2. CASE AssignToFace(w)
    <3>1. /\ shared'[w] = shared[w] \cup {Head(toCreate[w])} /\ excl' = excl
          /\ Assigns(w) /\ Blockers(w) = {}
      BY <2>2 DEF TypeOK, AssignToFace
    <3>2. \A v \in Workers \ {w} : Head(toCreate[w]) \notin excl[v]
      BY <3>1 DEF Blockers
    <3> QED
      BY <3>1, <3>2 DEF LocksExclude
  <2>3. CASE ~ Create(w) /\ ~ AssignToFace(w)
    <3>1. excl'[w] \in {excl[w], {}} /\ shared'[w] \in {shared[w], {}}
      BY <2>3 DEF TypeOK, Statement, StatementFails, Begin, MergeExisting, Find, Commit,
         AssignTwice, DeadlockVictim, Rollback, Unlock
    <3> QED
      BY <3>1 DEF LocksExclude
  <2> QED
    BY <2>1, <2>2, <2>3
<1> QED
  BY <1>1, <1>2 DEF LocksExclude

\* The names that an importer assigns are in the table when it commits.
LEMMA CommitFillsTable ==
  ASSUME TypeOK, TableHasRows, NEW w \in Workers, Local(w), Commit(w)
  PROVE  table' = table \cup ToSet(job[w].list)
<1>1. /\ pc[w] = "next" /\ table' = table \cup excl[w]
  BY DEF Commit
<1>2. pending[w] \subseteq found[w] \cup excl[w] /\ excl[w] \subseteq pending[w]
  BY <1>1 DEF Local, LocksOf, Working
<1>3. ToSet(job[w].list) = Kept(job[w]) \cup pending[w]
  BY CommitKeeps
<1>4. Kept(job[w]) \subseteq table /\ found[w] \subseteq table
  <2>1. Remaining(w) = Kept(job[w])
    BY <1>1, RemainingIsKept DEF Working
  <2> QED
    BY <2>1 DEF TableHasRows, Remaining
<1> QED
  BY <1>1, <1>2, <1>3, <1>4

\* No row leaves the table, and an assignment is committed with its row.
LEMMA TableHasRowsNext ==
  ASSUME TypeOK, TableHasRows, NEW w \in Workers, Local(w), Statement(w) \/ StatementFails(w)
  PROVE  TableHasRows'
<1>1. \A v \in Workers \ {w} : found'[v] = found[v] /\ assigned'[v] = assigned[v]
  BY OthersAreTheSame DEF Same
<1>2. table \subseteq table' /\ found'[w] \subseteq table' /\ assigned'[w] \subseteq table'
  <2>1. CASE Commit(w)
    <3>1. table' = table \cup ToSet(job[w].list) /\ found' = found
      BY <2>1, CommitFillsTable DEF Commit
    <3>2. assigned'[w] = ToSet(job[w].list)
      <4>1. ResultOf(w)' /\ job' = job /\ pc'[w] = "done"
        BY <2>1, CommitKeeps DEF Local, TypeOK, Commit, Goto
      <4> QED
        BY <4>1 DEF ResultOf
    <3> QED
      BY <3>1, <3>2 DEF TableHasRows
  <2>2. CASE Find(w)
    <3>1. found'[w] = ToSet(toCreate[w]) \cap table /\ table' = table /\ assigned' = assigned
      BY <2>2 DEF TypeOK, Find
    <3> QED
      BY <3>1 DEF TableHasRows
  <2>3. CASE ~ Commit(w) /\ ~ Find(w)
    <3>1. table' = table /\ assigned' = assigned /\ found' = found
      BY <2>3 DEF Statement, StatementFails, Begin, MergeExisting, Create, AssignToFace,
         AssignTwice, DeadlockVictim, Rollback
    <3> QED
      BY <3>1 DEF TableHasRows
  <2> QED
    BY <2>1, <2>2, <2>3
<1> QED
  BY <1>1, <1>2 DEF TableHasRows

-----------------------------------------------------------------------------
(* Deadlocks. *)

\* In a common order of the names, an importer that waits and one that it waits
\* for, if that one waits too, wait for different names, the other for a greater:
\* what it has locked comes before what it waits for.
LEMMA WaitsForAGreaterName ==
  ASSUME TypeOK, LocksExclude, NEW v \in Workers, Local(v),
         NEW rank \in [Names -> Names], OrderOfAll(rank),
         NEW w \in Workers, v \in Blockers(w), Blockers(v) # {}
  PROVE  /\ Head(toCreate[w]) \in Names /\ Head(toCreate[v]) \in Names
         /\ rank[Head(toCreate[w])] < rank[Head(toCreate[v])]
<1> DEFINE h == Head(toCreate[w])
           k == Head(toCreate[v])
           names == ToCreate(job[v])
<1>1. /\ v # w /\ h \in excl[v] \cup shared[v]
      /\ toCreate[w] # << >>
  BY DEF Blockers, Creates, Assigns
<1>2. /\ pc[v] \in {"next", "assign"} /\ toCreate[v] # << >>
      /\ pc[v] = "next" \/ pc[v] = "assign"
  BY DEF Blockers, Creates, Assigns
<1>3. PICK u \in Workers \ {v} : \/ Creates(v) /\ k \in excl[u] \cup shared[u]
                                 \/ Assigns(v) /\ k \in excl[u]
  BY DEF Blockers
<1>4. /\ excl[v] \cap (excl[u] \cup shared[u]) = {}
      /\ excl[u] \cap (excl[v] \cup shared[v]) = {}
  BY DEF LocksExclude
<1>5. pc[v] = "next"
  <2>1. pc[v] = "assign" => k \in excl[v]
    BY DEF Local, LocksOf, Working
  <2>2. pc[v] = "assign" => k \in excl[u]
    BY <1>3 DEF Creates
  <2> QED
    BY <1>2, <1>4, <2>1, <2>2
<1>6. /\ shared[v] = pending[v] /\ excl[v] \subseteq pending[v]
      /\ pending[v] \subseteq found[v] \cup excl[v]
  BY <1>5 DEF Local, LocksOf, Working
<1>7. h # k
  <2> SUFFICES ASSUME h = k PROVE FALSE
    OBVIOUS
  <2>1. k \in shared[v]
    BY <1>1, <1>6
  <2>2. Creates(v) => k \in excl[v]
    BY <1>6, <2>1 DEF Creates
  <2> QED
    BY <1>3, <1>4, <2>1, <2>2
<1>8. /\ names \in Seq(Names)
      /\ \E n \in 0..Len(names) :
           /\ Assigned(v, n)
           /\ n + 1 \in 1..Len(names)
           /\ k = names[n + 1]
  BY <1>2, NextName DEF Working
<1>9. PICK n \in 0..Len(names) :
        /\ Assigned(v, n)
        /\ n + 1 \in 1..Len(names)
        /\ k = names[n + 1]
  BY <1>8
<1>10. pending[v] = {names[i] : i \in 1..n}
  BY <1>9 DEF Assigned
<1>11. \A i, l \in DOMAIN names : i < l /\ names[i] # names[l] => rank[names[i]] < rank[names[l]]
  BY DEF OrderOfAll
<1> HIDE DEF h, k, names
<1>12. PICK i \in 1..n : names[i] = h
  BY <1>1, <1>6, <1>10
<1>13. i \in DOMAIN names /\ n + 1 \in DOMAIN names /\ i < n + 1
  BY <1>8, <1>9, <1>12
<1>14. rank[h] < rank[k]
  BY <1>7, <1>9, <1>11, <1>12, <1>13
<1>15. h \in Names /\ k \in Names
  BY <1>8, <1>9, <1>12, <1>13
<1> QED
  BY <1>14, <1>15 DEF h, k

\* So with a common order no importer waits for itself.
LEMMA CommonOrderPreventsDeadlock ==
  ASSUME TypeOK, \A v \in Workers : Local(v), LocksExclude,
         NEW rank \in [Names -> Names], OrderOfAll(rank),
         NEW w \in Workers, Blockers(w) # {}
  PROVE  ~ Deadlocked(w)
<1> DEFINE Ahead(v) == Blockers(v) = {} \/ rank[Head(toCreate[w])] < rank[Head(toCreate[v])]
           C == {v \in Workers : Ahead(v)}
<1>1. \A v \in Workers : Blockers(v) \subseteq Workers
  BY DEF Blockers
<1>2. PICK u \in Blockers(w) : TRUE
  OBVIOUS
<1>3. Head(toCreate[w]) \in Names /\ rank[Head(toCreate[w])] \in Nat
  <2>1. toCreate[w] \in Seq(Names) /\ toCreate[w] # << >>
    BY <1>2 DEF TypeOK, Blockers, Creates, Assigns
  <2>2. Head(toCreate[w]) \in Names
    BY <2>1
  <2> QED
    BY <2>2, TypeAssignmentAssumption
<1>4. Blockers(w) \subseteq C
  BY <1>1, WaitsForAGreaterName
<1>5. ASSUME NEW v \in C, NEW x \in Blockers(v) PROVE x \in C
  <2>1. v \in Workers /\ x \in Workers /\ Ahead(v) /\ Blockers(v) # {}
    BY <1>1, <1>5
  <2>2. CASE Blockers(x) = {}
    BY <2>1, <2>2
  <2>3. CASE Blockers(x) # {}
    <3>1. /\ Head(toCreate[v]) \in Names /\ Head(toCreate[x]) \in Names
          /\ rank[Head(toCreate[v])] < rank[Head(toCreate[x])]
      BY <2>1, <2>3, <1>5, WaitsForAGreaterName
    <3>2. rank[Head(toCreate[v])] \in Nat /\ rank[Head(toCreate[x])] \in Nat
      BY <3>1, TypeAssignmentAssumption
    <3>3. rank[Head(toCreate[w])] < rank[Head(toCreate[v])]
      BY <2>1
    <3>4. rank[Head(toCreate[w])] < rank[Head(toCreate[x])]
      BY <1>3, <3>1, <3>2, <3>3
    <3> QED
      BY <2>1, <3>4
  <2> QED
    BY <2>2, <2>3
<1>6. w \notin C
  BY <1>3
<1>7. C \in SUBSET Workers
  OBVIOUS
<1> HIDE DEF C
<1> QED
  BY <1>4, <1>5, <1>6, <1>7 DEF Deadlocked

\* An importer is made a victim only where there is no common order.
LEMMA VictimsNext ==
  ASSUME TypeOK, \A v \in Workers : Local(v), LocksExclude, VictimsHaveNoCommonOrder,
         NEW w \in Workers, Statement(w) \/ StatementFails(w)
  PROVE  VictimsHaveNoCommonOrder'
<1>1. job' = job /\ \A v \in Workers \ {w} : why'[v] = why[v]
  BY OthersAreTheSame DEF Same
<1>2. \A rank : OrderOfAll(rank)' <=> OrderOfAll(rank)
  BY <1>1 DEF OrderOfAll, ToCreate
<1>3. CASE DeadlockVictim(w)
  <2>1. Blockers(w) # {} /\ Deadlocked(w)
    BY <1>3 DEF DeadlockVictim
  <2>2. ~ \E rank \in [Names -> Names] : OrderOfAll(rank)
    BY <2>1, CommonOrderPreventsDeadlock
  <2> QED
    BY <1>2, <2>2 DEF VictimsHaveNoCommonOrder
<1>4. CASE ~ DeadlockVictim(w)
  <2>1. why'[w] \in {why[w], "duplicate", "failure"}
    BY <1>4 DEF TypeOK, Statement, StatementFails, Begin, MergeExisting, Find, Create,
       AssignToFace, Commit, AssignTwice, Rollback
  <2>2. (\E v \in Workers : why'[v] = "deadlock") => \E v \in Workers : why[v] = "deadlock"
    BY <1>1, <2>1
  <2> QED
    BY <1>2, <2>2 DEF VictimsHaveNoCommonOrder
<1> QED
  BY <1>3, <1>4

-----------------------------------------------------------------------------
(* The invariant, and what follows from it. *)

\* The invariant holds initially.
LEMMA InvInit == Init => IInv
<1> SUFFICES ASSUME Init PROVE IInv
  OBVIOUS
<1>1. TypeOK
  BY TypeInit
<1>2. ASSUME NEW w \in Workers PROVE Local(w)
  BY DEF Init, Local, ProgressOf, LocksOf, IdleOf, ResultOf, Working
<1>3. LocksExclude /\ TableHasRows /\ VictimsHaveNoCommonOrder
  BY DEF Init, LocksExclude, TableHasRows, VictimsHaveNoCommonOrder
<1> QED
  BY <1>1, <1>2, <1>3 DEF IInv

\* The invariant is inductive.
LEMMA InvNext == IInv /\ [Next]_vars => IInv'
<1> SUFFICES ASSUME IInv, [Next]_vars PROVE IInv'
  OBVIOUS
<1>1. TypeOK'
  BY TypeNext DEF IInv
<1>2. ASSUME NEW w \in Workers, Statement(w) \/ StatementFails(w) PROVE IInv'
  <2>1. \A v \in Workers : Local(v)'
    <3> SUFFICES ASSUME NEW v \in Workers PROVE Local(v)'
      OBVIOUS
    <3>1. CASE v = w
      BY <1>2, <3>1, LocalNext DEF IInv
    <3>2. CASE v # w
      BY <1>2, <3>2, OthersAreTheSame, Frame DEF IInv
    <3> QED
      BY <3>1, <3>2
  <2>2. LocksExclude' /\ TableHasRows' /\ VictimsHaveNoCommonOrder'
    BY <1>2, LocksExcludeNext, TableHasRowsNext, VictimsNext DEF IInv
  <2> QED
    BY <1>1, <2>1, <2>2 DEF IInv
<1>3. CASE UNCHANGED vars
  <2>1. job' = job /\ \A v \in Workers : Same(v)
    BY <1>3 DEF vars, Same
  <2>2. \A v \in Workers : Local(v)'
    BY <2>1, Frame DEF IInv
  <2>3. LocksExclude' /\ TableHasRows'
    BY <1>3 DEF IInv, vars, LocksExclude, TableHasRows
  <2>4. VictimsHaveNoCommonOrder'
    BY <1>3 DEF IInv, vars, VictimsHaveNoCommonOrder, OrderOfAll, ToCreate
  <2> QED
    BY <1>1, <2>2, <2>3, <2>4 DEF IInv
<1> QED
  BY <1>2, <1>3 DEF Next, Ended

\* The inductive invariant holds in every reachable state.
LEMMA Invariant == Spec => []IInv
BY InvInit, InvNext, PTL DEF Spec

\* A face has the types it had or all those of the data set.
THEOREM NeverAPart == Spec => []AllOrNothing
<1>1. IInv => AllOrNothing
  BY DEF IInv, Local, ResultOf, AllOrNothing
<1> QED
  BY <1>1, Invariant, PTL

\* An assignment never rests on a row that another importer may roll back.
THEOREM AssignedRowsStay == Spec => []NoDanglingAssignment
<1>1. IInv => NoDanglingAssignment
  <2> SUFFICES ASSUME IInv, NEW w \in Workers
               PROVE  /\ assigned[w] \subseteq table
                      /\ InTransaction(w) => pending[w] \subseteq table \cup excl[w]
    BY DEF NoDanglingAssignment
  <2>1. found[w] \subseteq table /\ assigned[w] \subseteq table
    BY DEF IInv, TableHasRows
  <2>2. Working(w) => pending[w] \subseteq found[w] \cup excl[w]
    BY DEF IInv, Local, LocksOf
  <2>3. pc[w] = "merge" => pending[w] = {}
    BY DEF IInv, Local, IdleOf
  <2> QED
    BY <2>1, <2>2, <2>3 DEF InTransaction, Working
<1> QED
  BY <1>1, Invariant, PTL

\* A deadlock needs lists that no one order sorts.
THEOREM OrderedListsDoNotDeadlock == Spec => []VictimsHaveNoCommonOrder
<1>1. IInv => VictimsHaveNoCommonOrder
  BY DEF IInv
<1> QED
  BY <1>1, Invariant, PTL

\* Only a list that repeats a type fails on a repeated type.
THEOREM OnlyOwnDuplicatesFail == Spec => []DuplicatesAreInTheList
<1>1. IInv => DuplicatesAreInTheList
  <2> SUFFICES ASSUME IInv, NEW w \in Workers, why[w] = "duplicate"
               PROVE  Cardinality(ToSet(job[w].list)) < Len(job[w].list)
    BY DEF DuplicatesAreInTheList
  <2>1. ~ NoRepeat(job[w].list)
    BY DEF IInv, Local, ResultOf
  <2>2. job[w].list \in Seq(Names)
    BY JobsAreOK DEF IInv, JobOK, JobType
  <2>3. /\ Cardinality(ToSet(job[w].list)) \in Nat /\ Len(job[w].list) \in Nat
        /\ Cardinality(ToSet(job[w].list)) <= Len(job[w].list)
        /\ Cardinality(ToSet(job[w].list)) # Len(job[w].list)
    BY <2>1, <2>2, LengthOfNoRepeat
  <2> QED
    BY <2>3
<1> QED
  BY <1>1, Invariant, PTL

-----------------------------------------------------------------------------
(* The steps of all importers together look like steps that each importer  *)
(* takes alone, at once.                                                   *)

\* Initially nothing is merged, in both.
LEMMA RefinedInit == Init => Atomic!Init
<1> SUFFICES ASSUME Init PROVE Atomic!Init
  OBVIOUS
<1>1. table = UNION {assigned[w] : w \in DOMAIN assigned}
  BY DEF Init
<1>2. \A w \in Workers : pc[w] = "begin"
  BY DEF Init
<1> QED
  BY <1>1, <1>2 DEF Atomic!Init

\* The commit is where the types are merged, and a rollback where the importer is
\* refused; no other step shows.
LEMMA RefinedNext == IInv /\ [Next]_vars => [Atomic!Next]_(Atomic!vars)
<1> DEFINE L == [w \in Workers |-> job[w].list]
           P == [w \in Workers |-> IF pc[w] \in {"done", "failed"} THEN pc[w] ELSE "open"]
<1> SUFFICES ASSUME IInv, [Next]_vars PROVE [Atomic!Next]_(Atomic!vars)
  OBVIOUS
<1>1. ASSUME NEW w \in Workers, Statement(w) \/ StatementFails(w)
      PROVE  [Atomic!Next]_(Atomic!vars)
  <2>1. /\ job' = job /\ \A v \in Workers \ {w} : Same(v)
        /\ pc \in [Workers -> {"begin", "merge", "find", "next", "assign", "done", "failed"}]
        /\ assigned \in [Workers -> SUBSET Names] /\ assigned' \in [Workers -> SUBSET Names]
    BY <1>1, OthersAreTheSame, TypeNext DEF IInv, TypeOK
  <2>2. L' = L
    BY <2>1
  <2>3. CASE Commit(w)
    <3>1. pc[w] = "next" /\ pc'[w] = "done"
      BY <2>1, <2>3 DEF Commit, Goto
    <3>2. NoRepeat(job[w].list) /\ ResultOf(w)'
      BY <2>3, CommitKeeps DEF IInv, Local
    <3>3. table' = table \cup ToSet(job[w].list)
      BY <2>3, CommitFillsTable DEF IInv
    <3>4. L[w] = job[w].list /\ L[w] \in Seq(Names)
      BY JobsAreOK DEF IInv, JobOK, JobType
    <3>5. Atomic!NamesOf(w) = ToSet(job[w].list)
      BY <3>4 DEF Atomic!NamesOf, ToSet
    <3>6. Atomic!Cardinality(Atomic!NamesOf(w)) = Len(L[w])
      <4>1. Cardinality(ToSet(job[w].list)) = Len(job[w].list)
        BY <3>2, <3>4, LengthOfNoRepeat
      <4> QED
        BY <3>4, <3>5, <4>1 DEF Cardinality, Atomic!Cardinality
    <3>7. assigned' = [assigned EXCEPT ![w] = Atomic!NamesOf(w)]
      BY <2>1, <3>1, <3>2, <3>5 DEF Same, ResultOf
    <3>8. P' = [P EXCEPT ![w] = "done"] /\ P[w] = "open"
      BY <2>1, <3>1 DEF Same
    <3>9. Atomic!Merge(w)
      BY <2>2, <3>3, <3>5, <3>6, <3>7, <3>8 DEF Atomic!Merge
    <3> QED
      BY <3>9 DEF Atomic!Next
  <2>4. CASE \E reason : Rollback(w, reason) /\ InTransaction(w)
    <3>1. pc[w] \notin {"done", "failed"} /\ pc'[w] = "failed" /\ assigned' = assigned /\ table' = table
      BY <2>1, <2>4 DEF Rollback, Goto, InTransaction
    <3>2. P' = [P EXCEPT ![w] = "failed"] /\ P[w] = "open"
      BY <2>1, <3>1 DEF Same
    <3>3. Atomic!Refuse(w)
      BY <2>2, <3>1, <3>2 DEF Atomic!Refuse
    <3> QED
      BY <3>3 DEF Atomic!Next
  <2>5. CASE Begin(w) \/ MergeExisting(w) \/ Find(w) \/ Create(w) \/ AssignToFace(w)
    <3>1. /\ pc[w] \notin {"done", "failed"} /\ pc'[w] \notin {"done", "failed"}
          /\ assigned' = assigned /\ table' = table
      BY <2>1, <2>5 DEF Begin, MergeExisting, Find, Create, AssignToFace, Creates, Assigns, Goto
    <3>2. P' = P
      BY <2>1, <3>1 DEF Same
    <3> QED
      BY <2>2, <3>1, <3>2 DEF Atomic!vars
  <2>6. AssignTwice(w) \/ DeadlockVictim(w) \/ StatementFails(w) =>
          \E reason : Rollback(w, reason) /\ InTransaction(w)
    BY DEF AssignTwice, DeadlockVictim, StatementFails, Assigns, Creates, Blockers, InTransaction
  <2> QED
    BY <1>1, <2>3, <2>4, <2>5, <2>6 DEF Statement
<1>2. CASE UNCHANGED vars
  BY <1>2 DEF vars, Atomic!vars
<1> QED
  BY <1>1, <1>2 DEF Next, Ended

\* The concurrent merge implements the merge in one step.
THEOREM MergeIsAtomic == Spec => ImplementsAtomicMerge
<1> QED
  BY RefinedInit, RefinedNext, Invariant, PTL DEF Spec, ImplementsAtomicMerge, Atomic!Spec
=============================================================================
