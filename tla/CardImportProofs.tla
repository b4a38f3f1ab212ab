--------------------------- MODULE CardImportProofs ---------------------------
(***************************************************************************)
(* Proofs about CardImport for any cards, any number of imports of any     *)
(* data sets, and crashes and failures between any two transactions.       *)
(***************************************************************************)
EXTENDS CardImport, SliceOpsProofs

-----------------------------------------------------------------------------
(* Matching the faces of the database with the incoming ones. *)

Matched(ff) == [left : Seq(DOMAIN ff), kept : SUBSET ((DOMAIN ff) \X Nat), gone : SUBSET Nat]

KeepsFace(m, k) == \E id \in Nat : <<k, id>> \in m.kept
KeepsRow(ff, m, id) == \E k \in DOMAIN ff : <<k, id>> \in m.kept

(***************************************************************************)
(* What the merge knows after the rows R: an incoming face is left over or *)
(* has got the id of one row that is the same face, a row has given its id *)
(* to one face or is to go, and one that goes is none of the faces left.   *)
(***************************************************************************)
Matching(ff, R, m) ==
  /\ m \in Matched(ff)
  /\ NoRepeat(m.left)
  /\ \A k \in DOMAIN ff : k \in ToSet(m.left) <=> ~ KeepsFace(m, k)
  /\ \A p, q \in m.kept : p[1] = q[1] \/ p[2] = q[2] => p = q
  /\ \A p \in m.kept : \E r \in R : r.id = p[2] /\ r.ident = ff[p[1]].ident
  /\ \A id \in m.gone : \E r \in R : r.id = id
  /\ \A r \in R : r.id \in m.gone <=> ~ KeepsRow(ff, m, r.id)
  /\ \A r \in R : r.id \in m.gone => \A k \in ToSet(m.left) : ff[k].ident # r.ident

\* containsFace finds a face that is the same, if there is one.
LEMMA ContainsFaceFacts ==
  ASSUME NEW ff, NEW s \in Seq(DOMAIN ff), NEW row
  PROVE  LET i == ContainsFace(ff, s, row)
         IN  IF \E k \in ToSet(s) : ff[k].ident = row.ident
             THEN i \in 1..Len(s) /\ ff[s[i]].ident = row.ident
             ELSE i = 0
<1> DEFINE I == {i \in 1..Len(s) : IsSame(ff[s[i]], row)}
           i == ContainsFace(ff, s, row)
<1>1. i = IF I # {} THEN Min(I) ELSE 0
  BY DEF ContainsFace, SelectInSeq
<1>2. (\E k \in ToSet(s) : ff[k].ident = row.ident) <=> I # {}
  BY DEF IsSame, ToSet
<1>3. I # {} => Min(I) \in I
  <2> SUFFICES ASSUME I # {} PROVE Min(I) \in I
    OBVIOUS
  <2>1. \E m \in I : \A k \in I : m <= k
    <3>1. I \in SUBSET Nat
      OBVIOUS
    <3> QED
      BY <3>1, Least
  <2> QED
    BY <2>1 DEF Min
<1>4. \A x \in I : x \in 1..Len(s) /\ ff[s[x]].ident = row.ident
  BY DEF IsSame
<1> HIDE DEF I
<1>5. CASE \E k \in ToSet(s) : ff[k].ident = row.ident
  BY <1>1, <1>2, <1>3, <1>4, <1>5, Zenon
<1>6. CASE ~ \E k \in ToSet(s) : ff[k].ident = row.ident
  BY <1>1, <1>2, <1>6, Zenon
<1> QED
  BY <1>5, <1>6, Zenon

\* MatchFace keeps or removes the row, as some face left is the same or none.
LEMMA MatchFaceCases ==
  ASSUME NEW ff, NEW acc \in Matched(ff), NEW row, row.id \in Nat
  PROVE  LET m == MatchFace(ff, acc, row)
         IN  /\ m \in Matched(ff)
             /\ \/ /\ \A k \in ToSet(acc.left) : ff[k].ident # row.ident
                   /\ m = [acc EXCEPT !.gone = @ \cup {row.id}]
                \/ \E i \in 1..Len(acc.left) :
                     /\ ff[acc.left[i]].ident = row.ident
                     /\ m.left = RemoveSwap(acc.left, i)
                     /\ m.kept = acc.kept \cup {<<acc.left[i], row.id>>}
                     /\ m.gone = acc.gone
<1> DEFINE m == MatchFace(ff, acc, row)
           i == ContainsFace(ff, acc.left, row)
<1>1. /\ acc.left \in Seq(DOMAIN ff) /\ acc.kept \in SUBSET ((DOMAIN ff) \X Nat)
      /\ acc.gone \in SUBSET Nat
      /\ acc = [left |-> acc.left, kept |-> acc.kept, gone |-> acc.gone]
  BY DEF Matched
<1>2. IF \E k \in ToSet(acc.left) : ff[k].ident = row.ident
      THEN i \in 1..Len(acc.left) /\ ff[acc.left[i]].ident = row.ident
      ELSE i = 0
  BY <1>1, ContainsFaceFacts
<1>3. m = IF i = 0
          THEN [acc EXCEPT !.gone = @ \cup {row.id}]
          ELSE [acc EXCEPT !.kept = @ \cup {<<acc.left[i], row.id>>},
                           !.left = RemoveSwap(@, i)]
  BY DEF MatchFace
<1> HIDE DEF m, i
<1>4. CASE i = 0
  <2>1. m = [acc EXCEPT !.gone = @ \cup {row.id}]
    BY <1>3, <1>4
  <2>2. m \in Matched(ff)
    BY <1>1, <2>1 DEF Matched
  <2>3. \A k \in ToSet(acc.left) : ff[k].ident # row.ident
    BY <1>2, <1>4
  <2> QED
    BY <2>1, <2>2, <2>3 DEF m
<1>5. CASE i # 0
  <2>1. i \in 1..Len(acc.left) /\ ff[acc.left[i]].ident = row.ident
    BY <1>2, <1>5
  <2>2. m = [acc EXCEPT !.kept = @ \cup {<<acc.left[i], row.id>>},
                        !.left = RemoveSwap(@, i)]
    BY <1>3, <1>5
  <2>3. /\ m.left = RemoveSwap(acc.left, i)
        /\ m.kept = acc.kept \cup {<<acc.left[i], row.id>>}
        /\ m.gone = acc.gone
        /\ m = [left |-> m.left, kept |-> m.kept, gone |-> m.gone]
    BY <1>1, <2>2
  <2>4. RemoveSwap(acc.left, i) \in Seq(DOMAIN ff)
    BY <1>1, <2>1, RemoveSwapFacts
  <2>5. acc.left[i] \in DOMAIN ff
    BY <1>1, <2>1
  <2>6. m \in Matched(ff)
    BY <1>1, <2>3, <2>4, <2>5 DEF Matched
  <2> QED
    BY <2>1, <2>3, <2>6 DEF m
<1> QED
  BY <1>4, <1>5

\* One more row.
LEMMA MatchFaceFacts ==
  ASSUME NEW ff, NEW R, NEW acc, Matching(ff, R, acc),
         NEW row, row.id \in Nat, \A r \in R : r.id # row.id
  PROVE  Matching(ff, R \cup {row}, MatchFace(ff, acc, row))
<1> DEFINE m == MatchFace(ff, acc, row)
           Q == R \cup {row}
<1>1. /\ acc \in Matched(ff)
      /\ NoRepeat(acc.left)
      /\ \A k \in DOMAIN ff : k \in ToSet(acc.left) <=> ~ KeepsFace(acc, k)
      /\ \A p, q \in acc.kept : p[1] = q[1] \/ p[2] = q[2] => p = q
      /\ \A p \in acc.kept : \E r \in R : r.id = p[2] /\ r.ident = ff[p[1]].ident
      /\ \A id \in acc.gone : \E r \in R : r.id = id
      /\ \A r \in R : r.id \in acc.gone <=> ~ KeepsRow(ff, acc, r.id)
      /\ \A r \in R : r.id \in acc.gone => \A k \in ToSet(acc.left) : ff[k].ident # r.ident
  BY DEF Matching
<1>2. /\ acc.left \in Seq(DOMAIN ff) /\ acc.kept \in SUBSET ((DOMAIN ff) \X Nat)
      /\ acc.gone \in SUBSET Nat
      /\ acc = [left |-> acc.left, kept |-> acc.kept, gone |-> acc.gone]
  BY <1>1 DEF Matched
<1>3. /\ m \in Matched(ff)
      /\ \/ /\ \A k \in ToSet(acc.left) : ff[k].ident # row.ident
            /\ m = [acc EXCEPT !.gone = @ \cup {row.id}]
         \/ \E i \in 1..Len(acc.left) :
              /\ ff[acc.left[i]].ident = row.ident
              /\ m.left = RemoveSwap(acc.left, i)
              /\ m.kept = acc.kept \cup {<<acc.left[i], row.id>>}
              /\ m.gone = acc.gone
  BY <1>1, MatchFaceCases
<1>4. \A p \in acc.kept : p[2] # row.id
  BY <1>1
<1>5. ~ KeepsRow(ff, acc, row.id)
  BY <1>4 DEF KeepsRow
<1>6. row.id \notin acc.gone
  BY <1>1
<1> HIDE DEF m
<1>7. CASE /\ \A k \in ToSet(acc.left) : ff[k].ident # row.ident
           /\ m = [acc EXCEPT !.gone = @ \cup {row.id}]
  <2>1. m.left = acc.left /\ m.kept = acc.kept /\ m.gone = acc.gone \cup {row.id}
    BY <1>2, <1>7
  <2>2. \A k : KeepsFace(m, k) <=> KeepsFace(acc, k)
    BY <2>1 DEF KeepsFace
  <2>3. \A id : KeepsRow(ff, m, id) <=> KeepsRow(ff, acc, id)
    BY <2>1 DEF KeepsRow
  <2>4. \A r \in Q : r.id \in m.gone <=> ~ KeepsRow(ff, m, r.id)
    BY <1>1, <1>5, <2>1, <2>3
  <2>5. \A r \in Q : r.id \in m.gone => \A k \in ToSet(m.left) : ff[k].ident # r.ident
    BY <1>1, <1>7, <2>1
  <2>6. \A id \in m.gone : \E r \in Q : r.id = id
    BY <1>1, <2>1
  <2>7. \A p \in m.kept : \E r \in Q : r.id = p[2] /\ r.ident = ff[p[1]].ident
    BY <1>1, <2>1
  <2> QED
    BY <1>1, <1>3, <2>1, <2>2, <2>4, <2>5, <2>6, <2>7 DEF Matching, m
<1>8. ASSUME NEW i \in 1..Len(acc.left),
             ff[acc.left[i]].ident = row.ident,
             m.left = RemoveSwap(acc.left, i),
             m.kept = acc.kept \cup {<<acc.left[i], row.id>>},
             m.gone = acc.gone
      PROVE  Matching(ff, Q, m)
  <2> DEFINE l == acc.left[i]
  <2>1. l \in DOMAIN ff /\ l \in ToSet(acc.left)
    BY <1>2 DEF ToSet
  <2>2. /\ NoRepeat(m.left) /\ l \notin ToSet(m.left)
        /\ ToSet(m.left) \cup {l} = ToSet(acc.left)
    BY <1>1, <1>2, <1>8, RemoveSwapNoRepeat, RemoveSwapElements
  <2> HIDE DEF l
  <2>3. m.kept = acc.kept \cup {<<l, row.id>>}
    BY <1>8 DEF l
  <2>4. \A k : KeepsFace(m, k) <=> KeepsFace(acc, k) \/ k = l
    BY <2>3 DEF KeepsFace
  <2>5. \A k \in DOMAIN ff : k \in ToSet(m.left) <=> ~ KeepsFace(m, k)
    BY <1>1, <2>2, <2>4
  <2>6. \A p \in acc.kept : p[1] # l
    <3>1. ~ KeepsFace(acc, l)
      BY <1>1, <2>1
    <3> QED
      BY <1>2, <3>1 DEF KeepsFace
  <2>7. \A p, q \in m.kept : p[1] = q[1] \/ p[2] = q[2] => p = q
    <3>1. ASSUME NEW p \in acc.kept, NEW q \in m.kept \ acc.kept
          PROVE  p[1] # q[1] /\ p[2] # q[2]
      <4>1. q = <<l, row.id>>
        BY <2>3
      <4> QED
        BY <1>4, <2>6, <4>1
    <3>2. \A p, q \in m.kept \ acc.kept : p = q
      BY <2>3
    <3> QED
      BY <1>1, <3>1, <3>2
  <2>8. ff[l].ident = row.ident
    BY <1>8 DEF l
  <2>9. \A p \in m.kept : \E r \in Q : r.id = p[2] /\ r.ident = ff[p[1]].ident
    BY <1>1, <2>3, <2>8
  <2>10. \A id : KeepsRow(ff, m, id) <=> KeepsRow(ff, acc, id) \/ id = row.id
    BY <2>1, <2>3 DEF KeepsRow
  <2>11. \A r \in Q : r.id \in m.gone <=> ~ KeepsRow(ff, m, r.id)
    BY <1>1, <1>6, <1>8, <2>10
  <2>12. \A r \in Q : r.id \in m.gone => \A k \in ToSet(m.left) : ff[k].ident # r.ident
    BY <1>1, <1>6, <1>8, <2>2
  <2>13. \A id \in m.gone : \E r \in Q : r.id = id
    BY <1>1, <1>8
  <2> QED
    BY <1>3, <2>2, <2>5, <2>7, <2>9, <2>11, <2>12, <2>13 DEF Matching
<1> QED
  BY <1>3, <1>7, <1>8 DEF m

\* The merge starts with all faces left over.
LEMMA NoRowYet ==
  ASSUME NEW ff, IsList(ff)
  PROVE  Matching(ff, {}, [left |-> [k \in DOMAIN ff |-> k], kept |-> {}, gone |-> {}])
<1> DEFINE m == [left |-> [k \in DOMAIN ff |-> k], kept |-> {}, gone |-> {}]
<1>1. Len(ff) \in Nat /\ DOMAIN ff = 1..Len(ff)
  BY DEF IsList
<1>2. /\ m.left = [k \in DOMAIN ff |-> k] /\ m.kept = {} /\ m.gone = {}
      /\ m.left \in Seq(DOMAIN ff)
  BY <1>1
<1>3. m \in Matched(ff)
  BY <1>2 DEF Matched
<1> HIDE DEF m
<1>4. NoRepeat(m.left) /\ ToSet(m.left) = DOMAIN ff
  <2>1. DOMAIN m.left = DOMAIN ff /\ \A k \in DOMAIN ff : m.left[k] = k
    BY <1>2
  <2>2. NoRepeat(m.left)
    BY <2>1 DEF NoRepeat
  <2>3. ToSet(m.left) = DOMAIN ff
    BY <2>1 DEF ToSet
  <2> QED
    BY <2>2, <2>3
<1>5. \A k : ~ KeepsFace(m, k)
  BY <1>2 DEF KeepsFace
<1> QED
  BY <1>2, <1>3, <1>4, <1>5 DEF Matching, m

\* All rows, one after the other.
LEMMA MatchFacesFacts ==
  ASSUME NEW ff, IsList(ff), NEW R, NEW rows \in Seq(R), NoRepeat(rows),
         \A r \in R : r.id \in Nat, \A r, s \in R : r.id = s.id => r = s
  PROVE  Matching(ff, ToSet(rows), MatchFaces(ff, rows))
<1> DEFINE n == Len(rows)
           S == Matched(ff)
           start == [left |-> [k \in DOMAIN ff |-> k], kept |-> {}, gone |-> {}]
           step == [x \in S \X (1..n) |-> MatchFace(ff, x[1], rows[x[2]])]
           Walk(g) == g = [i \in 0..n |-> IF i = 0 THEN start
                                          ELSE MatchFace(ff, g[i - 1], rows[i])]
           found == CHOOSE g : Walk(g)
<1>1. n \in Nat /\ DOMAIN rows = 1..n /\ \A i \in 1..n : rows[i] \in R
  OBVIOUS
<1>2. MatchFaces(ff, rows) = found[n]
  BY DEF MatchFaces
<1>3. step \in [S \X (1..n) -> S]
  <2> SUFFICES ASSUME NEW x \in S, NEW i \in 1..n PROVE MatchFace(ff, x, rows[i]) \in S
    OBVIOUS
  <2> QED
    BY <1>1, MatchFaceCases
<1>4. start \in S /\ Matching(ff, {}, start)
  BY NoRowYet DEF Matching
<1>5. PICK f : IteratesTo(n, f, S, start, step)
  <2> HIDE DEF step, n, S, start
  <2> QED
    BY <1>1, <1>3, <1>4, BoundedRecursion
<1> HIDE DEF start
<1>6. /\ f \in [0..n -> S] /\ f[0] = start
      /\ \A i \in 1..n : f[i] = MatchFace(ff, f[i - 1], rows[i])
  <2>1. f \in [0..n -> S] /\ f[0] = start /\ \A i \in 1..n : f[i] = step[<<f[i - 1], i>>]
    BY <1>5 DEF IteratesTo
  <2>2. ASSUME NEW i \in 1..n PROVE f[i] = MatchFace(ff, f[i - 1], rows[i])
    <3>1. i - 1 \in 0..n
      BY <1>1
    <3>2. <<f[i - 1], i>> \in S \X (1..n)
      BY <2>1, <3>1
    <3> QED
      BY <2>1, <3>2
  <2> QED
    BY <2>1, <2>2
<1>7. Walk(f)
  <2>1. ASSUME NEW i \in 0..n
        PROVE  f[i] = IF i = 0 THEN start ELSE MatchFace(ff, f[i - 1], rows[i])
    BY <1>1, <1>6
  <2> QED
    BY <1>6, <2>1
<1>8. Walk(found)
  <2> HIDE DEF Walk
  <2> QED
    BY <1>7, Zenon
<1>9. /\ found[0] = start
      /\ \A i \in 1..n : found[i] = MatchFace(ff, found[i - 1], rows[i])
  <2> HIDE DEF found
  <2>1. \A i \in 0..n : found[i] = IF i = 0 THEN start
                                   ELSE MatchFace(ff, found[i - 1], rows[i])
    BY <1>8, Zenon
  <2> HIDE DEF Walk, n
  <2> QED
    BY <1>1, <2>1
<1> HIDE DEF found, step
<1> DEFINE Read(i) == {rows[k] : k \in 1..i}
           Fine(i) == Matching(ff, Read(i), found[i])
           T == {i \in Nat : i <= n => Fine(i)}
<1>10. 0 \in T
  <2>1. Read(0) = {}
    OBVIOUS
  <2> QED
    BY <1>4, <1>9, <2>1
<1>11. ASSUME NEW i \in Nat, i \in T PROVE i + 1 \in T
  <2> SUFFICES ASSUME i + 1 <= n PROVE Fine(i + 1)
    <3>1. i + 1 \in Nat
      OBVIOUS
    <3> HIDE DEF Fine
    <3> QED
      BY <3>1, Zenon
  <2> DEFINE k == i + 1
             row == rows[k]
  <2>1. Matching(ff, Read(i), found[i])
    BY <1>1, <1>11
  <2>2. k \in 1..n /\ k - 1 = i /\ row \in R
    BY <1>1
  <2>3. found[k] = MatchFace(ff, found[i], row)
    BY <1>9, <2>2
  <2>4. Read(k) = Read(i) \cup {row}
    <3>1. 1..k = (1..i) \cup {k}
      OBVIOUS
    <3> QED
      BY <3>1
  <2>5. \A r \in Read(i) : r.id # row.id
    <3> SUFFICES ASSUME NEW l \in 1..i, rows[l].id = row.id PROVE FALSE
      OBVIOUS
    <3>1. l \in 1..n /\ l # k
      BY <1>1, <2>2
    <3>2. rows[l] = row
      BY <1>1, <2>2, <3>1
    <3> QED
      BY <1>1, <2>2, <3>1, <3>2 DEF NoRepeat
  <2>6. row.id \in Nat
    BY <2>2
  <2> HIDE DEF Read, T, k, row
  <2>7. Matching(ff, Read(i) \cup {row}, MatchFace(ff, found[i], row))
    BY <2>1, <2>5, <2>6, MatchFaceFacts
  <2>8. Fine(k)
    BY <2>3, <2>4, <2>7
  <2> QED
    BY <2>8 DEF k
<1> HIDE DEF Fine, T
<1>12. \A i \in Nat : i \in T
  BY <1>10, <1>11, Induction
<1>13. Fine(n)
  BY <1>1, <1>12 DEF T
<1>14. Read(n) = ToSet(rows)
  BY <1>1 DEF ToSet
<1> QED
  BY <1>2, <1>13, <1>14 DEF Fine

\* The rows of a query, in any order.
LEMMA RowsInOrder ==
  ASSUME NEW R, IsFiniteSet(R), NEW rows \in SetToSeqs(R)
  PROVE  rows \in Seq(R) /\ NoRepeat(rows) /\ ToSet(rows) = R
<1> DEFINE n == Cardinality(R)
<1>1. n \in Nat
  BY FS_CardinalityType
<1>2. rows \in [1..n -> R] /\ \A i, j \in 1..n : i # j => rows[i] # rows[j]
  BY DEF SetToSeqs
<1> HIDE DEF n
<1>3. rows \in Seq(R) /\ DOMAIN rows = 1..n /\ Len(rows) = n
  BY <1>1, <1>2
<1>4. NoRepeat(rows)
  BY <1>2, <1>3 DEF NoRepeat
<1>5. Cardinality(ToSet(rows)) = n
  BY <1>3, <1>4, LengthOfNoRepeat
<1>6. ToSet(rows) \subseteq R
  BY <1>2, <1>3 DEF ToSet
<1>7. ToSet(rows) = R
  BY <1>5, <1>6, FS_Subset DEF n
<1> QED
  BY <1>3, <1>4, <1>7

-----------------------------------------------------------------------------
(* The inductive invariant. *)

FaceRows(c, ff, s) == {AddFace(c, s[k], ff[k]) : k \in DOMAIN ff}

\* The ids s are those of the faces ff, all different and below n.
Identify(s, ff, n) ==
  /\ s \in [DOMAIN ff -> 1..(n - 1)]
  /\ \A j, k \in DOMAIN ff : s[j] = s[k] => j = k

\* The card and its faces are in the database as given.
Holds(c, card, s) ==
  /\ cardRow[c] = card.attrs
  /\ Identify(s, card.faces, nextId)
  /\ RowsOf(c) = FaceRows(c, card.faces, s)

TypeRows(id, kind, names) == {[face |-> id, kind |-> kind, name |-> n] : n \in names}

TranslationRows(id, tt) ==
  {[face |-> id, lang |-> tt[i].lang, text |-> tt[i].text] : i \in DOMAIN tt}

\* The rows that a transaction on a face is about, and those it is to leave.
RowsAt(types, trans, id, step) ==
  IF step = "translation" THEN {t \in trans : t.face = id}
  ELSE {t \in types : t.face = id /\ t.kind = step}

RowsFor(id, f, step) ==
  IF step = "translation" THEN TranslationRows(id, f.translations)
  ELSE TypeRows(id, step, ToSet(f.types[step]))

Steps == Kinds \cup {"translation"}

\* The number of the transaction with step j on face k.
Turn(k, j) == Len(FaceSteps) * (k - 1) + j

IsTypeRow(t) == t = [face |-> t.face, kind |-> t.kind, name |-> t.name]

IsTransRow(t) ==
  /\ t = [face |-> t.face, lang |-> t.lang, text |-> t.text]
  /\ HasColumns(t.text, TranslationColumns)

\* Ids are unique, and what refers to a face refers to one that exists.
KeysInv ==
  /\ \A r, s \in faceRow : r.id = s.id => r = s
  /\ \A t \in typeRow \cup transRow : \E r \in faceRow : t.face = r.id
  /\ \A t \in typeRow : IsTypeRow(t)
  /\ \A t \in transRow : IsTransRow(t)

IdsFor(card) == [DOMAIN card.faces -> 1..(nextId - 1)]

\* A card of the database is as one of the data sets so far has it.
CardInv(c) ==
  IF cardRow[c] = None THEN RowsOf(c) = {}
  ELSE \E n \in 1..run : /\ c \in DOMAIN plan[n]
                         /\ \E s \in IdsFor(plan[n][c]) : Holds(c, plan[n][c], s)

LabelInv(c) ==
  /\ pc[c] = "card" => at[c] = 0
  /\ pc[c] = "done" => at[c] >= Len(FaceSteps) * Len(Data[c].faces)

Merged(c) == pc[c] \in {"faces", "done"}

\* The transactions on the faces ff that are over have written what they are to
\* write, and of a new card the others have nothing to find.
Progress(types, trans, ff, s, n, new) ==
  \A k \in DOMAIN ff, j \in DOMAIN FaceSteps :
    IF Turn(k, j) <= n
    THEN RowsAt(types, trans, s[k], FaceSteps[j]) = RowsFor(s[k], ff[k], FaceSteps[j])
    ELSE new => RowsAt(types, trans, s[k], FaceSteps[j]) = {}

\* From the first transaction on, a card is as the data set of this import has it.
MergedInv(c) ==
  Merged(c) => /\ Holds(c, Data[c], ids[c])
               /\ Progress(typeRow, transRow, Data[c].faces, ids[c], at[c], isNew[c])

IInv ==
  /\ Typed
  /\ KeysInv
  /\ \A c \in Cards : CardInv(c)
  /\ \A c \in Todo : LabelInv(c) /\ MergedInv(c)
  /\ OnlyBadCardsAreRejected

\* Counting the values of a function which are all different.
LEMMA ImageCount ==
  ASSUME NEW S, IsFiniteSet(S), NEW f, \A x, y \in S : f[x] = f[y] => x = y
  PROVE  /\ IsFiniteSet({f[x] : x \in S})
         /\ Cardinality({f[x] : x \in S}) = Cardinality(S)
<1> DEFINE T == {f[x] : x \in S}
           g == [x \in S |-> f[x]]
<1>1. g \in Bijection(S, T)
  <2>1. g \in [S -> T] /\ \A x \in S : g[x] = f[x]
    OBVIOUS
  <2> HIDE DEF g
  <2>2. \A x, y \in S : g[x] = g[y] => x = y
    BY <2>1
  <2>3. \A t \in T : \E x \in S : g[x] = t
    BY <2>1
  <2> QED
    BY <2>1, <2>2, <2>3 DEF Bijection, Injection, Surjection, IsInjective
<1>2. ExistsBijection(S, T)
  BY <1>1 DEF ExistsBijection
<1> HIDE DEF T
<1>3. IsFiniteSet(T) /\ Cardinality(T) = Cardinality(S)
  BY <1>2, FS_Bijection
<1> QED
  BY <1>3 DEF T

\* The incoming faces get the ids of their rows, or new ones.
LEMMA FaceIdsFacts ==
  ASSUME nextId \in Nat \ {0}, NEW ff, NEW R, NEW m, Matching(ff, R, m),
         \A r \in R : r.id \in 1..(nextId - 1)
  PROVE  /\ Len(m.left) \in Nat
         /\ Identify(FaceIds(ff, m), ff, nextId + Len(m.left))
         /\ \A k \in DOMAIN ff :
              IF k \in ToSet(m.left)
              THEN /\ FaceIds(ff, m)[k] = NewId(m, k)
                   /\ FaceIds(ff, m)[k] \notin 1..(nextId - 1)
              ELSE <<k, FaceIds(ff, m)[k]>> \in m.kept
<1> DEFINE K == DOMAIN ff
           s == FaceIds(ff, m)
           p(k) == SelectInSeq(m.left, LAMBDA l : l = k)
<1>1. /\ m.left \in Seq(K) /\ m.kept \in SUBSET (K \X Nat) /\ NoRepeat(m.left)
      /\ \A k \in K : k \in ToSet(m.left) <=> ~ KeepsFace(m, k)
      /\ \A x, y \in m.kept : x[1] = y[1] \/ x[2] = y[2] => x = y
      /\ \A x \in m.kept : \E r \in R : r.id = x[2] /\ r.ident = ff[x[1]].ident
  BY DEF Matching, Matched
<1>2. Len(m.left) \in Nat /\ DOMAIN m.left = 1..Len(m.left)
  BY <1>1
<1>3. ASSUME NEW k \in K, k \in ToSet(m.left)
      PROVE  p(k) \in 1..Len(m.left) /\ m.left[p(k)] = k
  <2>1. Contains(m.left, k)
    BY <1>2, <1>3 DEF Contains, ToSet
  <2> QED
    BY <1>1, <2>1, PositionOf
<1>4. \A x \in m.kept : x[2] \in 1..(nextId - 1)
  BY <1>1
<1>5. ASSUME NEW k \in K, k \notin ToSet(m.left)
      PROVE  KeptId(m, k) \in 1..(nextId - 1) /\ <<k, KeptId(m, k)>> \in m.kept
  <2>1. PICK id \in Nat : <<k, id>> \in m.kept
    BY <1>1, <1>5 DEF KeepsFace
  <2>2. id \in 1..(nextId - 1)
    <3>1. <<k, id>>[2] = id
      OBVIOUS
    <3> QED
      BY <1>4, <2>1, <3>1
  <2>3. id \in 1..nextId
    BY <2>2
  <2>4. KeptId(m, k) = CHOOSE x \in 1..nextId : <<k, x>> \in m.kept
    BY <2>1, <2>3 DEF KeptId
  <2>5. <<k, KeptId(m, k)>> \in m.kept
    BY <2>1, <2>3, <2>4, Zenon
  <2>6. <<k, KeptId(m, k)>> [2] = KeptId(m, k)
    OBVIOUS
  <2> QED
    BY <1>4, <2>5, <2>6
<1>6. \A k \in K : s[k] = IF k \in ToSet(m.left) THEN NewId(m, k) ELSE KeptId(m, k)
  BY DEF FaceIds
<1>7. \A k \in K : NewId(m, k) = nextId - 1 + p(k)
  BY DEF NewId
<1>8. DOMAIN s = K /\ s = [k \in K |-> s[k]]
  BY DEF FaceIds
<1> HIDE DEF s, p
<1>9. ASSUME NEW k \in K
      PROVE  /\ s[k] \in 1..(nextId + Len(m.left) - 1)
             /\ IF k \in ToSet(m.left)
                THEN s[k] = NewId(m, k) /\ s[k] \notin 1..(nextId - 1)
                ELSE <<k, s[k]>> \in m.kept /\ s[k] \in 1..(nextId - 1)
  <2>1. CASE k \in ToSet(m.left)
    <3>1. s[k] = nextId - 1 + p(k) /\ s[k] = NewId(m, k)
      BY <1>6, <1>7, <2>1
    <3>2. p(k) \in 1..Len(m.left)
      BY <1>3, <2>1
    <3> QED
      BY <1>2, <2>1, <3>1, <3>2
  <2>2. CASE k \notin ToSet(m.left)
    BY <1>2, <1>5, <1>6, <2>2
  <2> QED
    BY <2>1, <2>2
<1>10. ASSUME NEW j \in K, NEW k \in K, s[j] = s[k] PROVE j = k
  <2>1. CASE j \in ToSet(m.left) /\ k \in ToSet(m.left)
    <3>1. nextId - 1 + p(j) = nextId - 1 + p(k)
      BY <1>6, <1>7, <1>10, <2>1
    <3>2. p(j) = p(k)
      BY <1>2, <1>3, <2>1, <3>1
    <3> QED
      BY <1>3, <2>1, <3>2
  <2>2. CASE j \notin ToSet(m.left) /\ k \notin ToSet(m.left)
    <3>1. <<j, s[j]>> \in m.kept /\ <<k, s[k]>> \in m.kept
      BY <1>9, <2>2
    <3>2. <<j, s[j]>> = <<k, s[k]>>
      BY <1>1, <1>10, <3>1
    <3> QED
      BY <3>2
  <2> QED
    BY <1>9, <1>10, <2>1, <2>2
<1>11. s \in [K -> 1..(nextId + Len(m.left) - 1)]
  BY <1>8, <1>9
<1> QED
  BY <1>2, <1>9, <1>10, <1>11 DEF Identify, s

IsFaceRow(r) ==
  /\ r = [id |-> r.id, card |-> r.card, ident |-> r.ident, data |-> r.data]
  /\ HasColumns(r.data, FaceColumns)

\* A row that is found by name and texts is afterwards the face, with its id:
\* it is written if one of the other columns differs, and else differs in none.
LEMMA UpdateFaceFacts ==
  ASSUME NEW r, IsFaceRow(r), NEW f, IsFace(f), r.ident = f.ident
  PROVE  UpdateFace(r, f) = AddFace(r.card, r.id, f)
<1>1. r = [id |-> r.id, card |-> r.card, ident |-> r.ident, data |-> r.data]
  BY DEF IsFaceRow
<1>2. CASE FaceDiff(r, f) = {}
  <2>1. \A k \in FaceColumns : r.data[k] = f.data[k]
    BY <1>2 DEF FaceDiff, Changed
  <2>2. r.data = [k \in FaceColumns |-> r.data[k]] /\ f.data = [k \in FaceColumns |-> f.data[k]]
    BY DEF IsFaceRow, IsFace, HasColumns
  <2>3. r.data = f.data
    BY <2>1, <2>2
  <2> QED
    BY <1>1, <1>2, <2>3 DEF UpdateFace, AddFace
<1>3. CASE FaceDiff(r, f) # {}
  <2>1. UpdateFace(r, f) = [r EXCEPT !.ident = f.ident, !.data = f.data]
    BY <1>3 DEF UpdateFace
  <2> QED
    BY <1>1, <2>1 DEF AddFace
<1> QED
  BY <1>2, <1>3

\* After the merge the card has the incoming faces and no other ones.
LEMMA RowsAfterFacts ==
  ASSUME nextId \in Nat \ {0}, NEW c, NEW ff, NEW m, Matching(ff, RowsOf(c), m),
         \A k \in DOMAIN ff : IsFace(ff[k]),
         \A r \in RowsOf(c) : IsFaceRow(r) /\ r.id \in 1..(nextId - 1),
         \A r, s \in RowsOf(c) : r.id = s.id => r = s
  PROVE  RowsAfter(c, ff, m) = FaceRows(c, ff, FaceIds(ff, m))
<1> DEFINE R == RowsOf(c)
           K == DOMAIN ff
           s == FaceIds(ff, m)
           Found == {q \in R \X K : <<q[2], q[1].id>> \in m.kept}
           Updated == {UpdateFace(p[1], ff[p[2]]) : p \in Found}
           Added == {AddFace(c, NewId(m, k), ff[k]) : k \in ToSet(m.left)}
<1>1. RowsAfter(c, ff, m) = Updated \cup Added
  BY DEF RowsAfter
<1>2. /\ m.left \in Seq(K) /\ m.kept \in SUBSET (K \X Nat)
      /\ \A k \in K : k \in ToSet(m.left) <=> ~ KeepsFace(m, k)
      /\ \A x, y \in m.kept : x[1] = y[1] \/ x[2] = y[2] => x = y
      /\ \A x \in m.kept : \E r \in R : r.id = x[2] /\ r.ident = ff[x[1]].ident
  BY DEF Matching, Matched
<1>3. \A k \in K : IF k \in ToSet(m.left) THEN s[k] = NewId(m, k)
                   ELSE <<k, s[k]>> \in m.kept
  BY FaceIdsFacts
<1>4. ToSet(m.left) \subseteq K
  BY <1>2 DEF ToSet
<1>5. \A r \in R : r.card = c
  BY DEF RowsOf
<1> HIDE DEF R, s
<1>6. ASSUME NEW r \in R, NEW k \in K, <<k, r.id>> \in m.kept
      PROVE  k \notin ToSet(m.left) /\ s[k] = r.id
             /\ UpdateFace(r, ff[k]) = AddFace(c, s[k], ff[k])
  <2>1. k \notin ToSet(m.left)
    BY <1>2, <1>6 DEF KeepsFace
  <2>2. <<k, s[k]>> \in m.kept
    BY <1>3, <2>1
  <2>3. <<k, s[k]>> = <<k, r.id>>
    BY <1>2, <1>6, <2>2
  <2>4. PICK q \in R : q.id = r.id /\ q.ident = ff[k].ident
    BY <1>2, <1>6
  <2>5. r.ident = ff[k].ident
    BY <2>4 DEF R
  <2>6. UpdateFace(r, ff[k]) = AddFace(r.card, r.id, ff[k])
    BY <2>5, UpdateFaceFacts DEF R
  <2> QED
    BY <1>5, <2>1, <2>3, <2>6
<1>7. Updated \subseteq FaceRows(c, ff, s)
  <2> SUFFICES ASSUME NEW p \in Found PROVE UpdateFace(p[1], ff[p[2]]) \in FaceRows(c, ff, s)
    OBVIOUS
  <2>1. p[1] \in R /\ p[2] \in K /\ <<p[2], p[1].id>> \in m.kept
    OBVIOUS
  <2> QED
    BY <1>6, <2>1 DEF FaceRows
<1>8. Added \subseteq FaceRows(c, ff, s)
  BY <1>3, <1>4 DEF FaceRows
<1>9. ASSUME NEW k \in K PROVE AddFace(c, s[k], ff[k]) \in Updated \cup Added
  <2>1. CASE k \in ToSet(m.left)
    BY <1>3, <2>1
  <2>2. CASE k \notin ToSet(m.left)
    <3>1. <<k, s[k]>> \in m.kept
      BY <1>3, <2>2
    <3>2. PICK r \in R : r.id = s[k]
      BY <1>2, <3>1
    <3>3. AddFace(c, s[k], ff[k]) = UpdateFace(r, ff[k])
      BY <1>6, <3>1, <3>2
    <3>4. <<r, k>> \in Found /\ <<r, k>>[1] = r /\ <<r, k>>[2] = k
      BY <3>1, <3>2
    <3>5. UpdateFace(r, ff[k]) \in Updated
      BY <3>4
    <3> QED
      BY <3>3, <3>5
  <2> QED
    BY <2>1, <2>2
<1>10. FaceRows(c, ff, s) \subseteq Updated \cup Added
  BY <1>9 DEF FaceRows
<1> QED
  BY <1>1, <1>7, <1>8, <1>10 DEF s

\* As many rows as faces, for their ids are all different.
LEMMA FaceRowsCount ==
  ASSUME NEW c, NEW ff, IsList(ff), NEW s, NEW n, Identify(s, ff, n)
  PROVE  /\ IsFiniteSet(FaceRows(c, ff, s))
         /\ Cardinality(FaceRows(c, ff, s)) = Len(ff)
<1> DEFINE f == [k \in DOMAIN ff |-> AddFace(c, s[k], ff[k])]
<1>1. Len(ff) \in Nat /\ DOMAIN ff = 1..Len(ff)
  BY DEF IsList
<1>2. IsFiniteSet(DOMAIN ff) /\ Cardinality(DOMAIN ff) = Len(ff)
  <2>1. /\ IsFiniteSet(1..Len(ff))
        /\ Cardinality(1..Len(ff)) = IF 1 > Len(ff) THEN 0 ELSE Len(ff) - 1 + 1
    BY <1>1, FS_Interval
  <2> QED
    BY <1>1, <2>1
<1>3. \A k \in DOMAIN ff : f[k] = AddFace(c, s[k], ff[k]) /\ f[k].id = s[k]
  BY DEF AddFace
<1> HIDE DEF f
<1>4. \A j, k \in DOMAIN ff : f[j] = f[k] => j = k
  BY <1>3 DEF Identify
<1>5. FaceRows(c, ff, s) = {f[k] : k \in DOMAIN ff}
  BY <1>3 DEF FaceRows
<1> QED
  BY <1>2, <1>4, <1>5, ImageCount

-----------------------------------------------------------------------------
(* The transactions on a face. *)

\* The first translation in a language is one in this language.
LEMMA FirstOfFacts ==
  ASSUME NEW tt, IsList(tt), NEW i \in DOMAIN tt
  PROVE  FirstOf(tt, tt[i].lang) \in DOMAIN tt
         /\ tt[FirstOf(tt, tt[i].lang)].lang = tt[i].lang
<1> DEFINE I == {k \in 1..Len(tt) : tt[k].lang = tt[i].lang}
<1>1. Len(tt) \in Nat /\ DOMAIN tt = 1..Len(tt)
  BY DEF IsList
<1>2. i \in I
  BY <1>1
<1>3. FirstOf(tt, tt[i].lang) = Min(I)
  BY <1>2 DEF FirstOf, SelectInSeq
<1>4. I \in SUBSET Nat
  OBVIOUS
<1>5. \A k \in I : k \in DOMAIN tt /\ tt[k].lang = tt[i].lang
  BY <1>1
<1> HIDE DEF I
<1>6. \E m \in I : \A k \in I : m <= k
  BY <1>2, <1>4, Least
<1>7. Min(I) \in I
  BY <1>6, Zenon DEF Min
<1> QED
  BY <1>3, <1>5, <1>7

\* No language comes twice.
LEMMA NoRepeatedLangFacts ==
  ASSUME NEW tt, IsList(tt), NoRepeatedLang(tt)
  PROVE  \A i, k \in DOMAIN tt : tt[i].lang = tt[k].lang => i = k
<1> DEFINE s == [i \in DOMAIN tt |-> tt[i].lang]
<1>1. Len(tt) \in Nat /\ DOMAIN tt = 1..Len(tt)
  BY DEF IsList
<1>2. s \in Seq(Langs(tt)) /\ Len(s) = Len(tt) /\ DOMAIN s = DOMAIN tt
  BY <1>1 DEF Langs
<1>3. \A i \in DOMAIN tt : s[i] = tt[i].lang
  OBVIOUS
<1> HIDE DEF s
<1>4. ToSet(s) = Langs(tt)
  BY <1>2, <1>3 DEF ToSet, Langs
<1>5. NoRepeat(s)
  BY <1>2, <1>4, LengthOfNoRepeat DEF NoRepeatedLang
<1> QED
  BY <1>2, <1>3, <1>5 DEF NoRepeat

\* A translation that is found by its language has afterwards the given text.
LEMMA UpdateTranslationFacts ==
  ASSUME NEW r, IsTransRow(r), NEW t, IsTranslation(t), r.lang = t.lang
  PROVE  UpdateTranslation(r, t) = [face |-> r.face, lang |-> t.lang, text |-> t.text]
<1>1. r = [face |-> r.face, lang |-> r.lang, text |-> r.text]
  BY DEF IsTransRow
<1>2. CASE TranslationDiff(r, t) = {}
  <2>1. \A k \in TranslationColumns : r.text[k] = t.text[k]
    BY <1>2 DEF TranslationDiff, Changed
  <2>2. /\ r.text = [k \in TranslationColumns |-> r.text[k]]
        /\ t.text = [k \in TranslationColumns |-> t.text[k]]
    BY DEF IsTransRow, IsTranslation, HasColumns
  <2>3. r.text = t.text
    BY <2>1, <2>2
  <2> QED
    BY <1>1, <1>2, <2>3 DEF UpdateTranslation
<1>3. CASE TranslationDiff(r, t) # {}
  <2>1. UpdateTranslation(r, t) = [r EXCEPT !.text = t.text]
    BY <1>3 DEF UpdateTranslation
  <2> QED
    BY <1>1, <2>1
<1> QED
  BY <1>2, <1>3

\* What the transaction on the translations leaves of those the face had, and
\* what it adds, are the translations of the data set.
LEMMA TranslationsMerged ==
  ASSUME NEW tt, IsList(tt), NoRepeatedLang(tt), \A i \in DOMAIN tt : IsTranslation(tt[i]),
         NEW id, NEW old, \A t \in old : IsTransRow(t) /\ t.face = id
  PROVE  UpdatedTranslations(tt, old) \cup AddedTranslations(tt, old, id)
           = TranslationRows(id, tt)
<1> DEFINE row(i) == [face |-> id, lang |-> tt[i].lang, text |-> tt[i].text]
<1>1. \A i, k \in DOMAIN tt : tt[i].lang = tt[k].lang => i = k
  BY NoRepeatedLangFacts
<1>2. \A i \in DOMAIN tt : FirstOf(tt, tt[i].lang) = i
  BY <1>1, FirstOfFacts
<1>3. ASSUME NEW o \in old, NEW i \in DOMAIN tt, o.lang = tt[i].lang
      PROVE  UpdateTranslation(o, tt[FirstOf(tt, o.lang)]) = row(i)
  BY <1>2, <1>3, UpdateTranslationFacts
<1> HIDE DEF row
<1>4. UpdatedTranslations(tt, old) \subseteq {row(i) : i \in DOMAIN tt}
  BY <1>3 DEF UpdatedTranslations, Langs
<1>5. AddedTranslations(tt, old, id) \subseteq {row(i) : i \in DOMAIN tt}
  BY DEF AddedTranslations, row
<1>6. ASSUME NEW i \in DOMAIN tt
      PROVE  row(i) \in UpdatedTranslations(tt, old) \cup AddedTranslations(tt, old, id)
  <2>1. CASE \E o \in old : o.lang = tt[i].lang
    <3>1. PICK o \in old : o.lang = tt[i].lang
      BY <2>1
    <3>2. o.lang \in Langs(tt)
      BY <3>1 DEF Langs
    <3>3. UpdateTranslation(o, tt[FirstOf(tt, o.lang)]) \in UpdatedTranslations(tt, old)
      BY <3>2 DEF UpdatedTranslations
    <3> QED
      BY <1>3, <3>1, <3>3
  <2>2. CASE ~ \E o \in old : o.lang = tt[i].lang
    BY <2>2 DEF AddedTranslations, row
  <2> QED
    BY <2>1, <2>2
<1>7. TranslationRows(id, tt) = {row(i) : i \in DOMAIN tt}
  BY DEF TranslationRows, row
<1> QED
  BY <1>4, <1>5, <1>6, <1>7

-----------------------------------------------------------------------------
(* Consequences of the invariant. *)

\* The data sets.
LEMMA PlanFacts ==
  ASSUME Typed
  PROVE  /\ Len(plan) \in Nat /\ DOMAIN plan = 1..Len(plan) /\ run \in 1..Len(plan)
         /\ \A n \in DOMAIN plan : \A c \in DOMAIN plan[n] :
              c \in Cards /\ IsCard(plan[n][c])
<1>1. plan \in Plans /\ run \in DOMAIN plan
  BY DEF Typed
<1>2. /\ IsList(plan)
      /\ \A n \in DOMAIN plan : \A c \in DOMAIN plan[n] : c \in Cards /\ IsCard(plan[n][c])
  BY <1>1, CardImportAssumption
<1> QED
  BY <1>1, <1>2 DEF IsList

\* A card of a data set.
LEMMA CardFacts ==
  ASSUME NEW card, IsCard(card)
  PROVE  /\ card.attrs \in Attrs /\ card.attrs # None
         /\ IsList(card.faces) /\ Len(card.faces) \in Nat
         /\ DOMAIN card.faces = 1..Len(card.faces)
         /\ \A k \in DOMAIN card.faces :
              card.faces[k] \in ToSet(card.faces) /\ IsFace(card.faces[k])
<1>1. card.attrs \in Attrs /\ IsList(card.faces) /\ \A f \in ToSet(card.faces) : IsFace(f)
  BY DEF IsCard
<1>2. Len(card.faces) \in Nat /\ DOMAIN card.faces = 1..Len(card.faces)
  BY <1>1 DEF IsList
<1>3. \A k \in DOMAIN card.faces : card.faces[k] \in ToSet(card.faces)
  BY DEF ToSet
<1> QED
  BY <1>1, <1>2, <1>3, CardImportAssumption

\* A card that this import has to do with.
LEMMA TodoFacts ==
  ASSUME Typed, NEW c \in Todo
  PROVE  c \in Cards /\ IsCard(Data[c])
BY PlanFacts DEF Typed, Todo, Data

\* The rows of the table of faces.
LEMMA RowsFacts ==
  ASSUME Typed, \A c \in Cards : CardInv(c)
  PROVE  /\ \A r \in faceRow : IsFaceRow(r) /\ r.id \in 1..(nextId - 1) /\ r.card \in Cards
         /\ \A c \in Cards : IsFiniteSet(RowsOf(c))
<1>1. \A r \in faceRow : r.id \in 1..(nextId - 1) /\ r.card \in Cards
  BY DEF Typed
<1>2. ASSUME NEW c \in Cards
      PROVE  IsFiniteSet(RowsOf(c)) /\ \A r \in RowsOf(c) : IsFaceRow(r)
  <2>1. CASE cardRow[c] = None
    <3>1. RowsOf(c) = {}
      BY <2>1 DEF CardInv
    <3> QED
      BY <3>1, FS_EmptySet
  <2>2. CASE cardRow[c] # None
    <3>1. PICK n \in 1..run : /\ c \in DOMAIN plan[n]
                              /\ \E s \in IdsFor(plan[n][c]) : Holds(c, plan[n][c], s)
      BY <2>2 DEF CardInv
    <3>2. IsCard(plan[n][c])
      BY <3>1, PlanFacts DEF Typed
    <3>3. PICK card : card = plan[n][c]
      OBVIOUS
    <3>4. PICK s : Holds(c, card, s)
      BY <3>1, <3>3
    <3>5. RowsOf(c) = FaceRows(c, card.faces, s) /\ Identify(s, card.faces, nextId)
      BY <3>4 DEF Holds
    <3>6. IsList(card.faces) /\ \A k \in DOMAIN card.faces : IsFace(card.faces[k])
      BY <3>2, <3>3, CardFacts
    <3>7. IsFiniteSet(RowsOf(c))
      BY <3>5, <3>6, FaceRowsCount
    <3>8. ASSUME NEW k \in DOMAIN card.faces
          PROVE  IsFaceRow(AddFace(c, s[k], card.faces[k]))
      BY <3>6 DEF AddFace, IsFaceRow, IsFace
    <3> QED
      BY <3>5, <3>7, <3>8 DEF FaceRows
  <2> QED
    BY <2>1, <2>2
<1>3. \A r \in faceRow : r \in RowsOf(r.card)
  BY DEF RowsOf
<1> QED
  BY <1>1, <1>2, <1>3

\* DeleteFace deletes from all three tables of types.
LEMMA TypesWithoutFacts ==
  ASSUME \A t \in typeRow : t.kind \in Kinds, NEW gone
  PROVE  TypesWithout(gone) = {t \in typeRow : t.face \notin gone}
BY DEF TypesWithout, DeleteAllAssignments, Kinds

\* Whatever the order in which the rows are read, the merge ends well: no foreign
\* key stands in its way, and the card has the faces of the data set.
LEMMA MergeFacts ==
  ASSUME IInv, NEW c \in Todo, NEW m \in Merges(c)
  PROVE  LET ff == Data[c].faces
             s == FaceIds(ff, m)
         IN  /\ Matching(ff, RowsOf(c), m)
             /\ RowsAfter(c, ff, m) = FaceRows(c, ff, s)
             /\ Len(m.left) \in Nat
             /\ Identify(s, ff, nextId + Len(m.left))
             /\ \A k \in DOMAIN ff : IF k \in ToSet(m.left) THEN s[k] \notin 1..(nextId - 1)
                                     ELSE <<k, s[k]>> \in m.kept
             /\ MergeHolds(c, m)
<1>1. PICK ff : ff = Data[c].faces
  OBVIOUS
<1>2. Typed /\ KeysInv /\ \A d \in Cards : CardInv(d)
  BY DEF IInv
<1>3. c \in Cards /\ IsCard(Data[c])
  BY <1>2, TodoFacts
<1>4. IsList(ff) /\ \A k \in DOMAIN ff : IsFace(ff[k])
  BY <1>1, <1>3, CardFacts
<1>5. /\ IsFiniteSet(RowsOf(c))
      /\ \A r \in RowsOf(c) : IsFaceRow(r) /\ r.id \in 1..(nextId - 1)
  BY <1>2, <1>3, RowsFacts DEF RowsOf
<1>6. nextId \in Nat \ {0} /\ \A t \in typeRow : t.kind \in Kinds
  BY <1>2 DEF Typed
<1>7. \A r, s \in RowsOf(c) : r.id = s.id => r = s
  BY <1>2 DEF KeysInv, RowsOf
<1>8. PICK rows \in SetToSeqs(RowsOf(c)) : m = MatchFaces(ff, rows)
  BY <1>1 DEF Merges
<1>9. rows \in Seq(RowsOf(c)) /\ NoRepeat(rows) /\ ToSet(rows) = RowsOf(c)
  BY <1>5, RowsInOrder
<1>10. \A r \in RowsOf(c) : r.id \in Nat
  BY <1>5, <1>6
<1>11. Matching(ff, ToSet(rows), MatchFaces(ff, rows))
  BY <1>4, <1>7, <1>9, <1>10, MatchFacesFacts
<1>12. Matching(ff, RowsOf(c), m)
  BY <1>8, <1>9, <1>11
<1>13. RowsAfter(c, ff, m) = FaceRows(c, ff, FaceIds(ff, m))
  BY <1>4, <1>5, <1>6, <1>7, <1>12, RowsAfterFacts
<1>14. /\ Len(m.left) \in Nat
       /\ Identify(FaceIds(ff, m), ff, nextId + Len(m.left))
       /\ \A k \in DOMAIN ff :
            IF k \in ToSet(m.left) THEN FaceIds(ff, m)[k] \notin 1..(nextId - 1)
            ELSE <<k, FaceIds(ff, m)[k]>> \in m.kept
  BY <1>5, <1>6, <1>12, FaceIdsFacts
<1>15. MergeHolds(c, m)
  <2>1. ForeignKeyHolds(TypesWithout(m.gone), m.gone)
    BY <1>6, TypesWithoutFacts DEF ForeignKeyHolds
  <2>2. Cardinality(RowsAfter(c, ff, m)) = Len(ff)
    BY <1>4, <1>13, <1>14, FaceRowsCount
  <2> QED
    BY <1>1, <2>1, <2>2 DEF MergeHolds
<1> QED
  BY <1>1, <1>12, <1>13, <1>14, <1>15

-----------------------------------------------------------------------------
(* What a step leaves as it is. *)

\* An id that was drawn stays one when more are drawn.
LEMMA Below ==
  ASSUME NEW a \in Nat, NEW b \in Nat, a <= b, NEW x \in 1..(a - 1)
  PROVE  x \in 1..(b - 1)
OBVIOUS

\* The faces that a card holds stay the same as long as its rows do.
LEMMA HoldsStays ==
  ASSUME NEW c, NEW card, NEW s, Holds(c, card, s),
         nextId \in Nat, nextId' \in Nat, nextId <= nextId',
         cardRow'[c] = cardRow[c], RowsOf(c)' = RowsOf(c)
  PROVE  Holds(c, card, s)'
<1>1. s \in [DOMAIN card.faces -> 1..(nextId - 1)]
  BY DEF Holds, Identify
<1>2. \A id \in 1..(nextId - 1) : id \in 1..(nextId' - 1)
  BY Below
<1>3. s \in [DOMAIN card.faces -> 1..(nextId' - 1)]
  BY <1>1, <1>2
<1>4. Identify(s, card.faces, nextId')
  BY <1>3 DEF Holds, Identify
<1> QED
  BY <1>4 DEF Holds

\* A card whose rows stay is still as one of the data sets has it.
LEMMA CardStays ==
  ASSUME NEW c, CardInv(c), plan' = plan,
         run \in Nat, run' \in Nat, run <= run',
         nextId \in Nat, nextId' \in Nat, nextId <= nextId',
         cardRow'[c] = cardRow[c], RowsOf(c)' = RowsOf(c)
  PROVE  CardInv(c)'
<1>1. CASE cardRow[c] = None
  BY <1>1 DEF CardInv
<1>2. CASE cardRow[c] # None
  <2>1. PICK n \in 1..run : /\ c \in DOMAIN plan[n]
                            /\ \E s \in IdsFor(plan[n][c]) : Holds(c, plan[n][c], s)
    BY <1>2 DEF CardInv
  <2>2. PICK card : card = plan[n][c]
    OBVIOUS
  <2>3. PICK s \in IdsFor(card) : Holds(c, card, s)
    BY <2>1, <2>2
  <2>4. Holds(c, card, s)'
    BY <2>3, HoldsStays
  <2>5. s \in IdsFor(card)'
    BY <2>4 DEF Holds, Identify, IdsFor
  <2>6. n \in 1..run' /\ plan'[n] = plan[n]
    OBVIOUS
  <2>7. cardRow'[c] # None
    BY <1>2
  <2> QED
    BY <2>1, <2>2, <2>4, <2>5, <2>6, <2>7 DEF CardInv, IdsFor, Holds
<1> QED
  BY <1>1, <1>2

\* So is one whose transactions go on or are over, as far as they have come.
LEMMA MergedStays ==
  ASSUME NEW c, MergedInv(c), plan' = plan, run' = run, Merged(c)' => Merged(c),
         at'[c] = at[c], isNew'[c] = isNew[c], ids'[c] = ids[c],
         nextId \in Nat, nextId' \in Nat, nextId <= nextId',
         cardRow'[c] = cardRow[c], RowsOf(c)' = RowsOf(c),
         \A r \in RowsOf(c) : \A step \in Steps :
           RowsAt(typeRow, transRow, r.id, step)' = RowsAt(typeRow, transRow, r.id, step)
  PROVE  MergedInv(c)'
<1> SUFFICES ASSUME Merged(c)'
             PROVE  (/\ Holds(c, Data[c], ids[c])
                     /\ Progress(typeRow, transRow, Data[c].faces, ids[c], at[c], isNew[c]))'
  BY DEF MergedInv
<1>1. /\ Holds(c, Data[c], ids[c])
      /\ Progress(typeRow, transRow, Data[c].faces, ids[c], at[c], isNew[c])
  BY DEF MergedInv
<1>2. PICK card, s, n, new : card = Data[c] /\ s = ids[c] /\ n = at[c] /\ new = isNew[c]
  OBVIOUS
<1>3. Holds(c, card, s) /\ Progress(typeRow, transRow, card.faces, s, n, new)
  BY <1>1, <1>2
<1>4. Holds(c, card, s)'
  BY <1>3, HoldsStays
<1>5. \A j \in DOMAIN FaceSteps : FaceSteps[j] \in Steps
  BY DEF FaceSteps, Steps, Kinds
<1>6. ASSUME NEW k \in DOMAIN card.faces, NEW j \in DOMAIN FaceSteps
      PROVE  RowsAt(typeRow, transRow, s[k], FaceSteps[j])'
               = RowsAt(typeRow, transRow, s[k], FaceSteps[j])
  <2>1. AddFace(c, s[k], card.faces[k]) \in RowsOf(c)
    BY <1>3 DEF Holds, FaceRows
  <2>2. AddFace(c, s[k], card.faces[k]).id = s[k]
    BY DEF AddFace
  <2> QED
    BY <1>5, <2>1, <2>2
<1>7. Progress(typeRow, transRow, card.faces, s, n, new)'
  BY <1>3, <1>6 DEF Progress
<1>8. /\ Data'[c] = card /\ ids'[c] = s /\ at'[c] = n /\ isNew'[c] = new
  BY <1>2 DEF Data
<1>9. Holds(c, Data[c], ids[c])'
  BY <1>4, <1>8 DEF Holds
<1>10. Progress(typeRow, transRow, Data[c].faces, ids[c], at[c], isNew[c])'
  BY <1>7, <1>8
<1> QED
  BY <1>9, <1>10

-----------------------------------------------------------------------------
(* The steps. *)

BadCard(card) ==
  \/ ~ card.valid
  \/ \E f \in ToSet(card.faces) :
       (\E k \in Kinds : ~ NoRepeatedName(f.types[k])) \/ ~ NoRepeatedLang(f.translations)

\* A process that goes on to another label and writes nothing.
LEMMA LabelStep ==
  ASSUME IInv, NEW c \in Todo, NEW label \in {"done", "rejected", "failed"},
         Goto(c, label),
         UNCHANGED <<plan, run, isNew, at, ids, cardRow, faceRow, typeRow, transRow, nextId>>,
         label = "done" => Merged(c) /\ at[c] >= Len(FaceSteps) * Len(Data[c].faces),
         label = "rejected" => BadCard(Data[c])
  PROVE  IInv'
<1>1. /\ Typed /\ KeysInv /\ (\A d \in Cards : CardInv(d))
      /\ \A d \in Todo : LabelInv(d) /\ MergedInv(d)
      /\ \A d \in Todo : pc[d] = "rejected" => BadCard(Data[d])
  BY DEF IInv, OnlyBadCardsAreRejected, BadCard
<1>2. Todo' = Todo /\ \A d : Data'[d] = Data[d]
  BY DEF Todo, Data
<1>3. pc \in [Todo -> {"card", "faces", "done", "rejected", "failed"}]
  BY <1>1 DEF Typed
<1>4. pc' = [pc EXCEPT ![c] = label]
  BY DEF Goto
<1>5. /\ pc' \in [Todo -> {"card", "faces", "done", "rejected", "failed"}]
      /\ pc'[c] = label /\ \A d \in Todo : d # c => pc'[d] = pc[d]
  BY <1>3, <1>4
<1>6. Typed'
  BY <1>1, <1>2, <1>5 DEF Typed
<1>7. KeysInv'
  BY <1>1 DEF KeysInv
<1>8. nextId \in Nat /\ run \in Nat
  BY <1>1, PlanFacts DEF Typed
<1>9. \A d : RowsOf(d)' = RowsOf(d)
  BY DEF RowsOf
<1>10. ASSUME NEW d \in Cards PROVE CardInv(d)'
  <2>1. CardInv(d)
    BY <1>1
  <2> QED
    BY <1>8, <1>9, <2>1, CardStays
<1>11. ASSUME NEW d \in Todo PROVE LabelInv(d)'
  BY <1>1, <1>2, <1>5 DEF LabelInv
<1>12. ASSUME NEW d \in Todo PROVE MergedInv(d)'
  <2>1. MergedInv(d)
    BY <1>1
  <2>2. Merged(d)' => Merged(d)
    BY <1>5 DEF Merged
  <2>3. \A r \in RowsOf(d) : \A step \in Steps :
          RowsAt(typeRow, transRow, r.id, step)' = RowsAt(typeRow, transRow, r.id, step)
    OBVIOUS
  <2> QED
    BY <1>8, <1>9, <2>1, <2>2, <2>3, MergedStays
<1>13. ASSUME NEW d \in Todo, pc'[d] = "rejected" PROVE BadCard(Data'[d])
  BY <1>1, <1>2, <1>5, <1>13
<1>14. OnlyBadCardsAreRejected'
  BY <1>2, <1>13 DEF OnlyBadCardsAreRejected, BadCard
<1> QED
  BY <1>2, <1>6, <1>7, <1>10, <1>11, <1>12, <1>14 DEF IInv

\* The next import begins, after the last one or after a crash.
LEMMA NextRunStep ==
  ASSUME IInv, run < Len(plan), NextRun
  PROVE  IInv'
<1>1. Typed /\ KeysInv /\ \A d \in Cards : CardInv(d)
  BY DEF IInv
<1>2. /\ run' = run + 1 /\ plan' = plan /\ nextId' = nextId
      /\ UNCHANGED <<cardRow, faceRow, typeRow, transRow>>
  BY DEF NextRun, database
<1>3. Len(plan) \in Nat /\ DOMAIN plan = 1..Len(plan) /\ run \in 1..Len(plan) /\ nextId \in Nat
  BY <1>1, PlanFacts DEF Typed
<1>4. run' \in DOMAIN plan
  BY <1>2, <1>3
<1>5. Todo' = DOMAIN plan[run + 1]
  BY <1>2 DEF Todo, Data
<1>6. /\ pc' = [c \in Todo' |-> "card"] /\ isNew' = [c \in Todo' |-> FALSE]
      /\ at' = [c \in Todo' |-> 0] /\ ids' = [c \in Todo' |-> << >>]
  BY <1>5 DEF NextRun
<1>7. Typed'
  <2>1. /\ plan' \in Plans /\ run' \in DOMAIN plan' /\ nextId' \in Nat \ {0}
        /\ cardRow' \in [Cards -> Attrs \cup {None}]
        /\ \A r \in faceRow' : r.id \in 1..(nextId' - 1) /\ r.card \in Cards
        /\ \A t \in typeRow' : t.kind \in Kinds
    BY <1>1, <1>2, <1>4 DEF Typed
  <2>2. /\ pc' \in [Todo' -> {"card", "faces", "done", "rejected", "failed"}]
        /\ isNew' \in [Todo' -> BOOLEAN] /\ at' \in [Todo' -> Nat]
        /\ ids' \in [Todo' -> Seq(1..(nextId' - 1))]
    BY <1>6
  <2> QED
    BY <2>1, <2>2 DEF Typed
<1>8. KeysInv'
  BY <1>1, <1>2 DEF KeysInv
<1>9. ASSUME NEW d \in Cards PROVE CardInv(d)'
  <2>1. CardInv(d) /\ RowsOf(d)' = RowsOf(d)
    BY <1>1, <1>2 DEF RowsOf
  <2>2. run \in Nat /\ run' \in Nat /\ run <= run'
    BY <1>2, <1>3
  <2> QED
    BY <1>2, <1>3, <2>1, <2>2, CardStays
<1>10. ASSUME NEW d \in Todo' PROVE pc'[d] = "card" /\ at'[d] = 0
  BY <1>6, <1>10
<1>11. ASSUME NEW d \in Todo' PROVE (LabelInv(d) /\ MergedInv(d))'
  BY <1>10, <1>11 DEF LabelInv, MergedInv, Merged
<1>12. OnlyBadCardsAreRejected'
  BY <1>10 DEF OnlyBadCardsAreRejected
<1> QED
  BY <1>7, <1>8, <1>9, <1>11, <1>12 DEF IInv

\* A first import on an empty database.
LEMMA StartInv ==
  ASSUME Init PROVE IInv
<1>1. plan \in Plans /\ run = 1
  BY DEF Init
<1>2. IsList(plan) /\ plan # << >>
  BY <1>1, CardImportAssumption
<1>3. run \in DOMAIN plan
  BY <1>1, <1>2 DEF IsList
<1>4. Todo = DOMAIN plan[1]
  BY <1>1 DEF Todo, Data
<1>5. /\ pc = [c \in Todo |-> "card"] /\ isNew = [c \in Todo |-> FALSE]
      /\ at = [c \in Todo |-> 0] /\ ids = [c \in Todo |-> << >>]
      /\ cardRow = [c \in Cards |-> None] /\ faceRow = {} /\ typeRow = {} /\ transRow = {}
      /\ nextId = 1
  BY <1>4 DEF Init, Start
<1>6. Typed
  BY <1>1, <1>3, <1>5 DEF Typed
<1>7. KeysInv
  BY <1>5 DEF KeysInv
<1>8. \A c \in Cards : CardInv(c)
  BY <1>5 DEF CardInv, RowsOf
<1>9. \A c \in Todo : pc[c] = "card" /\ at[c] = 0
  BY <1>5
<1>10. \A c \in Todo : LabelInv(c) /\ MergedInv(c)
  BY <1>9 DEF LabelInv, MergedInv, Merged
<1>11. OnlyBadCardsAreRejected
  BY <1>9 DEF OnlyBadCardsAreRejected
<1> QED
  BY <1>6, <1>7, <1>8, <1>10, <1>11 DEF IInv

\* After n transactions comes that with step j on face k.
IsNext(n, k, j) ==
  k = (n \div Len(FaceSteps)) + 1 /\ j = (n % Len(FaceSteps)) + 1

\* The transactions count from the first face on.
LEMMA TurnFacts ==
  ASSUME NEW n \in Nat, NEW k, NEW j, IsNext(n, k, j)
  PROVE  /\ k \in Nat \ {0} /\ j \in DOMAIN FaceSteps /\ Turn(k, j) = n + 1
         /\ \A l \in Nat : l < k => n >= Len(FaceSteps) * l
         /\ \A a \in Nat \ {0}, b \in DOMAIN FaceSteps :
              /\ Turn(a, b) = n + 1 => a = k /\ b = j
              /\ Turn(a, b) <= n + 1 <=> Turn(a, b) <= n \/ Turn(a, b) = n + 1
<1>1. Len(FaceSteps) = 4 /\ DOMAIN FaceSteps = 1..4
  BY DEF FaceSteps
<1> DEFINE q == n \div 4
           r == n % 4
<1>2. q \in Nat /\ r \in 0..3 /\ n = 4 * q + r
  OBVIOUS
<1>3. k = q + 1 /\ j = r + 1
  BY <1>1 DEF IsNext
<1> HIDE DEF q, r
<1>4. k \in Nat \ {0} /\ j \in DOMAIN FaceSteps /\ Turn(k, j) = n + 1
  BY <1>1, <1>2, <1>3 DEF Turn
<1>5. ASSUME NEW l \in Nat, l < k PROVE n >= Len(FaceSteps) * l
  BY <1>1, <1>2, <1>3, <1>5
<1>6. ASSUME NEW a \in Nat \ {0}, NEW b \in DOMAIN FaceSteps
      PROVE  /\ Turn(a, b) = n + 1 => a = k /\ b = j
             /\ Turn(a, b) <= n + 1 <=> Turn(a, b) <= n \/ Turn(a, b) = n + 1
  <2>1. Turn(a, b) = 4 * (a - 1) + b /\ b \in 1..4
    BY <1>1 DEF Turn
  <2> QED
    BY <1>2, <1>3, <2>1
<1> QED
  BY <1>4, <1>5, <1>6

\* The next transaction is on a face that exists, with its id; if the card is new
\* there is nothing yet of what it is to write.
LEMMA NextFace ==
  ASSUME IInv, NEW c \in Todo, FacesLeft(c)
  PROVE  /\ FaceIndex(c) \in DOMAIN Data[c].faces
         /\ FaceStep(c) \in Steps
         /\ IsFace(Face(c)) /\ Face(c) \in ToSet(Data[c].faces)
         /\ FaceId(c) \in 1..(nextId - 1)
         /\ \E r \in faceRow : r.id = FaceId(c) /\ r.card = c
         /\ isNew[c] => RowsAt(typeRow, transRow, FaceId(c), FaceStep(c)) = {}
<1>1. PICK card, s, n : card = Data[c] /\ s = ids[c] /\ n = at[c]
  OBVIOUS
<1>2. PICK k, j : IsNext(n, k, j)
  BY DEF IsNext
<1>3. n \in Nat
  BY <1>1 DEF IInv, Typed
<1>4. k \in Nat \ {0} /\ j \in DOMAIN FaceSteps /\ Turn(k, j) = n + 1
  BY <1>2, <1>3, TurnFacts
<1>5. IsCard(card)
  BY <1>1, TodoFacts DEF IInv
<1>6. FaceIndex(c) = k /\ FaceStep(c) = FaceSteps[j] /\ Face(c) = card.faces[k] /\ FaceId(c) = s[k]
  BY <1>1, <1>2 DEF IsNext, FaceIndex, FaceStep, Face, FaceId
<1>7. k \in DOMAIN card.faces
  BY <1>1, <1>4, <1>5, <1>6, CardFacts DEF FacesLeft
<1>8. Merged(c) /\ MergedInv(c)
  BY DEF FacesLeft, Merged, IInv
<1>9. /\ Holds(c, card, s)
      /\ Progress(typeRow, transRow, card.faces, s, n, isNew[c])
  BY <1>1, <1>8 DEF MergedInv
<1>10. FaceSteps[j] \in Steps
  BY <1>4 DEF FaceSteps, Steps, Kinds
<1>11. s[k] \in 1..(nextId - 1)
  BY <1>7, <1>9 DEF Holds, Identify
<1>12. \E r \in faceRow : r.id = s[k] /\ r.card = c
  <2>1. AddFace(c, s[k], card.faces[k]) \in RowsOf(c)
    BY <1>7, <1>9 DEF Holds, FaceRows
  <2> QED
    BY <2>1 DEF AddFace, RowsOf
<1>13. isNew[c] => RowsAt(typeRow, transRow, s[k], FaceSteps[j]) = {}
  <2>1. ~ Turn(k, j) <= n
    BY <1>3, <1>4
  <2> QED
    BY <1>4, <1>7, <1>9, <2>1 DEF Progress
<1> QED
  BY <1>1, <1>5, <1>6, <1>7, <1>10, <1>11, <1>12, <1>13, CardFacts

\* A step that writes all of what a transaction on a face is to write, and nothing
\* else.
Writes(id, f, step) ==
  /\ KeysInv'
  /\ \A t \in typeRow' : t.kind \in Kinds
  /\ RowsAt(typeRow', transRow', id, step) = RowsFor(id, f, step)
  /\ \A i : \A v \in Steps : i # id \/ v # step =>
       RowsAt(typeRow', transRow', i, v) = RowsAt(typeRow, transRow, i, v)

\* One transaction on a face more is over.
LEMMA AdvanceStep ==
  ASSUME IInv, NEW c \in Todo, FacesLeft(c), Advance(c),
         NEW id, id = FaceId(c), NEW step, step = FaceStep(c), NEW f, f = Face(c),
         Writes(id, f, step)
  PROVE  IInv'
<1> USE DEF Writes
<1>1. /\ Typed /\ KeysInv /\ (\A d \in Cards : CardInv(d))
      /\ \A d \in Todo : LabelInv(d) /\ MergedInv(d)
      /\ \A d \in Todo : pc[d] = "rejected" => BadCard(Data[d])
  BY DEF IInv, OnlyBadCardsAreRejected, BadCard
<1>2. Todo' = Todo /\ \A d : Data'[d] = Data[d]
  BY DEF Todo, Data, Advance
<1>3. UNCHANGED <<plan, run, pc, isNew, ids, cardRow, faceRow, nextId>>
  BY DEF Advance
<1>4. at \in [Todo -> Nat] /\ at' = [at EXCEPT ![c] = @ + 1]
  BY <1>1 DEF Typed, Advance
<1>5. at' \in [Todo -> Nat] /\ at'[c] = at[c] + 1 /\ \A d \in Todo : d # c => at'[d] = at[d]
  BY <1>4
<1>6. pc[c] = "faces"
  BY DEF FacesLeft
<1>7. Typed'
  BY <1>1, <1>2, <1>3, <1>5 DEF Typed
<1>8. nextId \in Nat /\ run \in Nat
  BY <1>1, PlanFacts DEF Typed
<1>9. \A d : RowsOf(d)' = RowsOf(d)
  BY <1>3 DEF RowsOf
<1>10. ASSUME NEW d \in Cards PROVE CardInv(d)'
  <2>1. CardInv(d)
    BY <1>1
  <2> QED
    BY <1>3, <1>8, <1>9, <2>1, CardStays
<1>11. ASSUME NEW d \in Todo PROVE LabelInv(d)'
  BY <1>1, <1>2, <1>3, <1>5, <1>6 DEF LabelInv
<1>12. ASSUME NEW d \in Todo, d # c PROVE MergedInv(d)'
  <2>1. MergedInv(d) /\ (Merged(d)' => Merged(d))
    BY <1>1, <1>3 DEF Merged
  <2>2. \A r \in RowsOf(d) : r.id # id
    <3>1. PICK q \in faceRow : q.id = id /\ q.card = c
      BY NextFace
    <3> QED
      BY <1>1, <1>12, <3>1 DEF KeysInv, RowsOf
  <2>3. \A r \in RowsOf(d) : \A v \in Steps :
          RowsAt(typeRow, transRow, r.id, v)' = RowsAt(typeRow, transRow, r.id, v)
    BY <2>2
  <2>4. at'[d] = at[d]
    BY <1>5, <1>12
  <2> QED
    BY <1>3, <1>8, <1>9, <2>1, <2>3, <2>4, MergedStays
<1>13. MergedInv(c)'
  <2>1. PICK card, s, n, new : card = Data[c] /\ s = ids[c] /\ n = at[c] /\ new = isNew[c]
    OBVIOUS
  <2>2. PICK k, j : IsNext(n, k, j)
    BY DEF IsNext
  <2>3. Merged(c) /\ MergedInv(c) /\ n \in Nat
    BY <1>1, <1>4, <1>6, <2>1 DEF Merged
  <2>4. Holds(c, card, s) /\ Progress(typeRow, transRow, card.faces, s, n, new)
    BY <2>1, <2>3 DEF MergedInv
  <2>5. Holds(c, card, s)'
    BY <1>3, <1>8, <1>9, <2>4, HoldsStays
  <2>6. /\ k = FaceIndex(c) /\ step = FaceSteps[j] /\ id = s[k] /\ Face(c) = card.faces[k]
    BY <2>1, <2>2 DEF IsNext, FaceIndex, FaceStep, FaceId, Face
  <2>7. /\ j \in DOMAIN FaceSteps /\ k \in DOMAIN card.faces /\ Turn(k, j) = n + 1
        /\ \A a \in Nat \ {0}, b \in DOMAIN FaceSteps :
              /\ Turn(a, b) = n + 1 => a = k /\ b = j
              /\ Turn(a, b) <= n + 1 <=> Turn(a, b) <= n \/ Turn(a, b) = n + 1
    BY <2>1, <2>2, <2>3, <2>6, TurnFacts, NextFace
  <2>8. \A a \in DOMAIN card.faces : a \in Nat \ {0}
    <3>1. IsCard(card)
      BY <1>1, <2>1, TodoFacts
    <3>2. DOMAIN card.faces = 1..Len(card.faces) /\ Len(card.faces) \in Nat
      BY <3>1, CardFacts
    <3> QED
      BY <3>2
  <2>9. \A a, b \in DOMAIN FaceSteps : FaceSteps[a] = FaceSteps[b] => a = b
    BY DEF FaceSteps
  <2>10. \A b \in DOMAIN FaceSteps : FaceSteps[b] \in Steps
    BY DEF FaceSteps, Steps, Kinds
  <2>11. ASSUME NEW a \in DOMAIN card.faces, NEW b \in DOMAIN FaceSteps
         PROVE  IF Turn(a, b) <= n + 1
                THEN RowsAt(typeRow', transRow', s[a], FaceSteps[b])
                       = RowsFor(s[a], card.faces[a], FaceSteps[b])
                ELSE new => RowsAt(typeRow', transRow', s[a], FaceSteps[b]) = {}
    <3>1. CASE a = k /\ b = j
      BY <2>3, <2>6, <2>7, <3>1
    <3>2. CASE ~ (a = k /\ b = j)
      <4>1. Turn(a, b) <= n + 1 <=> Turn(a, b) <= n
        BY <2>7, <2>8, <3>2
      <4>2. s[a] # id \/ FaceSteps[b] # step
        BY <2>4, <2>6, <2>7, <2>9, <3>2 DEF Holds, Identify
      <4>3. RowsAt(typeRow', transRow', s[a], FaceSteps[b])
              = RowsAt(typeRow, transRow, s[a], FaceSteps[b])
        BY <2>10, <4>2
      <4>4. IF Turn(a, b) <= n
            THEN RowsAt(typeRow, transRow, s[a], FaceSteps[b])
                   = RowsFor(s[a], card.faces[a], FaceSteps[b])
            ELSE new => RowsAt(typeRow, transRow, s[a], FaceSteps[b]) = {}
        BY <2>4 DEF Progress
      <4> QED
        BY <4>1, <4>3, <4>4
    <3> QED
      BY <3>1, <3>2
  <2>12. Progress(typeRow', transRow', card.faces, s, n + 1, new)
    BY <2>11 DEF Progress
  <2>13. Data'[c] = card /\ ids'[c] = s /\ at'[c] = n + 1 /\ isNew'[c] = new
    BY <1>2, <1>3, <1>5, <2>1
  <2>14. Holds(c, Data[c], ids[c])'
    BY <2>5, <2>13 DEF Holds
  <2>15. Progress(typeRow, transRow, Data[c].faces, ids[c], at[c], isNew[c])'
    BY <2>12, <2>13
  <2> QED
    BY <2>14, <2>15 DEF MergedInv
<1>14. ASSUME NEW d \in Todo, pc'[d] = "rejected" PROVE BadCard(Data'[d])
  BY <1>1, <1>2, <1>3, <1>14
<1>15. OnlyBadCardsAreRejected'
  BY <1>2, <1>14 DEF OnlyBadCardsAreRejected, BadCard
<1> QED
  BY <1>2, <1>7, <1>10, <1>11, <1>12, <1>13, <1>15 DEF IInv

\* mergeTypes leaves the types of the data set for this face and kind, and touches
\* no other row.
LEMMA MergeTypesWrites ==
  ASSUME IInv, NEW c \in Todo, MergeTypes(c),
         NEW id, id = FaceId(c), NEW step, step = FaceStep(c), NEW f, f = Face(c)
  PROVE  FacesLeft(c) /\ Advance(c) /\ Writes(id, f, step)
<1>1. id = FaceId(c) /\ step = FaceStep(c) /\ f = Face(c)
  OBVIOUS
<1> DEFINE names == ToSet(f.types[step])
           mine == {t \in typeRow : t.face = id /\ t.kind = step}
<1>2. /\ FacesLeft(c) /\ step \in Kinds /\ Advance(c) /\ transRow' = transRow
      /\ typeRow' = (typeRow \ Known(c, mine)) \cup TypeRows(id, step, names)
  BY <1>1 DEF MergeTypes, TypeRows
<1>3. step # "translation"
  BY <1>2 DEF Kinds
<1>4. (\E r \in faceRow : r.id = id) /\ (isNew[c] => RowsAt(typeRow, transRow, id, step) = {})
  BY <1>1, <1>2, NextFace
<1>5. RowsAt(typeRow, transRow, id, step) = mine
  BY <1>3 DEF RowsAt
<1>6. Known(c, mine) = mine
  BY <1>4, <1>5 DEF Known
<1> HIDE DEF names
<1>7. typeRow' = (typeRow \ mine) \cup TypeRows(id, step, names)
  BY <1>2, <1>6
<1>8. \A t \in TypeRows(id, step, names) : IsTypeRow(t) /\ t.face = id /\ t.kind = step
  BY DEF TypeRows, IsTypeRow
<1>9. KeysInv /\ \A t \in typeRow : t.kind \in Kinds
  BY DEF IInv, Typed
<1>10. faceRow' = faceRow
  BY <1>2 DEF Advance
<1>11. KeysInv'
  BY <1>2, <1>4, <1>7, <1>8, <1>9, <1>10 DEF KeysInv
<1>12. \A t \in typeRow' : t.kind \in Kinds
  BY <1>2, <1>7, <1>8, <1>9
<1>13. RowsAt(typeRow', transRow', id, step) = RowsFor(id, f, step)
  <2>1. RowsFor(id, f, step) = TypeRows(id, step, names)
    BY <1>3 DEF RowsFor, names
  <2>2. {t \in typeRow' : t.face = id /\ t.kind = step} = TypeRows(id, step, names)
    BY <1>7, <1>8
  <2> QED
    BY <1>3, <2>1, <2>2 DEF RowsAt
<1>14. ASSUME NEW i, NEW v \in Steps, i # id \/ v # step
       PROVE  RowsAt(typeRow', transRow', i, v) = RowsAt(typeRow, transRow, i, v)
  <2>1. {t \in typeRow' : t.face = i /\ t.kind = v} = {t \in typeRow : t.face = i /\ t.kind = v}
    BY <1>7, <1>8, <1>14
  <2> QED
    BY <1>2, <2>1 DEF RowsAt
<1> HIDE DEF mine
<1> QED
  BY <1>2, <1>11, <1>12, <1>13, <1>14 DEF Writes

\* mergeFaceTranslations leaves the translations of the data set for this face, and
\* touches no other row.
LEMMA MergeTranslationsWrites ==
  ASSUME IInv, NEW c \in Todo, MergeTranslations(c),
         NEW id, id = FaceId(c), NEW step, step = FaceStep(c), NEW f, f = Face(c)
  PROVE  FacesLeft(c) /\ Advance(c) /\ Writes(id, f, step)
<1>1. id = FaceId(c) /\ f = Face(c) /\ step = FaceStep(c)
  OBVIOUS
<1> DEFINE tt == f.translations
           mine == {t \in transRow : t.face = id}
           old == Known(c, mine)
<1>2. /\ FacesLeft(c) /\ FaceStep(c) = "translation" /\ Advance(c) /\ typeRow' = typeRow
      /\ NoRepeatedLang(tt)
      /\ transRow' = (transRow \ old) \cup UpdatedTranslations(tt, old)
                       \cup AddedTranslations(tt, old, id)
  BY <1>1 DEF MergeTranslations
<1>3. /\ \E r \in faceRow : r.id = id
      /\ isNew[c] => RowsAt(typeRow, transRow, id, "translation") = {}
      /\ IsFace(f)
  BY <1>1, <1>2, NextFace
<1>4. RowsAt(typeRow, transRow, id, "translation") = mine
  BY DEF RowsAt
<1>5. Known(c, mine) = mine
  BY <1>3, <1>4 DEF Known
<1>6. KeysInv /\ \A t \in typeRow : t.kind \in Kinds
  BY DEF IInv, Typed
<1>7. IsList(tt) /\ \A i \in DOMAIN tt : IsTranslation(tt[i])
  BY <1>3 DEF IsFace, ToSet
<1> HIDE DEF tt
<1>8. \A t \in mine : IsTransRow(t) /\ t.face = id
  BY <1>6 DEF KeysInv
<1>9. UpdatedTranslations(tt, mine) \cup AddedTranslations(tt, mine, id) = TranslationRows(id, tt)
  <2> HIDE DEF mine
  <2> QED
    BY <1>2, <1>7, <1>8, TranslationsMerged
<1>10. transRow' = (transRow \ mine) \cup TranslationRows(id, tt)
  BY <1>2, <1>5, <1>9
<1>11. \A t \in TranslationRows(id, tt) : IsTransRow(t) /\ t.face = id
  BY <1>7 DEF TranslationRows, IsTransRow, IsTranslation
<1>12. faceRow' = faceRow
  BY <1>2 DEF Advance
<1>13. KeysInv'
  BY <1>2, <1>3, <1>6, <1>10, <1>11, <1>12 DEF KeysInv
<1>14. RowsAt(typeRow', transRow', id, "translation") = RowsFor(id, f, "translation")
  <2>1. RowsFor(id, f, "translation") = TranslationRows(id, tt)
    BY DEF RowsFor, tt
  <2>2. {t \in transRow' : t.face = id} = TranslationRows(id, tt)
    BY <1>10, <1>11
  <2> QED
    BY <2>1, <2>2 DEF RowsAt
<1>15. ASSUME NEW i, NEW v \in Steps, i # id \/ v # "translation"
       PROVE  RowsAt(typeRow', transRow', i, v) = RowsAt(typeRow, transRow, i, v)
  <2>1. CASE i # id
    <3>1. {t \in transRow' : t.face = i} = {t \in transRow : t.face = i}
      BY <1>10, <1>11, <2>1
    <3> QED
      BY <1>2, <3>1 DEF RowsAt
  <2>2. CASE v # "translation"
    BY <1>2, <2>2 DEF RowsAt
  <2> QED
    BY <1>15, <2>1, <2>2
<1> HIDE DEF mine, old
<1> QED
  BY <1>1, <1>2, <1>6, <1>13, <1>14, <1>15 DEF Writes

\* A transaction on a face.
LEMMA FaceTransactionStep ==
  ASSUME IInv, NEW c \in Todo, MergeTypes(c) \/ MergeTranslations(c)
  PROVE  IInv'
<1>1. PICK id, step, f : id = FaceId(c) /\ step = FaceStep(c) /\ f = Face(c)
  OBVIOUS
<1>2. FacesLeft(c) /\ Advance(c) /\ Writes(id, f, step)
  BY <1>1, MergeTypesWrites, MergeTranslationsWrites
<1> QED
  BY <1>1, <1>2, AdvanceStep

\* The merge of card and faces always ends well: a card that is refused is invalid.
LEMMA RejectCardStep ==
  ASSUME IInv, NEW c \in Todo, RejectCard(c)
  PROVE  IInv'
<1>1. ~ Data[c].valid
  BY MergeFacts DEF RejectCard
<1>2. BadCard(Data[c])
  BY <1>1 DEF BadCard
<1> QED
  BY <1>2, LabelStep DEF RejectCard, database

\* Every face has an id: one that is refused repeats a type or a language.
LEMMA RejectFaceStep ==
  ASSUME IInv, NEW c \in Todo, RejectFace(c)
  PROVE  IInv'
<1>1. PICK step, f : step = FaceStep(c) /\ f = Face(c)
  OBVIOUS
<1>2. FacesLeft(c)
  BY DEF RejectFace
<1>3. nextId \in Nat
  BY DEF IInv, Typed
<1>4. FaceId(c) # 0 /\ f \in ToSet(Data[c].faces) /\ step \in Steps
  BY <1>1, <1>2, <1>3, NextFace
<1>5. IF step = "translation" THEN ~ NoRepeatedLang(f.translations)
      ELSE ~ NoRepeatedName(f.types[step])
  BY <1>1, <1>4 DEF RejectFace
<1>6. BadCard(Data[c])
  BY <1>4, <1>5 DEF BadCard, Steps
<1> QED
  BY <1>6, LabelStep DEF RejectFace, database

\* A card is done when the transactions on all of its faces are over.
LEMMA FinishStep ==
  ASSUME IInv, NEW c \in Todo, Finish(c)
  PROVE  IInv'
<1>1. PICK card, n : card = Data[c] /\ n = at[c]
  OBVIOUS
<1>2. PICK k, j : IsNext(n, k, j)
  BY DEF IsNext
<1>3. n \in Nat /\ IsCard(card)
  BY <1>1, TodoFacts DEF IInv, Typed
<1>4. Len(card.faces) \in Nat
  BY <1>3, CardFacts
<1>5. pc[c] = "faces" /\ ~ k <= Len(card.faces)
  BY <1>1, <1>2 DEF Finish, FacesLeft, FaceIndex, IsNext
<1>6. k \in Nat \ {0} /\ \A l \in Nat : l < k => n >= Len(FaceSteps) * l
  BY <1>2, <1>3, TurnFacts
<1>7. Len(card.faces) < k
  BY <1>4, <1>5, <1>6
<1>8. n >= Len(FaceSteps) * Len(card.faces)
  BY <1>4, <1>6, <1>7
<1>9. Merged(c) /\ at[c] >= Len(FaceSteps) * Len(Data[c].faces)
  BY <1>1, <1>5, <1>8 DEF Merged
<1> QED
  BY <1>9, LabelStep DEF Finish, database

\* A transaction that fails leaves nothing behind.
LEMMA TransactionFailsStep ==
  ASSUME IInv, NEW c \in Todo, TransactionFails(c)
  PROVE  IInv'
BY LabelStep DEF TransactionFails, RolledBack

\* Diff looks at one of border, rarity and layout only, but at all until one differs:
\* a card without a difference is the same, and else all columns are written.
LEMMA UpdateCardFacts ==
  ASSUME NEW row \in Attrs, NEW attrs \in Attrs
  PROVE  UpdateCard(row, attrs) = attrs
<1>1. row = [k \in CardColumns |-> row[k]] /\ attrs = [k \in CardColumns |-> attrs[k]]
  BY CardImportAssumption DEF HasColumns
<1>2. CASE CardDiff(row, attrs) = {}
  <2> DEFINE I == {i \in 1..Len(Switched) : row[Switched[i]] # attrs[Switched[i]]}
             i == SelectInSeq(Switched, LAMBDA k : row[k] # attrs[k])
  <2>1. i = IF I # {} THEN Min(I) ELSE 0
    BY DEF SelectInSeq
  <2>2. CardDiff(row, attrs)
          = Changed({"name"}, row, attrs) \cup (IF i = 0 THEN {} ELSE {Switched[i]})
    BY DEF CardDiff
  <2>3. Len(Switched) = 3 /\ Switched[1] = "border" /\ Switched[2] = "rarity"
        /\ Switched[3] = "layout"
    BY DEF Switched
  <2> HIDE DEF i
  <2>4. i = 0 /\ Changed({"name"}, row, attrs) = {}
    BY <1>2, <2>2
  <2>5. I = {}
    <3>1. I # {} => Min(I) \in I
      <4> SUFFICES ASSUME I # {} PROVE Min(I) \in I
        OBVIOUS
      <4>1. I \in SUBSET Nat
        OBVIOUS
      <4> HIDE DEF I
      <4>2. \E n \in I : \A k \in I : n <= k
        BY <4>1, Least
      <4> QED
        BY <4>2, Zenon DEF Min
    <3>2. 0 \notin I
      OBVIOUS
    <3> HIDE DEF I
    <3> QED
      BY <2>1, <2>4, <3>1, <3>2
  <2>6. \A n \in 1..3 : row[Switched[n]] = attrs[Switched[n]]
    BY <2>3, <2>5
  <2>7. row["name"] = attrs["name"]
    BY <2>4 DEF Changed
  <2>8. \A k \in CardColumns : row[k] = attrs[k]
    BY <2>3, <2>6, <2>7 DEF CardColumns
  <2>9. row = attrs
    BY <1>1, <2>8
  <2> QED
    BY <1>2, <2>9 DEF UpdateCard
<1>3. CASE CardDiff(row, attrs) # {}
  BY <1>3 DEF UpdateCard
<1> QED
  BY <1>2, <1>3

\* After its transaction the card has the attributes of the data set.
LEMMA MergeCardFacts ==
  ASSUME Typed, NEW c \in Todo
  PROVE  MergeCard(c) = Data[c].attrs /\ Data[c].attrs \in Attrs /\ Data[c].attrs # None
<1>1. c \in Cards /\ Data[c].attrs \in Attrs /\ Data[c].attrs # None
  BY TodoFacts, CardFacts
<1>2. cardRow[c] \in Attrs \cup {None}
  BY <1>1 DEF Typed
<1> QED
  BY <1>1, <1>2, UpdateCardFacts DEF MergeCard

\* A face of the card has the id of a row of the card, or a new one.
LEMMA IdsOfOthers ==
  ASSUME IInv, NEW c \in Todo, NEW m \in Merges(c),
         NEW k \in DOMAIN Data[c].faces, NEW r \in faceRow, r.card # c
  PROVE  FaceIds(Data[c].faces, m)[k] # r.id
<1>1. PICK ff, s : ff = Data[c].faces /\ s = FaceIds(ff, m)
  OBVIOUS
<1>2. /\ Matching(ff, RowsOf(c), m)
      /\ IF k \in ToSet(m.left) THEN s[k] \notin 1..(nextId - 1) ELSE <<k, s[k]>> \in m.kept
  BY <1>1, MergeFacts
<1>3. r.id \in 1..(nextId - 1) /\ \A q \in faceRow : q.id = r.id => q = r
  BY DEF IInv, Typed, KeysInv
<1>4. CASE k \in ToSet(m.left)
  BY <1>1, <1>2, <1>3, <1>4
<1>5. CASE k \notin ToSet(m.left)
  <2>1. <<k, s[k]>> \in m.kept
    BY <1>2, <1>5
  <2>2. <<k, s[k]>>[2] = s[k]
    OBVIOUS
  <2>3. \E q \in RowsOf(c) : q.id = s[k]
    BY <1>2, <2>1, <2>2 DEF Matching
  <2> QED
    BY <1>1, <1>3, <2>3 DEF RowsOf
<1> QED
  BY <1>4, <1>5

\* A row that is not deleted is one of the faces afterwards.
LEMMA KeptRow ==
  ASSUME IInv, NEW c \in Todo, NEW m \in Merges(c), NEW r \in RowsOf(c), r.id \notin m.gone
  PROVE  \E k \in DOMAIN Data[c].faces :
           /\ FaceIds(Data[c].faces, m)[k] = r.id
           /\ Data[c].faces[k].ident = r.ident
<1>1. PICK ff, s : ff = Data[c].faces /\ s = FaceIds(ff, m)
  OBVIOUS
<1>2. /\ Matching(ff, RowsOf(c), m)
      /\ \A k \in DOMAIN ff :
           IF k \in ToSet(m.left) THEN s[k] \notin 1..(nextId - 1) ELSE <<k, s[k]>> \in m.kept
  BY <1>1, MergeFacts
<1>3. /\ \A k \in DOMAIN ff : k \in ToSet(m.left) <=> ~ KeepsFace(m, k)
      /\ \A x, y \in m.kept : x[1] = y[1] \/ x[2] = y[2] => x = y
      /\ \A x \in m.kept : \E q \in RowsOf(c) : q.id = x[2] /\ q.ident = ff[x[1]].ident
      /\ \A q \in RowsOf(c) : q.id \in m.gone <=> ~ KeepsRow(ff, m, q.id)
      /\ m.kept \in SUBSET ((DOMAIN ff) \X Nat)
  BY <1>2 DEF Matching, Matched
<1>4. PICK k \in DOMAIN ff : <<k, r.id>> \in m.kept
  BY <1>3 DEF KeepsRow
<1>5. k \notin ToSet(m.left)
  BY <1>3, <1>4 DEF KeepsFace
<1>6. <<k, s[k]>> \in m.kept
  BY <1>2, <1>5
<1>7. <<k, s[k]>> = <<k, r.id>>
  BY <1>3, <1>4, <1>6
<1>8. PICK q \in RowsOf(c) : q.id = r.id /\ q.ident = ff[k].ident
  BY <1>3, <1>4
<1>9. q = r
  BY <1>8 DEF IInv, KeysInv, RowsOf
<1> QED
  BY <1>1, <1>7, <1>8, <1>9

\* What the transaction on the card and its faces does to the tables.
LEMMA ImportCardEffect ==
  ASSUME IInv, NEW c \in Todo, ImportCard(c)
  PROVE  \E m \in Merges(c) :
           LET ff == Data[c].faces
               s  == FaceIds(ff, m)
           IN  /\ Matching(ff, RowsOf(c), m)
               /\ Len(m.left) \in Nat /\ nextId' = nextId + Len(m.left)
               /\ Identify(s, ff, nextId') /\ ids' = [ids EXCEPT ![c] = s]
               /\ faceRow' = (faceRow \ RowsOf(c)) \cup FaceRows(c, ff, s)
               /\ typeRow' = {t \in typeRow : t.face \notin m.gone}
               /\ transRow' = {t \in transRow : t.face \notin m.gone}
<1>1. PICK m \in Merges(c) :
        /\ MergeHolds(c, m)
        /\ faceRow' = (faceRow \ RowsOf(c)) \cup RowsAfter(c, Data[c].faces, m)
        /\ typeRow' = TypesWithout(m.gone)
        /\ transRow' = TranslationsWithout(m.gone)
        /\ ids' = [ids EXCEPT ![c] = FaceIds(Data[c].faces, m)]
        /\ nextId' = nextId + Len(m.left)
  BY DEF ImportCard
<1>2. PICK ff, s : ff = Data[c].faces /\ s = FaceIds(ff, m)
  OBVIOUS
<1>3. /\ Matching(ff, RowsOf(c), m)
      /\ RowsAfter(c, ff, m) = FaceRows(c, ff, s)
      /\ Len(m.left) \in Nat
      /\ Identify(s, ff, nextId + Len(m.left))
  BY <1>2, MergeFacts
<1>4. TypesWithout(m.gone) = {t \in typeRow : t.face \notin m.gone}
  BY TypesWithoutFacts DEF IInv, Typed
<1>5. TranslationsWithout(m.gone) = {t \in transRow : t.face \notin m.gone}
  BY DEF TranslationsWithout
<1> QED
  BY <1>1, <1>2, <1>3, <1>4, <1>5

\* The transaction on the card and its faces.
LEMMA ImportCardStep ==
  ASSUME IInv, NEW c \in Todo, ImportCard(c)
  PROVE  IInv'
<1>1. /\ Typed /\ KeysInv /\ (\A d \in Cards : CardInv(d))
      /\ \A d \in Todo : LabelInv(d) /\ MergedInv(d)
      /\ \A d \in Todo : pc[d] = "rejected" => BadCard(Data[d])
  BY DEF IInv, OnlyBadCardsAreRejected, BadCard
<1>2. PICK card, ff : card = Data[c] /\ ff = Data[c].faces
  OBVIOUS
<1>3. PICK m \in Merges(c) :
        /\ Matching(ff, RowsOf(c), m)
        /\ Len(m.left) \in Nat /\ nextId' = nextId + Len(m.left)
        /\ Identify(FaceIds(ff, m), ff, nextId') /\ ids' = [ids EXCEPT ![c] = FaceIds(ff, m)]
        /\ faceRow' = (faceRow \ RowsOf(c)) \cup FaceRows(c, ff, FaceIds(ff, m))
        /\ typeRow' = {t \in typeRow : t.face \notin m.gone}
        /\ transRow' = {t \in transRow : t.face \notin m.gone}
  BY <1>2, ImportCardEffect
<1>4. PICK s : s = FaceIds(ff, m)
  OBVIOUS
<1>5. /\ pc[c] = "card" /\ UNCHANGED <<plan, run, at>>
      /\ pc' = [pc EXCEPT ![c] = "faces"]
      /\ cardRow' = [cardRow EXCEPT ![c] = card.attrs]
      /\ isNew' = [isNew EXCEPT ![c] = cardRow[c] = None]
  <2>1. MergeCard(c) = card.attrs
    BY <1>1, <1>2, MergeCardFacts
  <2> QED
    BY <2>1 DEF ImportCard, Goto
<1>6. Todo' = Todo /\ \A d : Data'[d] = Data[d]
  BY <1>5 DEF Todo, Data
<1>7. c \in Cards /\ IsCard(card) /\ card.attrs \in Attrs /\ card.attrs # None
  BY <1>1, <1>2, TodoFacts, CardFacts
<1>8. IsList(ff) /\ DOMAIN ff = 1..Len(ff) /\ Len(ff) \in Nat
  BY <1>2, <1>7, CardFacts
<1>9. /\ nextId \in Nat \ {0} /\ nextId' \in Nat \ {0} /\ nextId <= nextId'
      /\ run \in Nat /\ run \in 1..run
  BY <1>1, <1>3, PlanFacts DEF Typed
<1>10. \A id \in 1..(nextId - 1) : id \in 1..(nextId' - 1)
  BY <1>9, Below
<1>11. /\ s \in [DOMAIN ff -> 1..(nextId' - 1)]
       /\ \A j, k \in DOMAIN ff : s[j] = s[k] => j = k
  BY <1>3, <1>4 DEF Identify
<1>12. ASSUME NEW q \in FaceRows(c, ff, s)
       PROVE  \E k \in DOMAIN ff : q = AddFace(c, s[k], ff[k]) /\ q.id = s[k] /\ q.card = c
  BY DEF FaceRows, AddFace
<1>13. ASSUME NEW r \in faceRow, r.card # c, NEW k \in DOMAIN ff PROVE s[k] # r.id
  BY <1>2, <1>4, <1>13, IdsOfOthers
<1>14. faceRow' = {r \in faceRow : r.card # c} \cup FaceRows(c, ff, s)
  BY <1>3, <1>4 DEF RowsOf
<1>15. Typed'
  <2>1. /\ pc' \in [Todo -> {"card", "faces", "done", "rejected", "failed"}]
        /\ isNew' \in [Todo -> BOOLEAN]
        /\ cardRow' \in [Cards -> Attrs \cup {None}]
    BY <1>1, <1>5, <1>7 DEF Typed
  <2>2. s \in Seq(1..(nextId' - 1))
    <3> DEFINE B == 1..(nextId' - 1)
               n == Len(ff)
    <3>1. s \in [1..n -> B] /\ n \in Nat
      BY <1>8, <1>11
    <3> HIDE DEF B, n
    <3>2. s \in Seq(B)
      BY <3>1
    <3> QED
      BY <3>2 DEF B
  <2>3. ids' \in [Todo -> Seq(1..(nextId' - 1))]
    <3>1. ids \in [Todo -> Seq(1..(nextId - 1))]
      BY <1>1 DEF Typed
    <3>2. Seq(1..(nextId - 1)) \subseteq Seq(1..(nextId' - 1))
      <4> DEFINE A == 1..(nextId - 1)
                 B == 1..(nextId' - 1)
      <4>1. \A x \in A : x \in B
        BY <1>10
      <4> HIDE DEF A, B
      <4>2. Seq(A) \subseteq Seq(B)
        BY <4>1
      <4> QED
        BY <4>2 DEF A, B
    <3> QED
      BY <1>3, <1>4, <2>2, <3>1, <3>2
  <2>4. \A r \in faceRow' : r.id \in 1..(nextId' - 1) /\ r.card \in Cards
    <3>1. \A r \in faceRow : r.id \in 1..(nextId' - 1) /\ r.card \in Cards
      BY <1>1, <1>10 DEF Typed
    <3>2. \A r \in FaceRows(c, ff, s) : r.id \in 1..(nextId' - 1) /\ r.card \in Cards
      BY <1>7, <1>11, <1>12
    <3> QED
      BY <1>14, <3>1, <3>2
  <2>5. \A t \in typeRow' : t.kind \in Kinds
    BY <1>1, <1>3 DEF Typed
  <2>6. plan' \in Plans /\ run' \in DOMAIN plan' /\ at' \in [Todo -> Nat]
    BY <1>1, <1>5 DEF Typed
  <2> QED
    BY <1>6, <1>9, <2>1, <2>3, <2>4, <2>5, <2>6 DEF Typed
<1>16. KeysInv'
  <2>1. ASSUME NEW q \in faceRow', NEW r \in faceRow', q.id = r.id PROVE q = r
    <3>1. CASE q.card # c /\ r.card # c
      BY <1>1, <1>12, <1>14, <2>1, <3>1 DEF KeysInv
    <3>2. CASE q.card = c /\ r.card = c
      <4>1. q \in FaceRows(c, ff, s) /\ r \in FaceRows(c, ff, s)
        BY <1>14, <3>2
      <4>2. PICK j \in DOMAIN ff : q = AddFace(c, s[j], ff[j]) /\ q.id = s[j]
        BY <1>12, <4>1
      <4>3. PICK k \in DOMAIN ff : r = AddFace(c, s[k], ff[k]) /\ r.id = s[k]
        BY <1>12, <4>1
      <4> QED
        BY <1>11, <2>1, <4>2, <4>3
    <3>3. CASE q.card = c /\ r.card # c
      <4>1. q \in FaceRows(c, ff, s) /\ r \in faceRow
        BY <1>12, <1>14, <3>3
      <4> QED
        BY <1>12, <1>13, <2>1, <3>3, <4>1
    <3>4. CASE q.card # c /\ r.card = c
      <4>1. r \in FaceRows(c, ff, s) /\ q \in faceRow
        BY <1>12, <1>14, <3>4
      <4> QED
        BY <1>12, <1>13, <2>1, <3>4, <4>1
    <3> QED
      BY <3>1, <3>2, <3>3, <3>4
  <2>2. ASSUME NEW t \in typeRow \cup transRow, t.face \notin m.gone
        PROVE  \E r \in faceRow' : t.face = r.id
    <3>1. PICK r \in faceRow : t.face = r.id
      BY <1>1 DEF KeysInv
    <3>2. CASE r.card # c
      BY <1>14, <3>1, <3>2
    <3>3. CASE r.card = c
      <4>1. r \in RowsOf(c) /\ r.id \notin m.gone
        BY <2>2, <3>1, <3>3 DEF RowsOf
      <4>2. PICK k \in DOMAIN ff : s[k] = r.id
        BY <1>2, <1>4, <4>1, KeptRow
      <4>3. AddFace(c, s[k], ff[k]) \in faceRow' /\ AddFace(c, s[k], ff[k]).id = r.id
        BY <1>14, <4>2 DEF FaceRows, AddFace
      <4> QED
        BY <3>1, <4>3
    <3> QED
      BY <3>2, <3>3
  <2>3. \A t \in typeRow' \cup transRow' : \E r \in faceRow' : t.face = r.id
    BY <1>3, <2>2
  <2>4. (\A t \in typeRow' : IsTypeRow(t)) /\ (\A t \in transRow' : IsTransRow(t))
    BY <1>1, <1>3 DEF KeysInv
  <2> QED
    BY <2>1, <2>3, <2>4 DEF KeysInv
<1>17. ASSUME NEW d \in Cards, d # c PROVE RowsOf(d)' = RowsOf(d) /\ cardRow'[d] = cardRow[d]
  <2>1. RowsOf(d)' = RowsOf(d)
    BY <1>12, <1>14, <1>17 DEF RowsOf
  <2>2. cardRow \in [Cards -> Attrs \cup {None}]
    BY <1>1 DEF Typed
  <2> QED
    BY <1>5, <1>17, <2>1, <2>2
<1>18. Holds(c, card, s)'
  <2>1. RowsOf(c)' = FaceRows(c, ff, s)
    BY <1>12, <1>14 DEF RowsOf
  <2>2. cardRow'[c] = card.attrs
    BY <1>1, <1>5, <1>7 DEF Typed
  <2> QED
    BY <1>2, <1>3, <1>4, <2>1, <2>2 DEF Holds
<1>19. ASSUME NEW d \in Cards PROVE CardInv(d)'
  <2>1. CASE d # c
    <3>1. CardInv(d) /\ RowsOf(d)' = RowsOf(d) /\ cardRow'[d] = cardRow[d]
      BY <1>1, <1>17, <2>1
    <3>2. plan' = plan /\ run' = run
      BY <1>5
    <3> QED
      BY <1>9, <3>1, <3>2, CardStays
  <2>2. CASE d = c
    <3>1. run' \in 1..run' /\ c \in DOMAIN plan'[run'] /\ plan'[run'][c] = card
      BY <1>2, <1>5, <1>9 DEF Todo, Data
    <3>2. cardRow'[c] # None
      BY <1>7, <1>18 DEF Holds
    <3>3. s \in IdsFor(card)'
      BY <1>2, <1>11 DEF IdsFor
    <3> QED
      BY <1>18, <2>2, <3>1, <3>2, <3>3 DEF CardInv, IdsFor, Holds
  <2> QED
    BY <2>1, <2>2
<1>20. /\ pc'[c] = "faces" /\ at'[c] = 0 /\ ids'[c] = s /\ isNew'[c] = (cardRow[c] = None)
       /\ \A d \in Todo : d # c => /\ pc'[d] = pc[d] /\ at'[d] = at[d]
                                   /\ ids'[d] = ids[d] /\ isNew'[d] = isNew[d]
  <2>1. /\ pc \in [Todo -> {"card", "faces", "done", "rejected", "failed"}]
        /\ isNew \in [Todo -> BOOLEAN] /\ ids \in [Todo -> Seq(1..(nextId - 1))]
    BY <1>1 DEF Typed
  <2>2. at[c] = 0
    BY <1>1, <1>5 DEF LabelInv
  <2> QED
    BY <1>3, <1>4, <1>5, <2>1, <2>2
<1>21. ASSUME NEW d \in Todo PROVE LabelInv(d)'
  BY <1>1, <1>6, <1>20 DEF LabelInv
<1>22. ASSUME NEW d \in Todo, d # c PROVE MergedInv(d)'
  <2>1. MergedInv(d) /\ (Merged(d)' => Merged(d)) /\ d \in Cards
    BY <1>1, <1>20, <1>22, TodoFacts DEF Merged
  <2>2. RowsOf(d)' = RowsOf(d) /\ cardRow'[d] = cardRow[d]
    BY <1>17, <1>22, <2>1
  <2>3. \A r \in RowsOf(d) : r.id \notin m.gone
    <3>1. \A id \in m.gone : \E q \in RowsOf(c) : q.id = id
      BY <1>3 DEF Matching
    <3> QED
      BY <1>1, <1>22, <3>1 DEF KeysInv, RowsOf
  <2>4. \A r \in RowsOf(d) : \A v \in Steps :
          RowsAt(typeRow, transRow, r.id, v)' = RowsAt(typeRow, transRow, r.id, v)
    BY <1>3, <2>3 DEF RowsAt
  <2>5. /\ at'[d] = at[d] /\ ids'[d] = ids[d] /\ isNew'[d] = isNew[d]
        /\ plan' = plan /\ run' = run /\ nextId \in Nat /\ nextId' \in Nat
    BY <1>5, <1>9, <1>20, <1>22
  <2> QED
    BY <1>9, <2>1, <2>2, <2>4, <2>5, MergedStays
<1>23. MergedInv(c)'
  <2>1. ASSUME NEW k \in DOMAIN ff, NEW j \in DOMAIN FaceSteps PROVE ~ Turn(k, j) <= 0
    <3>1. Len(FaceSteps) = 4 /\ j \in 1..4
      BY DEF FaceSteps
    <3> QED
      BY <1>8, <3>1 DEF Turn
  <2>2. ASSUME cardRow[c] = None, NEW k \in DOMAIN ff, NEW j \in DOMAIN FaceSteps
        PROVE  RowsAt(typeRow', transRow', s[k], FaceSteps[j]) = {}
    <3>1. \A r \in faceRow : r.card # c
      BY <1>1, <1>7, <2>2 DEF CardInv, RowsOf
    <3>2. \A r \in faceRow : r.id # s[k]
      BY <1>13, <3>1
    <3>3. \A t \in typeRow' \cup transRow' : t.face # s[k]
      BY <1>1, <1>3, <3>2 DEF KeysInv
    <3> QED
      BY <3>3 DEF RowsAt
  <2>3. PICK new : new = isNew'[c]
    OBVIOUS
  <2>4. Progress(typeRow', transRow', ff, s, 0, new)
    BY <1>20, <2>1, <2>2, <2>3 DEF Progress
  <2>5. Data'[c] = card
    BY <1>2, <1>6
  <2>6. Holds(c, Data[c], ids[c])'
    BY <1>18, <1>20, <2>5 DEF Holds
  <2>7. Progress(typeRow, transRow, Data[c].faces, ids[c], at[c], isNew[c])'
    BY <1>2, <1>20, <2>3, <2>4, <2>5
  <2> QED
    BY <2>6, <2>7 DEF MergedInv
<1>24. ASSUME NEW d \in Todo, pc'[d] = "rejected" PROVE BadCard(Data'[d])
  BY <1>1, <1>6, <1>20, <1>24
<1>25. OnlyBadCardsAreRejected'
  BY <1>6, <1>24 DEF OnlyBadCardsAreRejected, BadCard
<1> QED
  BY <1>6, <1>15, <1>16, <1>19, <1>21, <1>22, <1>23, <1>25 DEF IInv

\* The invariant is inductive.
LEMMA Inductive == Spec => []IInv
<1>1. Init => IInv
  BY StartInv
<1>2. IInv /\ [Next]_vars => IInv'
  <2> SUFFICES ASSUME IInv, [Next]_vars PROVE IInv'
    OBVIOUS
  <2>1. ASSUME NEW c \in Todo, Import(c) PROVE IInv'
    <3>1. CASE ImportCard(c)
      BY <3>1, ImportCardStep
    <3>2. CASE RejectCard(c)
      BY <3>2, RejectCardStep
    <3>3. CASE MergeTypes(c) \/ MergeTranslations(c)
      BY <3>3, FaceTransactionStep
    <3>4. CASE RejectFace(c)
      BY <3>4, RejectFaceStep
    <3>5. CASE Finish(c)
      BY <3>5, FinishStep
    <3> QED
      BY <2>1, <3>1, <3>2, <3>3, <3>4, <3>5 DEF Import
  <2>2. ASSUME NEW c \in Todo, TransactionFails(c) PROVE IInv'
    BY <2>2, TransactionFailsStep
  <2>3. CASE Crash \/ Again
    BY <2>3, NextRunStep DEF Crash, Again
  <2>4. CASE UNCHANGED vars
    <3>1. UNCHANGED <<plan, run, pc, isNew, at, ids, cardRow, faceRow, typeRow, transRow, nextId>>
      BY <2>4 DEF vars
    <3>2. Todo' = Todo /\ Data' = Data
      BY <3>1 DEF Todo, Data
    <3>3. Typed' /\ KeysInv' /\ OnlyBadCardsAreRejected'
      BY <3>1, <3>2 DEF IInv, Typed, KeysInv, OnlyBadCardsAreRejected
    <3>4. nextId \in Nat /\ run \in Nat
      BY PlanFacts DEF IInv, Typed
    <3>5. \A c : RowsOf(c)' = RowsOf(c)
      BY <3>1 DEF RowsOf
    <3>6. ASSUME NEW c \in Cards PROVE CardInv(c)'
      BY <3>1, <3>4, <3>5, CardStays DEF IInv
    <3>7. ASSUME NEW c \in Todo PROVE LabelInv(c)'
      BY <3>1, <3>2 DEF IInv, LabelInv
    <3>8. ASSUME NEW c \in Todo PROVE MergedInv(c)'
      <4>1. MergedInv(c) /\ (Merged(c)' => Merged(c))
        BY <3>1 DEF IInv, Merged
      <4>2. \A r \in RowsOf(c) : \A v \in Steps :
              RowsAt(typeRow, transRow, r.id, v)' = RowsAt(typeRow, transRow, r.id, v)
        BY <3>1
      <4> QED
        BY <3>1, <3>4, <3>5, <4>1, <4>2, MergedStays
    <3> QED
      BY <3>2, <3>3, <3>6, <3>7, <3>8 DEF IInv
  <2> QED
    BY <2>1, <2>2, <2>3, <2>4 DEF Next, Ended
<1> QED
  BY <1>1, <1>2, PTL DEF Spec

\* Whatever the data sets, and wherever an import dies, the variables have their
\* types and the tables their keys: a face never goes on with an id that the
\* database did not give it, no two faces have an id, and no type, translation or
\* face is left without the row it belongs to.
THEOREM TypeCorrect == Spec => []TypeOK
<1>1. ASSUME IInv PROVE TypeOK
  <2>1. Typed /\ KeysInv /\ \A c \in Cards : CardInv(c)
    BY <1>1 DEF IInv
  <2>2. ASSUME NEW r \in faceRow PROVE cardRow[r.card] # None
    <3>1. r.card \in Cards /\ r \in RowsOf(r.card)
      BY <2>1 DEF Typed, RowsOf
    <3> QED
      BY <2>1, <3>1 DEF CardInv
  <2> QED
    BY <2>1, <2>2 DEF TypeOK, KeysHold, KeysInv
<1> QED
  BY <1>1, Inductive, PTL

\* cardService.Import refuses a card only for what is wrong with the card itself:
\* never because a face that goes is still referred to, because the faces are not
\* as many as they should be, or because a face got no id.
THEOREM OnlyBadRejected == Spec => []OnlyBadCardsAreRejected
<1>1. IInv => OnlyBadCardsAreRejected
  BY DEF IInv
<1> QED
  BY <1>1, Inductive, PTL

\* At any time a card of the database has its attributes and all of its faces of
\* one data set.
THEOREM CardsAgree == Spec => []CardAndFacesAgree
<1>1. IInv => CardAndFacesAgree
  <2> SUFFICES ASSUME IInv, NEW c \in Cards, cardRow[c] # None
               PROVE  \E n \in 1..run :
                        /\ c \in DOMAIN plan[n]
                        /\ cardRow[c] = plan[n][c].attrs
                        /\ Cardinality(RowsOf(c)) = Len(plan[n][c].faces)
                        /\ \A r \in RowsOf(c) : \E f \in ToSet(plan[n][c].faces) :
                             r.ident = f.ident /\ r.data = f.data
    BY DEF CardAndFacesAgree
  <2>1. PICK n \in 1..run : /\ c \in DOMAIN plan[n]
                            /\ \E s \in IdsFor(plan[n][c]) : Holds(c, plan[n][c], s)
    BY DEF IInv, CardInv
  <2>2. PICK card : card = plan[n][c]
    OBVIOUS
  <2>3. IsCard(card)
    BY <2>1, <2>2, PlanFacts DEF IInv, Typed
  <2>4. PICK s : Holds(c, card, s)
    BY <2>1, <2>2
  <2>5. IsList(card.faces) /\ \A k \in DOMAIN card.faces : card.faces[k] \in ToSet(card.faces)
    BY <2>3, CardFacts
  <2>6. Cardinality(RowsOf(c)) = Len(card.faces)
    BY <2>4, <2>5, FaceRowsCount DEF Holds
  <2>7. \A r \in RowsOf(c) : \E f \in ToSet(card.faces) : r.ident = f.ident /\ r.data = f.data
    BY <2>4, <2>5 DEF Holds, FaceRows, AddFace
  <2>8. cardRow[c] = card.attrs
    BY <2>4 DEF Holds
  <2> QED
    BY <2>1, <2>2, <2>6, <2>7, <2>8
<1> QED
  BY <1>1, Inductive, PTL

\* When all transactions on a face are over, the tables hold what is given.
LEMMA StoredAsGiven ==
  ASSUME NEW r, NEW f, IsFace(f), r.ident = f.ident, r.data = f.data,
         \A v \in Steps : RowsAt(typeRow, transRow, r.id, v) = RowsFor(r.id, f, v)
  PROVE  Stored(r) = Given(f)
<1>1. ASSUME NEW k \in Kinds
      PROVE  {t.name : t \in {u \in typeRow : u.face = r.id /\ u.kind = k}} = ToSet(f.types[k])
  <2>1. k \in Steps /\ k # "translation"
    BY DEF Steps, Kinds
  <2>2. {u \in typeRow : u.face = r.id /\ u.kind = k} = TypeRows(r.id, k, ToSet(f.types[k]))
    BY <2>1 DEF RowsAt, RowsFor
  <2> DEFINE names == ToSet(f.types[k])
  <2> HIDE DEF names
  <2> DEFINE row(n) == [face |-> r.id, kind |-> k, name |-> n]
  <2>3. TypeRows(r.id, k, names) = {row(n) : n \in names} /\ \A n : row(n).name = n
    BY DEF TypeRows
  <2> HIDE DEF row
  <2>4. {t.name : t \in {row(n) : n \in names}} = names
    BY <2>3
  <2> QED
    BY <2>2, <2>3, <2>4 DEF names
<1>2. {[lang |-> t.lang, text |-> t.text] : t \in {u \in transRow : u.face = r.id}}
        = ToSet(f.translations)
  <2> DEFINE tt == f.translations
  <2>1. {u \in transRow : u.face = r.id} = TranslationRows(r.id, tt)
    BY DEF Steps, RowsAt, RowsFor
  <2>2. \A i \in DOMAIN tt : tt[i] = [lang |-> tt[i].lang, text |-> tt[i].text]
    BY DEF IsFace, IsTranslation, ToSet
  <2> HIDE DEF tt
  <2> DEFINE row(i) == [face |-> r.id, lang |-> tt[i].lang, text |-> tt[i].text]
             trans(t) == [lang |-> t.lang, text |-> t.text]
  <2>3. TranslationRows(r.id, tt) = {row(i) : i \in DOMAIN tt}
    BY DEF TranslationRows
  <2>4. \A i \in DOMAIN tt : trans(row(i)) = tt[i]
    BY <2>2
  <2> HIDE DEF row, trans
  <2>5. {trans(t) : t \in {row(i) : i \in DOMAIN tt}} = ToSet(tt)
    BY <2>4 DEF ToSet
  <2> QED
    BY <2>1, <2>3, <2>5 DEF tt, trans
<1> QED
  BY <1>1, <1>2 DEF Stored, Given

\* A card that is done has each of its faces in the tables as it is given.
LEMMA DoneFaces ==
  ASSUME IInv, NEW c \in Todo, pc[c] = "done", NEW k \in DOMAIN Data[c].faces
  PROVE  Stored(AddFace(c, ids[c][k], Data[c].faces[k])) = Given(Data[c].faces[k])
<1>1. PICK card, s, n : card = Data[c] /\ s = ids[c] /\ n = at[c]
  OBVIOUS
<1>2. IsCard(card) /\ n \in Nat
  BY <1>1, TodoFacts DEF IInv, Typed
<1>3. /\ Len(card.faces) \in Nat /\ k \in 1..Len(card.faces) /\ k \in DOMAIN card.faces
      /\ IsFace(card.faces[k])
  BY <1>1, <1>2, CardFacts
<1>4. /\ n >= Len(FaceSteps) * Len(card.faces)
      /\ Progress(typeRow, transRow, card.faces, s, n, isNew[c])
  BY <1>1 DEF IInv, LabelInv, MergedInv, Merged
<1>5. ASSUME NEW j \in DOMAIN FaceSteps
      PROVE  RowsAt(typeRow, transRow, s[k], FaceSteps[j])
               = RowsFor(s[k], card.faces[k], FaceSteps[j])
  <2>1. Len(FaceSteps) = 4 /\ j \in 1..4
    BY DEF FaceSteps
  <2>2. Turn(k, j) <= n
    BY <1>2, <1>3, <1>4, <2>1 DEF Turn
  <2> QED
    BY <1>3, <1>4, <2>2 DEF Progress
<1>6. \A v \in Steps : \E j \in DOMAIN FaceSteps : FaceSteps[j] = v
  <2>1. DOMAIN FaceSteps = 1..4
    BY DEF FaceSteps
  <2>2. /\ FaceSteps[1] = "subType" /\ FaceSteps[2] = "superType"
        /\ FaceSteps[3] = "cardType" /\ FaceSteps[4] = "translation"
    BY DEF FaceSteps
  <2> QED
    BY <2>1, <2>2 DEF Steps, Kinds
<1>7. \A v \in Steps : RowsAt(typeRow, transRow, s[k], v) = RowsFor(s[k], card.faces[k], v)
  BY <1>5, <1>6
<1>8. PICK r : r = AddFace(c, s[k], card.faces[k])
  OBVIOUS
<1>9. r.id = s[k] /\ r.ident = card.faces[k].ident /\ r.data = card.faces[k].data
  BY <1>8 DEF AddFace
<1>10. Stored(r) = Given(card.faces[k])
  BY <1>3, <1>7, <1>9, StoredAsGiven
<1> QED
  BY <1>1, <1>8, <1>10

\* A card whose import ended well is in the database exactly as the data set has
\* it, whatever earlier imports, finished or not, have left there.
THEOREM Exact == Spec => []ImportedIsExact
<1>1. IInv => ImportedIsExact
  <2> SUFFICES ASSUME IInv, NEW c \in Todo, pc[c] = "done" PROVE Matches(c, Data[c])
    BY DEF ImportedIsExact
  <2>1. PICK card, s, ff : card = Data[c] /\ s = ids[c] /\ ff = Data[c].faces
    OBVIOUS
  <2>2. Holds(c, card, s)
    BY <2>1 DEF IInv, MergedInv, Merged
  <2>3. IsCard(card)
    BY <2>1, TodoFacts DEF IInv
  <2>4. IsList(ff) /\ DOMAIN ff = 1..Len(ff) /\ Len(ff) \in Nat
    BY <2>1, <2>3, CardFacts
  <2>5. /\ cardRow[c] = card.attrs /\ Identify(s, ff, nextId)
        /\ RowsOf(c) = FaceRows(c, ff, s)
    BY <2>1, <2>2 DEF Holds
  <2>6. Cardinality(RowsOf(c)) = Len(ff)
    BY <2>4, <2>5, FaceRowsCount
  <2> DEFINE row == [k \in DOMAIN ff |-> AddFace(c, s[k], ff[k])]
  <2>7. \A k \in DOMAIN ff : row[k] = AddFace(c, s[k], ff[k]) /\ row[k].id = s[k]
    BY DEF AddFace
  <2>8. \A k \in DOMAIN ff : Stored(row[k]) = Given(ff[k])
    BY <2>1, <2>7, DoneFaces
  <2> HIDE DEF row
  <2>9. RowsOf(c) = {row[k] : k \in DOMAIN ff}
    BY <2>5, <2>7 DEF FaceRows
  <2>10. ASSUME NEW f
         PROVE  Cardinality({r \in RowsOf(c) : Stored(r) = Given(f)})
                  = Cardinality({i \in DOMAIN ff : Given(ff[i]) = Given(f)})
    <3> DEFINE I == {i \in DOMAIN ff : Given(ff[i]) = Given(f)}
    <3>1. {r \in RowsOf(c) : Stored(r) = Given(f)} = {row[k] : k \in I}
      BY <2>8, <2>9
    <3>2. IsFiniteSet(I)
      <4>1. IsFiniteSet(1..Len(ff))
        BY <2>4, FS_Interval
      <4> QED
        BY <2>4, <4>1, FS_Subset
    <3>3. \A i, k \in I : row[i] = row[k] => i = k
      BY <2>5, <2>7 DEF Identify
    <3> HIDE DEF I
    <3>4. Cardinality({row[k] : k \in I}) = Cardinality(I)
      BY <3>2, <3>3, ImageCount
    <3> QED
      BY <3>1, <3>4 DEF I
  <2> QED
    BY <2>1, <2>5, <2>6, <2>10 DEF Matches, Count
<1> QED
  BY <1>1, Inductive, PTL

-----------------------------------------------------------------------------
(* What an import may never do. *)

\* A row that goes leaves behind more rows with its name and texts than there are
\* such faces in the data set: each of these has taken the id of another row.
LEMMA GoneRow ==
  ASSUME IInv, NEW c \in Todo, NEW m \in Merges(c), NEW r \in RowsOf(c), r.id \in m.gone
  PROVE  Cardinality({i \in DOMAIN Data[c].faces : Data[c].faces[i].ident = r.ident})
           < Cardinality({q \in faceRow : q.card = r.card /\ q.ident = r.ident})
<1>1. PICK ff, s : ff = Data[c].faces /\ s = FaceIds(ff, m)
  OBVIOUS
<1> DEFINE I == {i \in DOMAIN ff : ff[i].ident = r.ident}
           S == {q \in faceRow : q.card = r.card /\ q.ident = r.ident}
<1>2. /\ Matching(ff, RowsOf(c), m)
      /\ Len(m.left) \in Nat /\ Identify(s, ff, nextId + Len(m.left))
      /\ \A k \in DOMAIN ff :
           IF k \in ToSet(m.left) THEN s[k] \notin 1..(nextId - 1) ELSE <<k, s[k]>> \in m.kept
  BY <1>1, MergeFacts
<1>3. c \in Cards /\ r \in faceRow /\ r.card = c
  BY TodoFacts DEF IInv, RowsOf
<1>4. IsFiniteSet(S)
  <2>1. IsFiniteSet(RowsOf(c))
    BY <1>3, RowsFacts DEF IInv
  <2>2. S \subseteq RowsOf(c)
    BY <1>3 DEF RowsOf
  <2> QED
    BY <2>1, <2>2, FS_Subset
<1>5. \A j, k \in DOMAIN ff : s[j] = s[k] => j = k
  BY <1>2 DEF Identify
<1>6. ASSUME NEW i \in I PROVE \E q \in S \ {r} : q.id = s[i]
  <2>1. i \notin ToSet(m.left)
    BY <1>2 DEF Matching
  <2>2. <<i, s[i]>> \in m.kept
    BY <1>2, <2>1
  <2>3. PICK q \in RowsOf(c) : q.id = s[i] /\ q.ident = ff[i].ident
    <3>1. <<i, s[i]>>[1] = i /\ <<i, s[i]>>[2] = s[i]
      OBVIOUS
    <3> QED
      BY <1>2, <2>2, <3>1 DEF Matching
  <2>4. KeepsRow(ff, m, q.id)
    BY <2>2, <2>3 DEF KeepsRow
  <2>5. q.id \notin m.gone
    BY <1>2, <2>3, <2>4 DEF Matching
  <2> QED
    BY <1>3, <2>3, <2>5 DEF RowsOf
<1>7. r \in S
  BY <1>3
<1> HIDE DEF S
<1> DEFINE h == [i \in I |-> CHOOSE q \in S \ {r} : q.id = s[i]]
<1>8. \A i \in I : h[i] \in S \ {r} /\ h[i].id = s[i]
  BY <1>6
<1>9. h \in [I -> S \ {r}]
  BY <1>8
<1> HIDE DEF h
<1>10. \A i, k \in I : h[i] = h[k] => i = k
  BY <1>5, <1>8
<1> HIDE DEF I
<1>11. h \in Injection(I, S \ {r})
  BY <1>9, <1>10 DEF Injection, IsInjective
<1>12. /\ IsFiniteSet(S \ {r}) /\ Cardinality(S \ {r}) = Cardinality(S) - 1
       /\ Cardinality(S) \in Nat
  BY <1>4, <1>7, FS_RemoveElement, FS_CardinalityType
<1>13. Cardinality(I) <= Cardinality(S \ {r}) /\ Cardinality(I) \in Nat
  BY <1>11, <1>12, FS_Injection, FS_CardinalityType
<1>14. Cardinality(I) < Cardinality(S)
  BY <1>12, <1>13
<1> QED
  BY <1>1, <1>14 DEF I, S

\* A face that stays the same keeps its id, and with it its images.
THEOREM KeepsItsId == Spec => SameFaceKeepsItsId
<1> DEFINE Few(r) ==
             /\ r.card \in Todo
             /\ Cardinality({i \in DOMAIN Data[r.card].faces :
                               Data[r.card].faces[i].ident = r.ident})
                  < Cardinality({q \in faceRow : q.card = r.card /\ q.ident = r.ident})
           Keeps == \A r \in faceRow : (\A q \in faceRow' : q.id # r.id) => Few(r)
<1>1. IInv /\ [Next]_vars => Keeps
  <2> SUFFICES ASSUME IInv, [Next]_vars, NEW r \in faceRow, \A q \in faceRow' : q.id # r.id
               PROVE  Few(r)
    BY DEF Keeps
  <2>1. faceRow' # faceRow
    OBVIOUS
  <2>2. PICK c \in Todo : ImportCard(c)
    BY <2>1 DEF Next, Import, RejectCard, MergeTypes, MergeTranslations, RejectFace, Finish,
                TransactionFails, Crash, Again, NextRun, Ended, Advance, database, vars
  <2>3. PICK ff : ff = Data[c].faces
    OBVIOUS
  <2>4. PICK m \in Merges(c) :
          faceRow' = (faceRow \ RowsOf(c)) \cup FaceRows(c, ff, FaceIds(ff, m))
    BY <2>2, <2>3, ImportCardEffect
  <2>5. r \in RowsOf(c) /\ r.card = c
    BY <2>4 DEF RowsOf
  <2>6. r.id \in m.gone
    <3> SUFFICES ASSUME r.id \notin m.gone PROVE FALSE
      OBVIOUS
    <3>1. PICK k \in DOMAIN ff : FaceIds(ff, m)[k] = r.id
      BY <2>3, <2>5, KeptRow
    <3>2. AddFace(c, r.id, ff[k]) \in faceRow' /\ AddFace(c, r.id, ff[k]).id = r.id
      BY <2>4, <3>1 DEF FaceRows, AddFace
    <3> QED
      BY <3>2
  <2> QED
    BY <2>5, <2>6, GoneRow
<1>2. Keeps => \A r \in faceRow :
                 (\A s \in faceRow' : s.id # r.id) =>
                   /\ r.card \in Todo
                   /\ Count(DOMAIN Data[r.card].faces,
                            LAMBDA i : Data[r.card].faces[i].ident = r.ident)
                        < Count(faceRow, LAMBDA s : s.card = r.card /\ s.ident = r.ident)
  BY DEF Count
<1> HIDE DEF Keeps
<1> QED
  BY <1>1, <1>2, Inductive, PTL DEF Spec, SameFaceKeepsItsId


-----------------------------------------------------------------------------
(* To import again what is already there. *)

\* What the tables hold of a face that they have as given.
LEMMA GivenIsStored ==
  ASSUME KeysInv, NEW r, NEW f, IsFace(f), Stored(r) = Given(f)
  PROVE  /\ r.ident = f.ident /\ r.data = f.data
         /\ \A v \in Steps : RowsAt(typeRow, transRow, r.id, v) = RowsFor(r.id, f, v)
<1>1. r.ident = f.ident /\ r.data = f.data
  BY DEF Stored, Given
<1>2. ASSUME NEW k \in Kinds
      PROVE  RowsAt(typeRow, transRow, r.id, k) = RowsFor(r.id, f, k)
  <2> DEFINE U == {u \in typeRow : u.face = r.id /\ u.kind = k}
             row(n) == [face |-> r.id, kind |-> k, name |-> n]
  <2>1. {t.name : t \in U} = ToSet(f.types[k])
    BY DEF Stored, Given
  <2>2. \A t \in U : t = row(t.name)
    BY DEF KeysInv, IsTypeRow
  <2>3. k # "translation"
    BY DEF Kinds
  <2>4. RowsAt(typeRow, transRow, r.id, k) = U
    BY <2>3 DEF RowsAt
  <2>5. RowsFor(r.id, f, k) = {row(n) : n \in ToSet(f.types[k])}
    BY <2>3 DEF RowsFor, TypeRows
  <2> HIDE DEF U, row
  <2>6. U = {row(n) : n \in {t.name : t \in U}}
    BY <2>2
  <2> QED
    BY <2>1, <2>4, <2>5, <2>6
<1>3. RowsAt(typeRow, transRow, r.id, "translation") = RowsFor(r.id, f, "translation")
  <2> DEFINE tt == f.translations
             U == {u \in transRow : u.face = r.id}
             row(t) == [face |-> r.id, lang |-> t.lang, text |-> t.text]
             trans(t) == [lang |-> t.lang, text |-> t.text]
  <2>1. {trans(t) : t \in U} = ToSet(tt)
    BY DEF Stored, Given
  <2>2. \A t \in U : t = row(trans(t))
    BY DEF KeysInv, IsTransRow
  <2>3. RowsAt(typeRow, transRow, r.id, "translation") = U
    BY DEF RowsAt
  <2>4. RowsFor(r.id, f, "translation") = {row(tt[i]) : i \in DOMAIN tt}
    BY DEF RowsFor, TranslationRows
  <2> HIDE DEF U, row, trans, tt
  <2>5. U = {row(t) : t \in {trans(u) : u \in U}}
    BY <2>2
  <2>6. {row(tt[i]) : i \in DOMAIN tt} = {row(t) : t \in ToSet(tt)}
    BY DEF ToSet
  <2> QED
    BY <2>1, <2>3, <2>4, <2>5, <2>6
<1> QED
  BY <1>1, <1>2, <1>3 DEF Steps

\* The rows of a card that is as given, without twins, are one for each face.
LEMMA MatchedRows ==
  ASSUME IInv, NEW c \in Todo, Matches(c, Data[c]), NoTwins(Data[c]),
         NEW ff, ff = Data[c].faces
  PROVE  /\ Cardinality(RowsOf(c)) = Len(ff)
         /\ \A r \in RowsOf(c) : \E k \in DOMAIN ff : Stored(r) = Given(ff[k])
         /\ \A q, r \in RowsOf(c) : q.ident = r.ident => q = r
<1> DEFINE R == RowsOf(c)
           K == DOMAIN ff
           h == [k \in K |-> CHOOSE r \in R : Stored(r) = Given(ff[k])]
<1>1. IsList(ff) /\ K = 1..Len(ff) /\ Len(ff) \in Nat /\ \A k \in K : ff[k] \in ToSet(ff)
  BY TodoFacts, CardFacts DEF IInv
<1>2. /\ Cardinality(R) = Len(ff)
      /\ \A f \in ToSet(ff) : Cardinality({r \in R : Stored(r) = Given(f)})
                                = Cardinality({i \in K : Given(ff[i]) = Given(f)})
  BY DEF Matches, Count
<1>3. IsFiniteSet(R)
  BY TodoFacts, RowsFacts DEF IInv
<1>4. \A j, k \in K : Given(ff[j]) = Given(ff[k]) => j = k
  BY DEF NoTwins, Given
<1>5. ASSUME NEW k \in K PROVE \E r \in R : Stored(r) = Given(ff[k])
  <2>1. {i \in K : Given(ff[i]) = Given(ff[k])} = {k}
    BY <1>4
  <2>2. Cardinality({r \in R : Stored(r) = Given(ff[k])}) = 1
    <3>1. Cardinality({k}) = 1
      BY FS_Singleton
    <3> HIDE DEF R, K
    <3> QED
      BY <1>1, <1>2, <2>1, <3>1
  <2>3. {r \in R : Stored(r) = Given(ff[k])} # {}
    BY <2>2, FS_EmptySet
  <2> QED
    BY <2>3
<1>6. \A k \in K : h[k] \in R /\ Stored(h[k]) = Given(ff[k])
  BY <1>5
<1> HIDE DEF h
<1>7. \A j, k \in K : h[j] = h[k] => j = k
  BY <1>4, <1>6
<1>8. IsFiniteSet(K) /\ Cardinality(K) = Len(ff)
  <2>1. /\ IsFiniteSet(1..Len(ff))
        /\ Cardinality(1..Len(ff)) = IF 1 > Len(ff) THEN 0 ELSE Len(ff) - 1 + 1
    BY <1>1, FS_Interval
  <2> QED
    BY <1>1, <2>1
<1>9. Cardinality({h[k] : k \in K}) = Len(ff)
  <2> HIDE DEF K
  <2> QED
    BY <1>7, <1>8, ImageCount
<1>10. {h[k] : k \in K} = R
  <2>1. {h[k] : k \in K} \subseteq R
    BY <1>6
  <2> HIDE DEF R, K
  <2> QED
    BY <1>2, <1>3, <1>9, <2>1, FS_Subset
<1>11. \A r \in R : \E k \in K : r = h[k]
  BY <1>10
<1>12. \A r \in R : \E k \in K : r = h[k] /\ Stored(r) = Given(ff[k])
  BY <1>6, <1>11
<1>13. ASSUME NEW q \in R, NEW r \in R, q.ident = r.ident PROVE q = r
  <2>1. PICK j \in K : q = h[j] /\ Stored(q) = Given(ff[j])
    BY <1>12
  <2>2. PICK k \in K : r = h[k] /\ Stored(r) = Given(ff[k])
    BY <1>12
  <2>3. q.ident = ff[j].ident /\ r.ident = ff[k].ident
    BY <2>1, <2>2 DEF Stored, Given
  <2>4. j = k
    BY <1>13, <2>3 DEF NoTwins
  <2> QED
    BY <2>1, <2>2, <2>4
<1> QED
  BY <1>2, <1>12, <1>13

\* A step that leaves all rows of a card and of its faces.
Leaves(c) ==
  /\ {r \in faceRow' : r.card = c} = RowsOf(c)
  /\ \A r \in RowsOf(c) :
       /\ {t \in typeRow' : t.face = r.id} = {t \in typeRow : t.face = r.id}
       /\ {t \in transRow' : t.face = r.id} = {t \in transRow : t.face = r.id}

\* The merge of a card that is as given finds each row and changes none.
LEMMA MergeLeaves ==
  ASSUME IInv, NEW c \in Todo, Matches(c, Data[c]), NoTwins(Data[c]), ImportCard(c)
  PROVE  Leaves(c)
<1>1. PICK ff : ff = Data[c].faces
  OBVIOUS
<1>2. PICK m \in Merges(c) :
        /\ Matching(ff, RowsOf(c), m)
        /\ Identify(FaceIds(ff, m), ff, nextId')
        /\ faceRow' = (faceRow \ RowsOf(c)) \cup FaceRows(c, ff, FaceIds(ff, m))
        /\ typeRow' = {t \in typeRow : t.face \notin m.gone}
        /\ transRow' = {t \in transRow : t.face \notin m.gone}
  BY <1>1, ImportCardEffect
<1>3. PICK s, n : s = FaceIds(ff, m) /\ n = nextId'
  OBVIOUS
<1>4. /\ Cardinality(RowsOf(c)) = Len(ff)
      /\ \A r \in RowsOf(c) : \E k \in DOMAIN ff : Stored(r) = Given(ff[k])
      /\ \A q, r \in RowsOf(c) : q.ident = r.ident => q = r
  BY <1>1, MatchedRows
<1>5. /\ IsList(ff) /\ \A k \in DOMAIN ff : IsFace(ff[k])
  BY <1>1, TodoFacts, CardFacts DEF IInv
<1>6. KeysInv /\ \A r \in RowsOf(c) : IsFaceRow(r) /\ r.card = c
  BY RowsFacts DEF IInv, RowsOf
<1>7. ASSUME NEW r \in RowsOf(c)
      PROVE  \E k \in DOMAIN ff : r.ident = ff[k].ident /\ r.data = ff[k].data
  BY <1>4, <1>5, <1>6, GivenIsStored
<1>8. ASSUME NEW r \in RowsOf(c) PROVE r.id \notin m.gone
  <2> SUFFICES ASSUME r.id \in m.gone PROVE FALSE
    OBVIOUS
  <2>1. PICK k \in DOMAIN ff : r.ident = ff[k].ident
    BY <1>7
  <2>2. k \notin ToSet(m.left)
    BY <1>2, <2>1 DEF Matching
  <2>3. PICK id \in Nat : <<k, id>> \in m.kept
    BY <1>2, <2>2 DEF Matching, KeepsFace
  <2>4. PICK q \in RowsOf(c) : q.id = id /\ q.ident = ff[k].ident
    <3>1. <<k, id>>[1] = k /\ <<k, id>>[2] = id
      OBVIOUS
    <3> QED
      BY <1>2, <2>3, <3>1 DEF Matching
  <2>5. q = r
    BY <1>4, <2>1, <2>4
  <2>6. KeepsRow(ff, m, r.id)
    BY <2>3, <2>4, <2>5 DEF KeepsRow
  <2> QED
    BY <1>2, <2>6 DEF Matching
<1>9. ASSUME NEW r \in RowsOf(c) PROVE r \in FaceRows(c, ff, s)
  <2>1. PICK k \in DOMAIN ff : s[k] = r.id /\ ff[k].ident = r.ident
    BY <1>1, <1>3, <1>8, KeptRow
  <2>2. PICK l \in DOMAIN ff : r.ident = ff[l].ident /\ r.data = ff[l].data
    BY <1>7
  <2>3. l = k
    BY <1>1, <2>1, <2>2 DEF NoTwins
  <2>4. r = AddFace(c, s[k], ff[k])
    BY <1>6, <2>1, <2>2, <2>3 DEF IsFaceRow, AddFace
  <2> QED
    BY <2>4 DEF FaceRows
<1>10. RowsOf(c) = FaceRows(c, ff, s)
  <2>1. IsFiniteSet(FaceRows(c, ff, s)) /\ Cardinality(FaceRows(c, ff, s)) = Len(ff)
    BY <1>2, <1>3, <1>5, FaceRowsCount
  <2>2. RowsOf(c) \subseteq FaceRows(c, ff, s)
    BY <1>9
  <2> QED
    BY <1>4, <2>1, <2>2, FS_Subset
<1>11. {r \in faceRow' : r.card = c} = RowsOf(c)
  <2>1. faceRow' = faceRow
    BY <1>2, <1>3, <1>10 DEF RowsOf
  <2> QED
    BY <2>1 DEF RowsOf
<1>12. \A r \in RowsOf(c) :
         /\ {t \in typeRow' : t.face = r.id} = {t \in typeRow : t.face = r.id}
         /\ {t \in transRow' : t.face = r.id} = {t \in transRow : t.face = r.id}
  BY <1>2, <1>8
<1> QED
  BY <1>11, <1>12 DEF Leaves

\* The merge of a card touches no row of another one.
LEMMA OtherMergeLeaves ==
  ASSUME IInv, NEW c \in Todo, NEW d \in Todo, d # c, ImportCard(d)
  PROVE  Leaves(c)
<1>1. PICK ff : ff = Data[d].faces
  OBVIOUS
<1>2. PICK m \in Merges(d) :
        /\ Matching(ff, RowsOf(d), m)
        /\ faceRow' = (faceRow \ RowsOf(d)) \cup FaceRows(d, ff, FaceIds(ff, m))
        /\ typeRow' = {t \in typeRow : t.face \notin m.gone}
        /\ transRow' = {t \in transRow : t.face \notin m.gone}
  BY <1>1, ImportCardEffect
<1>3. \A q \in FaceRows(d, ff, FaceIds(ff, m)) : q.card = d
  BY DEF FaceRows, AddFace
<1>4. {r \in faceRow' : r.card = c} = RowsOf(c)
  BY <1>2, <1>3 DEF RowsOf
<1>5. \A r \in RowsOf(c) : r.id \notin m.gone
  <2>1. \A id \in m.gone : \E q \in RowsOf(d) : q.id = id
    BY <1>2 DEF Matching
  <2> QED
    BY <2>1 DEF IInv, KeysInv, RowsOf
<1>6. \A r \in RowsOf(c) :
        /\ {t \in typeRow' : t.face = r.id} = {t \in typeRow : t.face = r.id}
        /\ {t \in transRow' : t.face = r.id} = {t \in transRow : t.face = r.id}
  BY <1>2, <1>5
<1> QED
  BY <1>4, <1>6 DEF Leaves

\* A transaction on a face that is as given writes the rows that are there.
LEMMA FaceTransactionLeaves ==
  ASSUME IInv, NEW c \in Todo, Matches(c, Data[c]), NoTwins(Data[c]),
         NEW d \in Todo, MergeTypes(d) \/ MergeTranslations(d)
  PROVE  Leaves(c)
<1>1. PICK id, step, f : id = FaceId(d) /\ step = FaceStep(d) /\ f = Face(d)
  OBVIOUS
<1>2. FacesLeft(d) /\ Advance(d) /\ Writes(id, f, step)
  BY <1>1, MergeTypesWrites, MergeTranslationsWrites
<1>3. PICK ff : ff = Data[c].faces
  OBVIOUS
<1>4. PICK k : k = FaceIndex(d)
  OBVIOUS
<1>5. k \in DOMAIN Data[d].faces /\ f = Data[d].faces[k] /\ id = ids[d][k] /\ IsFace(f)
  BY <1>1, <1>2, <1>4, NextFace DEF Face, FaceId
<1>6. AddFace(d, id, f) \in RowsOf(d)
  <2>1. Merged(d)
    BY <1>2 DEF FacesLeft, Merged
  <2> QED
    BY <1>5, <2>1 DEF IInv, MergedInv, Holds, FaceRows
<1>7. KeysInv /\ \A t \in typeRow : t.kind \in Kinds
  BY DEF IInv, Typed
<1>8. ASSUME NEW r \in RowsOf(c), r.id = id
      PROVE  RowsAt(typeRow, transRow, id, step) = RowsFor(id, f, step)
  <2>1. r = AddFace(d, id, f)
    BY <1>6, <1>7, <1>8 DEF KeysInv, RowsOf, AddFace
  <2>2. r.card = d /\ r.ident = f.ident
    BY <2>1 DEF AddFace
  <2>3. d = c
    BY <2>2 DEF RowsOf
  <2>4. PICK l \in DOMAIN ff : Stored(r) = Given(ff[l])
    BY <1>3, MatchedRows
  <2>5. r.ident = ff[l].ident
    BY <2>4 DEF Stored, Given
  <2>6. ff[l] = f
    BY <1>3, <1>5, <2>2, <2>3, <2>5 DEF NoTwins
  <2>7. \A v \in Steps : RowsAt(typeRow, transRow, r.id, v) = RowsFor(r.id, f, v)
    BY <1>5, <1>7, <2>4, <2>6, GivenIsStored
  <2>8. step \in Steps
    BY <1>1, <1>2, NextFace
  <2> QED
    BY <1>8, <2>7, <2>8
<1>9. ASSUME NEW r \in RowsOf(c), NEW v \in Steps
      PROVE  RowsAt(typeRow', transRow', r.id, v) = RowsAt(typeRow, transRow, r.id, v)
  <2>1. CASE r.id = id /\ v = step
    BY <1>2, <1>8, <2>1 DEF Writes
  <2>2. CASE ~ (r.id = id /\ v = step)
    BY <1>2, <2>2 DEF Writes
  <2> QED
    BY <2>1, <2>2
<1>10. \A t \in typeRow' : t.kind \in Kinds
  BY <1>2 DEF Writes
<1>11. ASSUME NEW r \in RowsOf(c)
       PROVE  /\ {t \in typeRow' : t.face = r.id} = {t \in typeRow : t.face = r.id}
              /\ {t \in transRow' : t.face = r.id} = {t \in transRow : t.face = r.id}
  <2>1. ASSUME NEW v \in Kinds
        PROVE  {t \in typeRow' : t.face = r.id /\ t.kind = v}
                 = {t \in typeRow : t.face = r.id /\ t.kind = v}
    <3>1. v \in Steps /\ v # "translation"
      BY DEF Steps, Kinds
    <3> QED
      BY <1>9, <3>1 DEF RowsAt
  <2>2. {t \in transRow' : t.face = r.id} = {t \in transRow : t.face = r.id}
    BY <1>9 DEF RowsAt, Steps
  <2>3. ASSUME NEW t, t.face = r.id PROVE t \in typeRow' <=> t \in typeRow
    BY <1>7, <1>10, <2>1, <2>3
  <2>4. {t \in typeRow' : t.face = r.id} = {t \in typeRow : t.face = r.id}
    BY <2>3
  <2> QED
    BY <2>2, <2>4
<1>12. {r \in faceRow' : r.card = c} = RowsOf(c)
  BY <1>2 DEF Advance, RowsOf
<1> QED
  BY <1>11, <1>12 DEF Leaves

\* An import of a card that is in the database as the data set has it, no two of
\* its faces with the same name and texts, deletes, adds and renumbers nothing.
THEOREM Idempotent == Spec => ImportIsIdempotent
<1> DEFINE Keeps == \A c \in Todo : Matches(c, Data[c]) /\ NoTwins(Data[c]) /\ run' = run
                      => Leaves(c)
<1>1. IInv /\ [Next]_vars => Keeps
  <2> SUFFICES ASSUME IInv, [Next]_vars, run' = run,
                      NEW c \in Todo, Matches(c, Data[c]), NoTwins(Data[c])
               PROVE  Leaves(c)
    BY DEF Keeps
  <2>1. CASE UNCHANGED <<faceRow, typeRow, transRow>>
    BY <2>1 DEF Leaves, RowsOf
  <2>2. CASE \E d \in Todo : ImportCard(d)
    BY <2>2, MergeLeaves, OtherMergeLeaves
  <2>3. CASE \E d \in Todo : MergeTypes(d) \/ MergeTranslations(d)
    BY <2>3, FaceTransactionLeaves
  <2> QED
    BY <2>1, <2>2, <2>3
       DEF Next, Import, RejectCard, RejectFace, Finish, TransactionFails, Crash, Again,
           NextRun, Ended, database, vars
<1>2. Keeps => \A c \in Todo : Matches(c, Data[c]) /\ NoTwins(Data[c]) /\ run' = run =>
        /\ {r \in faceRow' : r.card = c} = RowsOf(c)
        /\ \A r \in RowsOf(c) :
             /\ {t \in typeRow' : t.face = r.id} = {t \in typeRow : t.face = r.id}
             /\ {t \in transRow' : t.face = r.id} = {t \in transRow : t.face = r.id}
  BY DEF Leaves
<1> HIDE DEF Keeps
<1> QED
  BY <1>1, <1>2, Inductive, PTL DEF Spec, ImportIsIdempotent
===============================================================================
