--------------------------- MODULE SliceOpsProofs ---------------------------
(***************************************************************************)
(* Facts about the data that the merges of internal/cards work on: lists,  *)
(* their elements, and what a recursive function over a list computes.     *)
(* Inductions are stated over sets of naturals.                            *)
(***************************************************************************)
EXTENDS SliceOps, FiniteSetTheorems, SequenceTheorems, TLAPS

-----------------------------------------------------------------------------
(* Induction and recursion. *)

\* Every set of naturals has a least element.
LEMMA Least ==
  ASSUME NEW T \in SUBSET Nat, T # {}
  PROVE  \E m \in T : \A k \in T : m <= k
<1> DEFINE R == OpToRel(<, Nat)
<1>1. IsWellFoundedOn(R, Nat)
  BY NatLessThanWellFounded
<1>2. \A m, n \in Nat : m < n => <<m, n>> \in R
  BY DEF OpToRel
<1> HIDE DEF R
<1>3. PICK m \in T : \A y \in T : ~ (<<y, m>> \in R)
  BY <1>1, WFMin
<1>4. ASSUME NEW k \in T PROVE m <= k
  <2>1. m \in Nat /\ k \in Nat
    OBVIOUS
  <2>2. ~ (k < m)
    BY <2>1, <1>2, <1>3
  <2> QED
    BY <2>1, <2>2
<1> QED
  BY <1>4

\* A set with 0 and every successor of its elements has all naturals.
LEMMA Induction ==
  ASSUME NEW T, 0 \in T, \A n \in Nat : n \in T => n + 1 \in T
  PROVE  \A n \in Nat : n \in T
<1>1. SUFFICES ASSUME Nat \ T # {} PROVE FALSE
  OBVIOUS
<1>2. PICK m \in Nat \ T : \A k \in Nat \ T : m <= k
  BY <1>1, Least
<1>3. m # 0 /\ m - 1 \in Nat
  BY <1>2
<1>4. m - 1 \in T
  BY <1>2, <1>3
<1> QED
  BY <1>2, <1>3, <1>4

\* f starts with base and goes on by step.
Iterates(f, S, base, step) ==
  /\ f \in [Nat -> S]
  /\ f[0] = base
  /\ \A n \in Nat : f[n + 1] = step[<<f[n], n + 1>>]

\* A recursive definition of a function of the naturals has a solution.
LEMMA Recursion ==
  ASSUME NEW S, NEW base \in S, NEW step \in [S \X Nat -> S]
  PROVE  \E f : Iterates(f, S, base, step)
<1> DEFINE Upto(g, n) == /\ g \in [Nat -> S]
                         /\ g[0] = base
                         /\ \A i \in Nat : i < n => g[i + 1] = step[<<g[i], i + 1>>]
           T == {n \in Nat : \E g : Upto(g, n)}
<1>1. \A n \in Nat : n \in T
  <2>1. 0 \in T
    <3>1. Upto([i \in Nat |-> base], 0)
      OBVIOUS
    <3> QED
      BY <3>1, Zenon
  <2>2. ASSUME NEW n \in Nat, n \in T PROVE n + 1 \in T
    <3>1. PICK g : Upto(g, n)
      BY <2>2
    <3> DEFINE h == [g EXCEPT ![n + 1] = step[<<g[n], n + 1>>]]
    <3>2. h \in [Nat -> S] /\ h[0] = base
      BY <3>1
    <3>3. ASSUME NEW i \in Nat, i < n + 1 PROVE h[i + 1] = step[<<h[i], i + 1>>]
      BY <3>1, <3>3
    <3>4. Upto(h, n + 1)
      BY <3>2, <3>3, Zenon
    <3> HIDE DEF h
    <3>5. n + 1 \in Nat
      OBVIOUS
    <3> QED
      BY <3>4, <3>5, Zenon
  <2> HIDE DEF T
  <2> QED
    BY <2>1, <2>2, Induction
<1> DEFINE G == [n \in Nat |-> CHOOSE g : Upto(g, n)]
           f == [n \in Nat |-> G[n][n]]
<1>2. \A n \in Nat : Upto(G[n], n)
  BY <1>1, Zenon
\* Two approximations agree where both are defined.
<1>3. \A m, n \in Nat : m <= n => \A i \in Nat : i <= m => G[m][i] = G[n][i]
  <2> SUFFICES ASSUME NEW m \in Nat, NEW n \in Nat, m <= n
               PROVE  \A i \in Nat : i <= m => G[m][i] = G[n][i]
    BY Zenon
  <2> DEFINE g == G[m]
             h == G[n]
             E == {i \in Nat : i <= m => g[i] = h[i]}
  <2>1. Upto(g, m) /\ Upto(h, n)
    BY <1>2, Zenon
  <2> HIDE DEF g, h
  <2>2. 0 \in E
    BY <2>1
  <2>3. ASSUME NEW i \in Nat, i \in E PROVE i + 1 \in E
    <3> SUFFICES ASSUME i + 1 <= m PROVE g[i + 1] = h[i + 1]
      OBVIOUS
    <3>1. g[i] = h[i] /\ i < m /\ i < n
      BY <2>3
    <3>2. g[i + 1] = step[<<g[i], i + 1>>]
      BY <2>1, <3>1
    <3>3. h[i + 1] = step[<<h[i], i + 1>>]
      BY <2>1, <3>1
    <3> QED
      BY <3>1, <3>2, <3>3
  <2> HIDE DEF E
  <2>4. \A i \in Nat : i \in E
    BY <2>2, <2>3, Induction
  <2> QED
    BY <2>4 DEF E, g, h
<1> HIDE DEF G
<1>4. f \in [Nat -> S] /\ f[0] = base
  BY <1>2
<1>5. ASSUME NEW n \in Nat PROVE f[n + 1] = step[<<f[n], n + 1>>]
  <2>1. Upto(G[n + 1], n + 1)
    BY <1>2
  <2>3. f[n + 1] = step[<<G[n + 1][n], n + 1>>]
    BY <2>1
  <2>2. G[n][n] = G[n + 1][n]
    BY <1>3
  <2> QED
    BY <2>2, <2>3
<1> HIDE DEF f
<1> QED
  BY <1>4, <1>5 DEF Iterates

\* The same up to n.
IteratesTo(n, g, S, base, step) ==
  /\ g \in [0..n -> S]
  /\ g[0] = base
  /\ \A i \in 1..n : g[i] = step[<<g[i - 1], i>>]

\* And so has one of the numbers up to n.
LEMMA BoundedRecursion ==
  ASSUME NEW n \in Nat, NEW S, NEW base \in S, NEW step \in [S \X (1..n) -> S]
  PROVE  \E g : IteratesTo(n, g, S, base, step)
<1> DEFINE further == [x \in S \X Nat |-> IF x[2] \in 1..n THEN step[x] ELSE x[1]]
<1>1. further \in [S \X Nat -> S]
  OBVIOUS
<1>2. PICK f : Iterates(f, S, base, further)
  <2> HIDE DEF further
  <2> QED
    BY <1>1, Recursion
<1>3. f[0] = base /\ \A i \in Nat : f[i] \in S
  BY <1>2 DEF Iterates
<1>4. ASSUME NEW i \in 1..n PROVE f[i] = step[<<f[i - 1], i>>]
  <2>1. i - 1 \in Nat /\ (i - 1) + 1 = i /\ f[i - 1] \in S
    BY <1>3
  <2>2. f[i] = further[<<f[i - 1], i>>]
    BY <1>2, <2>1 DEF Iterates
  <2> QED
    BY <2>1, <2>2
<1> HIDE DEF further
<1> DEFINE g == [i \in 0..n |-> f[i]]
<1>5. g \in [0..n -> S] /\ g[0] = base
  BY <1>3
<1>6. ASSUME NEW i \in 1..n PROVE g[i] = step[<<g[i - 1], i>>]
  <2>1. i \in 0..n /\ i - 1 \in 0..n
    OBVIOUS
  <2> QED
    BY <1>4, <2>1
<1> HIDE DEF g
<1> QED
  BY <1>5, <1>6 DEF IteratesTo

-----------------------------------------------------------------------------
(* Lists. *)

\* Every finite set of numbers has a sorted list.
LEMMA SortedList ==
  ASSUME NEW S \in SUBSET Nat, IsFiniteSet(S)
  PROVE  \E t \in [1..Cardinality(S) -> S] :
           /\ \A i, k \in 1..Cardinality(S) : i < k => t[i] < t[k]
           /\ \A x \in S : \E i \in 1..Cardinality(S) : t[i] = x
<1> DEFINE Sorts(t, A, n) ==
             /\ t \in [1..n -> A]
             /\ \A i, k \in 1..n : i < k => t[i] < t[k]
             /\ \A x \in A : \E i \in 1..n : t[i] = x
           T == {n \in Nat : \A A \in SUBSET Nat :
                               IsFiniteSet(A) /\ Cardinality(A) = n => \E t : Sorts(t, A, n)}
<1>1. 0 \in T
  <2> SUFFICES ASSUME NEW A \in SUBSET Nat, IsFiniteSet(A), Cardinality(A) = 0
               PROVE  \E t : Sorts(t, A, 0)
    BY Zenon
  <2>1. A = {}
    BY FS_EmptySet
  <2>2. Sorts([i \in 1..0 |-> 0], A, 0)
    BY <2>1
  <2> QED
    BY <2>2, Zenon
<1>2. ASSUME NEW n \in Nat, n \in T PROVE n + 1 \in T
  <2> SUFFICES ASSUME NEW A \in SUBSET Nat, IsFiniteSet(A), Cardinality(A) = n + 1
               PROVE  \E t : Sorts(t, A, n + 1)
    <3>1. n + 1 \in Nat
      OBVIOUS
    <3> QED
      BY <3>1, Zenon
  <2>1. A # {}
    BY FS_EmptySet
  <2>2. PICK m \in A : \A k \in A : m <= k
    BY <2>1, Least
  <2>3. IsFiniteSet(A \ {m}) /\ Cardinality(A \ {m}) = n
    <3>1. /\ IsFiniteSet(A \ {m})
          /\ Cardinality(A \ {m}) = Cardinality(A) - 1
      BY FS_RemoveElement, Zenon
    <3> QED
      BY <3>1
  <2>4. PICK t : Sorts(t, A \ {m}, n)
    BY <1>2, <2>3
  <2> DEFINE u == [i \in 1..(n + 1) |-> IF i = 1 THEN m ELSE t[i - 1]]
  <2>5. u \in [1..(n + 1) -> A]
    BY <2>4
  <2>6. ASSUME NEW i \in 1..(n + 1), NEW k \in 1..(n + 1), i < k PROVE u[i] < u[k]
    <3>1. k - 1 \in 1..n /\ u[k] = t[k - 1] /\ u[k] \in A \ {m}
      BY <2>4, <2>6
    <3>2. CASE i = 1
      <4>1. m \in Nat /\ u[k] \in Nat /\ u[i] = m /\ m <= u[k] /\ m # u[k]
        BY <2>2, <3>1, <3>2
      <4> HIDE DEF u
      <4> QED
        BY <4>1
    <3>3. CASE i # 1
      BY <2>4, <2>6, <3>1, <3>3
    <3> QED
      BY <3>2, <3>3
  <2>7. ASSUME NEW x \in A PROVE \E i \in 1..(n + 1) : u[i] = x
    <3>1. CASE x = m
      BY <3>1
    <3>2. CASE x # m
      <4>1. PICK i \in 1..n : t[i] = x
        BY <2>4, <3>2
      <4>2. i + 1 \in 1..(n + 1) /\ u[i + 1] = x
        BY <4>1
      <4> QED
        BY <4>2
    <3> QED
      BY <3>1, <3>2
  <2>8. Sorts(u, A, n + 1)
    BY <2>5, <2>6, <2>7, Zenon
  <2> QED
    BY <2>8, Zenon
<1> HIDE DEF T
<1>3. Cardinality(S) \in T
  BY <1>1, <1>2, Induction, FS_CardinalityType
<1> QED
  BY <1>3 DEF T

\* A list repeats no element.
NoRepeat(s) == \A i, k \in DOMAIN s : s[i] = s[k] => i = k

\* A list without a repeated element is as long as it has elements, and only such
\* a list is.
LEMMA LengthOfNoRepeat ==
  ASSUME NEW S, NEW s \in Seq(S)
  PROVE  /\ IsFiniteSet(ToSet(s)) /\ Cardinality(ToSet(s)) \in Nat
         /\ Cardinality(ToSet(s)) <= Len(s)
         /\ Cardinality(ToSet(s)) = Len(s) <=> NoRepeat(s)
<1>1. IsFiniteSet(1..Len(s)) /\ Cardinality(1..Len(s)) = Len(s)
  <2>1. Len(s) \in Int /\ 1 \in Int /\ Len(s) >= 0
    OBVIOUS
  <2>2. /\ IsFiniteSet(1..Len(s))
        /\ Cardinality(1..Len(s)) = IF 1 > Len(s) THEN 0 ELSE Len(s) - 1 + 1
    BY <2>1, FS_Interval, Zenon
  <2> QED
    BY <2>1, <2>2
<1>2. s \in Surjection(1..Len(s), ToSet(s))
  BY DEF Surjection, ToSet
<1>3. /\ IsFiniteSet(ToSet(s))
      /\ Cardinality(ToSet(s)) <= Cardinality(1..Len(s))
      /\ Cardinality(ToSet(s)) = Cardinality(1..Len(s)) <=> s \in Injection(1..Len(s), ToSet(s))
  BY <1>1, <1>2, FS_Surjection
<1>4. s \in Injection(1..Len(s), ToSet(s)) <=> NoRepeat(s)
  BY DEF Injection, IsInjective, NoRepeat, ToSet
<1> QED
  BY <1>1, <1>3, <1>4, FS_CardinalityType

\* The position of an element that a list has is one of it.
LEMMA PositionOf ==
  ASSUME NEW S, NEW s \in Seq(S), NEW e, Contains(s, e)
  PROVE  LET p == SelectInSeq(s, LAMBDA n : n = e) IN p \in 1..Len(s) /\ s[p] = e
<1> DEFINE I == {i \in 1..Len(s) : s[i] = e}
<1>1. I # {} /\ I \in SUBSET Nat
  BY DEF Contains
<1>2. \E m \in I : \A k \in I : m <= k
  BY <1>1, Least
<1>3. Min(I) \in I
  BY <1>2 DEF Min
<1>4. SelectInSeq(s, LAMBDA n : n = e) = IF I # {} THEN Min(I) ELSE 0
  BY DEF SelectInSeq
<1> QED
  BY <1>1, <1>3, <1>4

\* What remove leaves of a list.
LEMMA RemoveSwapFacts ==
  ASSUME NEW S, NEW s \in Seq(S), NEW p \in 1..Len(s)
  PROVE  LET r == RemoveSwap(s, p)
         IN  /\ r \in Seq(S)
             /\ Len(r) = Len(s) - 1
             /\ \A i \in 1..(Len(s) - 1) : r[i] = IF i = p THEN s[Len(s)] ELSE s[i]
<1> DEFINE t == [s EXCEPT ![p] = s[Len(s)]]
<1>1. t \in Seq(S) /\ Len(t) = Len(s) /\ Len(s) \in Nat
  BY ExceptSeq
<1>2. RemoveSwap(s, p) = SubSeq(t, 1, Len(s) - 1)
  BY <1>1 DEF RemoveSwap, Front, Last
<1> HIDE DEF t
<1>3. /\ SubSeq(t, 1, Len(s) - 1) \in Seq(S)
      /\ Len(SubSeq(t, 1, Len(s) - 1)) = Len(s) - 1
      /\ \A i \in 1..(Len(s) - 1) : SubSeq(t, 1, Len(s) - 1)[i] = t[i]
  BY <1>1
<1> QED
  BY <1>2, <1>3 DEF t

\* No element but the one removed is lost.
LEMMA RemoveSwapElements ==
  ASSUME NEW S, NEW s \in Seq(S), NEW p \in 1..Len(s)
  PROVE  ToSet(RemoveSwap(s, p)) \cup {s[p]} = ToSet(s)
<1> DEFINE r == RemoveSwap(s, p)
<1>1. /\ r \in Seq(S) /\ Len(r) = Len(s) - 1 /\ Len(s) \in Nat
      /\ \A i \in 1..(Len(s) - 1) : r[i] = IF i = p THEN s[Len(s)] ELSE s[i]
  BY RemoveSwapFacts
<1> HIDE DEF r
<1>2. DOMAIN r = 1..(Len(s) - 1) /\ DOMAIN s = 1..Len(s)
  BY <1>1
<1>3. ToSet(r) \cup {s[p]} \subseteq ToSet(s)
  BY <1>1, <1>2 DEF ToSet
<1>4. ASSUME NEW i \in 1..Len(s) PROVE s[i] \in ToSet(r) \cup {s[p]}
  <2>1. CASE i = p
    BY <2>1
  <2>2. CASE i # p /\ i # Len(s)
    BY <1>1, <1>2, <2>2 DEF ToSet
  <2>3. CASE i # p /\ i = Len(s)
    <3>1. p \in 1..(Len(s) - 1) /\ r[p] = s[i]
      BY <1>1, <2>3
    <3> QED
      BY <1>2, <3>1 DEF ToSet
  <2> QED
    BY <2>1, <2>2, <2>3
<1>5. ToSet(s) \subseteq ToSet(r) \cup {s[p]}
  BY <1>2, <1>4 DEF ToSet
<1> QED
  BY <1>3, <1>5 DEF r

\* A list repeats no element exactly if what is left does not, and does not have
\* the one removed any more.
LEMMA RemoveSwapNoRepeat ==
  ASSUME NEW S, NEW s \in Seq(S), NEW p \in 1..Len(s)
  PROVE  NoRepeat(s) <=> /\ NoRepeat(RemoveSwap(s, p))
                         /\ s[p] \notin ToSet(RemoveSwap(s, p))
<1> DEFINE r == RemoveSwap(s, p)
<1>1. /\ r \in Seq(S) /\ Len(r) = Len(s) - 1 /\ Len(s) \in Nat
      /\ \A i \in 1..(Len(s) - 1) : r[i] = IF i = p THEN s[Len(s)] ELSE s[i]
  BY RemoveSwapFacts
<1> HIDE DEF r
<1>2. DOMAIN r = 1..(Len(s) - 1) /\ DOMAIN s = 1..Len(s)
  BY <1>1
<1>3. ASSUME NoRepeat(s) PROVE NoRepeat(r) /\ s[p] \notin ToSet(r)
  BY <1>1, <1>2, <1>3 DEF NoRepeat, ToSet
<1>4. ASSUME NoRepeat(r), s[p] \notin ToSet(r) PROVE NoRepeat(s)
  <2> DEFINE at(i) == IF i = Len(s) THEN p ELSE i
  <2>1. ASSUME NEW i \in 1..Len(s), i # p PROVE at(i) \in DOMAIN r /\ r[at(i)] = s[i]
    BY <1>1, <1>2, <2>1
  <2>2. ASSUME NEW i \in 1..Len(s), NEW k \in 1..Len(s), s[i] = s[k] PROVE i = k
    <3>1. CASE i = p \/ k = p
      BY <1>4, <2>1, <2>2, <3>1 DEF ToSet
    <3>2. CASE i # p /\ k # p
      <4>1. at(i) = at(k)
        BY <1>4, <2>1, <2>2, <3>2 DEF NoRepeat
      <4> QED
        BY <3>2, <4>1
    <3> QED
      BY <3>1, <3>2
  <2> QED
    BY <1>2, <2>2 DEF NoRepeat
<1> QED
  BY <1>3, <1>4 DEF r

\* Two lists put together are a list of the elements of both.
LEMMA ConcatFacts ==
  ASSUME NEW S, NEW s \in Seq(S), NEW t \in Seq(S)
  PROVE  s \o t \in Seq(S) /\ ToSet(s \o t) = ToSet(s) \cup ToSet(t)
<1>1. /\ s \o t \in Seq(S) /\ Len(s \o t) = Len(s) + Len(t)
      /\ \A i \in 1..Len(s) : (s \o t)[i] = s[i]
      /\ \A i \in 1..Len(t) : (s \o t)[Len(s) + i] = t[i]
  OBVIOUS
<1>2. \A i \in 1..(Len(s) + Len(t)) : i \in 1..Len(s) \/ i - Len(s) \in 1..Len(t)
  OBVIOUS
<1>3. \A i \in 1..(Len(s) + Len(t)) : i \notin 1..Len(s) => (s \o t)[i] = t[i - Len(s)]
  OBVIOUS
<1>4. \A i \in 1..Len(s) : i \in 1..(Len(s) + Len(t))
  OBVIOUS
<1>5. \A i \in 1..Len(t) : Len(s) + i \in 1..(Len(s) + Len(t))
  OBVIOUS
<1>6. DOMAIN (s \o t) = 1..(Len(s) + Len(t)) /\ DOMAIN s = 1..Len(s) /\ DOMAIN t = 1..Len(t)
  BY <1>1
<1>7. ToSet(s \o t) \subseteq ToSet(s) \cup ToSet(t)
  BY <1>1, <1>2, <1>3, <1>6 DEF ToSet
<1>8. ToSet(s) \cup ToSet(t) \subseteq ToSet(s \o t)
  BY <1>1, <1>4, <1>5, <1>6 DEF ToSet
<1> QED
  BY <1>1, <1>7, <1>8

\* A list of lists is put together one after the other.
LEMMA FlattenRounds ==
  ASSUME NEW S, NEW seqs \in Seq(Seq(S))
  PROVE  \E f \in [0..Len(seqs) -> Seq(S)] :
           /\ f[0] = << >>
           /\ \A i \in 1..Len(seqs) : f[i] = f[i - 1] \o seqs[i]
           /\ FlattenSeq(seqs) = f[Len(seqs)]
<1> DEFINE L == Len(seqs)
           step == [x \in Seq(S) \X (1..L) |-> x[1] \o seqs[x[2]]]
<1>1. L \in Nat /\ DOMAIN seqs = 1..L /\ \A i \in 1..L : seqs[i] \in Seq(S)
  OBVIOUS
<1>2. << >> \in Seq(S) /\ step \in [Seq(S) \X (1..L) -> Seq(S)]
  <2>1. << >> \in Seq(S)
    OBVIOUS
  <2>2. ASSUME NEW x \in Seq(S) \X (1..L) PROVE x[1] \o seqs[x[2]] \in Seq(S)
    <3>1. x[1] \in Seq(S) /\ seqs[x[2]] \in Seq(S)
      BY <1>1
    <3> QED
      BY <3>1
  <2> QED
    BY <2>1, <2>2
<1> HIDE DEF step
<1>3. PICK h : IteratesTo(L, h, Seq(S), << >>, step)
  BY <1>1, <1>2, BoundedRecursion
<1>4. h[0] = << >> /\ h \in [0..L -> Seq(S)]
  BY <1>3 DEF IteratesTo
<1>5. ASSUME NEW i \in 1..L PROVE h[i] = h[i - 1] \o seqs[i]
  <2>1. i - 1 \in 0..L
    BY <1>1
  <2>2. h[i] = step[<<h[i - 1], i>>] /\ h[i - 1] \in Seq(S)
    BY <1>3, <1>4, <2>1 DEF IteratesTo
  <2>3. <<h[i - 1], i>> \in Seq(S) \X (1..L)
    BY <2>2
  <2> QED
    BY <2>2, <2>3 DEF step
<1>6. CASE L = 0
  <2>1. FlattenSeq(seqs) = << >>
    BY <1>6 DEF FlattenSeq
  <2> QED
    BY <1>4, <1>5, <1>6, <2>1
<1>7. CASE L # 0
  <2> DEFINE Flattens(g) == g = [i \in 1..L |-> IF i = 1 THEN seqs[i] ELSE g[i - 1] \o seqs[i]]
             f == CHOOSE g : Flattens(g)
             short == [i \in 1..L |-> h[i]]
  <2>1. FlattenSeq(seqs) = f[L]
    BY <1>7 DEF FlattenSeq
  <2>2. ASSUME NEW i \in 1..L
        PROVE  h[i] = IF i = 1 THEN seqs[i] ELSE short[i - 1] \o seqs[i]
    <3>1. CASE i = 1
      <4>1. h[1] = << >> \o seqs[1] /\ seqs[1] \in Seq(S)
        <5>1. h[i] = h[i - 1] \o seqs[i] /\ seqs[i] \in Seq(S)
          BY <1>1, <1>5
        <5>2. i - 1 = 0
          BY <3>1
        <5> QED
          BY <1>4, <3>1, <5>1, <5>2
      <4>2. \A t \in Seq(S) : << >> \o t = t
        OBVIOUS
      <4> QED
        BY <3>1, <4>1, <4>2
    <3>2. CASE i # 1
      <4>1. i - 1 \in 1..L
        BY <1>1, <3>2
      <4> QED
        BY <1>5, <3>2, <4>1
    <3> QED
      BY <3>1, <3>2
  <2>3. Flattens(short)
    BY <2>2
  <2>4. Flattens(f)
    <3> HIDE DEF short, Flattens
    <3> QED
      BY <2>3, Zenon
  <2> HIDE DEF f
  <2>5. \A i \in 1..L : f[i] = IF i = 1 THEN seqs[i] ELSE f[i - 1] \o seqs[i]
    BY <2>4, Zenon
  <2> HIDE DEF Flattens, short
  <2> DEFINE T == {i \in Nat : i \in 1..L => f[i] = h[i]}
  <2>6. 0 \in T
    OBVIOUS
  <2>7. ASSUME NEW i \in Nat, i \in T PROVE i + 1 \in T
    <3> SUFFICES ASSUME i + 1 \in 1..L PROVE f[i + 1] = h[i + 1]
      OBVIOUS
    <3> DEFINE k == i + 1
    <3>1. k - 1 = i
      OBVIOUS
    <3>2. CASE i = 0
      <4>1. k = 1 /\ k \in 1..L
        BY <3>2
      <4>2. f[1] = seqs[1] /\ h[1] = h[0] \o seqs[1] /\ seqs[1] \in Seq(S)
        <5>1. h[k] = h[k - 1] \o seqs[k] /\ k - 1 = 0
          BY <1>5, <3>1, <3>2, <4>1
        <5>2. f[k] = seqs[k]
          BY <2>5, <4>1
        <5> QED
          BY <1>1, <4>1, <5>1, <5>2
      <4>3. \A t \in Seq(S) : << >> \o t = t
        OBVIOUS
      <4> QED
        BY <1>4, <4>1, <4>2, <4>3
    <3>3. CASE i # 0
      <4>1. i \in 1..L /\ k \in 1..L /\ k # 1
        BY <1>1, <3>3
      <4>2. f[i] = h[i]
        BY <2>7, <4>1
      <4> HIDE DEF k
      <4>3. f[k] = f[k - 1] \o seqs[k] /\ h[k] = h[k - 1] \o seqs[k]
        BY <1>5, <2>5, <4>1
      <4> QED
        BY <3>1, <4>2, <4>3 DEF k
    <3> QED
      BY <3>2, <3>3
  <2> HIDE DEF T
  <2>8. \A i \in Nat : i \in T
    BY <2>6, <2>7, Induction
  <2>9. f[L] = h[L]
    BY <1>1, <1>7, <2>8 DEF T
  <2> QED
    BY <1>4, <1>5, <2>1, <2>9
<1> QED
  BY <1>6, <1>7

\* A list of lists put together is a list of the elements of all of them.
LEMMA FlattenFacts ==
  ASSUME NEW S, NEW seqs \in Seq(Seq(S))
  PROVE  /\ FlattenSeq(seqs) \in Seq(S)
         /\ ToSet(FlattenSeq(seqs)) = UNION {ToSet(seqs[i]) : i \in DOMAIN seqs}
<1> DEFINE L == Len(seqs)
           Elements(n) == UNION {ToSet(seqs[i]) : i \in 1..n}
<1>1. L \in Nat /\ DOMAIN seqs = 1..L /\ \A i \in 1..L : seqs[i] \in Seq(S)
  OBVIOUS
<1>2. PICK f \in [0..L -> Seq(S)] :
        /\ f[0] = << >>
        /\ \A i \in 1..L : f[i] = f[i - 1] \o seqs[i]
        /\ FlattenSeq(seqs) = f[L]
  BY FlattenRounds
<1> DEFINE T == {n \in Nat : n <= L => ToSet(f[n]) = Elements(n)}
<1>3. 0 \in T
  <2>1. ToSet(<< >>) = {}
    BY DEF ToSet
  <2>2. Elements(0) = {}
    OBVIOUS
  <2> QED
    BY <1>2, <2>1, <2>2
<1>4. ASSUME NEW n \in Nat, n \in T PROVE n + 1 \in T
  <2> SUFFICES ASSUME n + 1 <= L PROVE ToSet(f[n + 1]) = Elements(n + 1)
    <3>1. n + 1 \in Nat
      OBVIOUS
    <3> HIDE DEF Elements
    <3> QED
      BY <3>1, Zenon
  <2>1. n \in 0..L /\ n + 1 \in 1..L /\ (n + 1) - 1 = n /\ n <= L
    BY <1>1
  <2>2. ToSet(f[n]) = Elements(n)
    BY <1>4, <2>1
  <2> HIDE DEF T, Elements
  <2>3. f[n + 1] = f[n] \o seqs[n + 1] /\ f[n] \in Seq(S) /\ seqs[n + 1] \in Seq(S)
    BY <1>1, <1>2, <2>1
  <2>4. \A s, t \in Seq(S) : ToSet(s \o t) = ToSet(s) \cup ToSet(t)
    BY ConcatFacts
  <2>5. Elements(n + 1) = Elements(n) \cup ToSet(seqs[n + 1])
    <3>1. 1..(n + 1) = (1..n) \cup {n + 1}
      OBVIOUS
    <3> QED
      BY <3>1 DEF Elements
  <2> QED
    BY <2>2, <2>3, <2>4, <2>5
<1> HIDE DEF T
<1>5. L \in T
  BY <1>1, <1>3, <1>4, Induction
<1> QED
  BY <1>1, <1>2, <1>5 DEF T

\* The elements of a list are its first one and those behind it.
LEMMA HeadAndTail ==
  ASSUME NEW S, NEW s \in Seq(S), s # << >>
  PROVE  ToSet(s) = ToSet(Tail(s)) \cup {Head(s)}
<1>1. /\ Len(s) \in Nat \ {0} /\ DOMAIN s = 1..Len(s) /\ Head(s) = s[1]
      /\ Tail(s) \in Seq(S) /\ Len(Tail(s)) = Len(s) - 1
      /\ \A i \in 1..(Len(s) - 1) : Tail(s)[i] = s[i + 1]
  OBVIOUS
<1>2. DOMAIN Tail(s) = 1..(Len(s) - 1)
  BY <1>1
<1>3. ASSUME NEW i \in 1..Len(s) PROVE s[i] \in ToSet(Tail(s)) \cup {Head(s)}
  <2>1. CASE i = 1
    BY <1>1, <2>1
  <2>2. CASE i # 1
    <3>1. i - 1 \in 1..(Len(s) - 1) /\ (i - 1) + 1 = i
      BY <1>1, <2>2
    <3>2. s[i] = Tail(s)[i - 1]
      BY <1>1, <3>1
    <3> QED
      BY <1>2, <3>1, <3>2 DEF ToSet
  <2> QED
    BY <2>1, <2>2
<1>4. \A i \in 1..(Len(s) - 1) : Tail(s)[i] \in ToSet(s)
  BY <1>1 DEF ToSet
<1>5. Head(s) \in ToSet(s)
  <2>1. 1 \in 1..Len(s)
    BY <1>1
  <2> QED
    BY <1>1, <2>1 DEF ToSet
<1> QED
  BY <1>1, <1>2, <1>3, <1>4, <1>5 DEF ToSet
=============================================================================
