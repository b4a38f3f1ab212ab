--------------------------- MODULE SetImportProofs ---------------------------
(***************************************************************************)
(* Proofs about SetImport for any number of processes and calls, of codes, *)
(* blocks, names and translations.                                         *)
(***************************************************************************)
EXTENDS SetImport, SliceOpsProofs

-----------------------------------------------------------------------------
(* Lists of translations and of statements, by their language. *)

Translation == [lang : Langs, name : Names]
TransRow == [code : Codes, lang : Langs, name : Names]

HasLang(s, l) == \E i \in DOMAIN s : s[i].lang = l

HasTwo(s, l) == \E i, k \in DOMAIN s : i # k /\ s[i].lang = l /\ s[k].lang = l

\* No element shares its language with another one.
Apart(s) == \A i, k \in DOMAIN s : s[i].lang = s[k].lang => i = k

\* What remove leaves of a list: each of the others, at a place of its own.
LEMMA RemoveSwapPlaces ==
  ASSUME NEW S, NEW s \in Seq(S), NEW p \in 1..Len(s)
  PROVE  LET r == RemoveSwap(s, p)
         IN  /\ \A i, k \in DOMAIN s \ {p} : i # k =>
                  \E a, b \in DOMAIN r : a # b /\ r[a] = s[i] /\ r[b] = s[k]
             /\ \A a, b \in DOMAIN r : a # b =>
                  \E i, k \in DOMAIN s \ {p} : i # k /\ r[a] = s[i] /\ r[b] = s[k]
             /\ \A i \in DOMAIN s \ {p} : \E a \in DOMAIN r : r[a] = s[i]
             /\ \A a \in DOMAIN r : \E i \in DOMAIN s \ {p} : r[a] = s[i]
<1> DEFINE r == RemoveSwap(s, p)
           to(i) == IF i = Len(s) THEN p ELSE i
           from(a) == IF a = p THEN Len(s) ELSE a
<1>1. /\ r \in Seq(S) /\ Len(r) = Len(s) - 1 /\ Len(s) \in Nat
      /\ \A i \in 1..(Len(s) - 1) : r[i] = IF i = p THEN s[Len(s)] ELSE s[i]
  BY RemoveSwapFacts
<1> HIDE DEF r
<1>2. DOMAIN r = 1..(Len(s) - 1) /\ DOMAIN s = 1..Len(s)
  BY <1>1
<1>3. ASSUME NEW i \in DOMAIN s \ {p} PROVE to(i) \in DOMAIN r /\ r[to(i)] = s[i]
  BY <1>1, <1>2
<1>4. ASSUME NEW a \in DOMAIN r PROVE from(a) \in DOMAIN s \ {p} /\ s[from(a)] = r[a]
  BY <1>1, <1>2
<1>5. \A i, k \in DOMAIN s \ {p} : i # k => to(i) # to(k)
  BY <1>1, <1>2
<1>6. \A a, b \in DOMAIN r : a # b => from(a) # from(b)
  BY <1>1, <1>2
<1> HIDE DEF to, from
<1> QED
  BY <1>3, <1>4, <1>5, <1>6 DEF r

\* The position of a language is one of a translation in it, or 0.
LEMMA PosOfFacts ==
  ASSUME NEW S, NEW tt \in Seq(S), NEW l
  PROVE  /\ HasLang(tt, l) => PosOf(tt, l) \in 1..Len(tt) /\ tt[PosOf(tt, l)].lang = l
         /\ ~ HasLang(tt, l) => PosOf(tt, l) = 0
<1> DEFINE I == {i \in 1..Len(tt) : tt[i].lang = l}
<1>1. PosOf(tt, l) = IF I # {} THEN Min(I) ELSE 0
  BY DEF PosOf, SelectInSeq
<1>2. HasLang(tt, l) <=> I # {}
  BY DEF HasLang
<1>3. I # {} => Min(I) \in I
  <2> SUFFICES ASSUME I # {} PROVE Min(I) \in I
    OBVIOUS
  <2>1. \E m \in I : \A k \in I : m <= k
    <3>1. I \in SUBSET Nat
      OBVIOUS
    <3> QED
      BY <3>1, Least
  <2> QED
    BY <2>1 DEF Min
<1> QED
  BY <1>1, <1>2, <1>3

\* One translation in a language goes, the others stay.
LEMMA RemoveLangFacts ==
  ASSUME NEW tt \in Seq(Translation), NEW t
  PROVE  LET r == RemoveLang(tt, t)
         IN  /\ r \in Seq(Translation)
             /\ ToSet(r) \subseteq ToSet(tt)
             /\ \A x \in ToSet(tt) : x.lang # t.lang => x \in ToSet(r)
             /\ \A l : l # t.lang /\ HasTwo(tt, l) => HasTwo(r, l)
             /\ HasTwo(tt, t.lang) => HasLang(r, t.lang)
             /\ Apart(tt) => Apart(r) /\ ~ HasLang(r, t.lang)
<1> DEFINE p == PosOf(tt, t.lang)
           r == RemoveSwap(tt, p)
<1>1. CASE ~ HasLang(tt, t.lang)
  <2>1. RemoveLang(tt, t) = tt
    BY <1>1, PosOfFacts DEF RemoveLang
  <2> QED
    BY <1>1, <2>1 DEF HasLang, HasTwo
<1>2. CASE HasLang(tt, t.lang)
  <2>1. p \in 1..Len(tt) /\ tt[p].lang = t.lang
    BY <1>2, PosOfFacts
  <2>2. RemoveLang(tt, t) = r
    BY <2>1 DEF RemoveLang
  <2> HIDE DEF p
  <2>3. r \in Seq(Translation)
    BY <2>1, RemoveSwapFacts
  <2>4. /\ \A i, k \in DOMAIN tt \ {p} : i # k =>
             \E a, b \in DOMAIN r : a # b /\ r[a] = tt[i] /\ r[b] = tt[k]
        /\ \A a, b \in DOMAIN r : a # b =>
             \E i, k \in DOMAIN tt \ {p} : i # k /\ r[a] = tt[i] /\ r[b] = tt[k]
        /\ \A i \in DOMAIN tt \ {p} : \E a \in DOMAIN r : r[a] = tt[i]
        /\ \A a \in DOMAIN r : \E i \in DOMAIN tt \ {p} : r[a] = tt[i]
    BY <2>1, RemoveSwapPlaces
  <2> HIDE DEF r
  <2>5. ToSet(r) \subseteq ToSet(tt)
    BY <2>4 DEF ToSet
  <2>6. \A x \in ToSet(tt) : x.lang # t.lang => x \in ToSet(r)
    BY <2>1, <2>4 DEF ToSet
  <2>7. ASSUME NEW l, l # t.lang, HasTwo(tt, l) PROVE HasTwo(r, l)
    <3>1. PICK i, k \in DOMAIN tt : i # k /\ tt[i].lang = l /\ tt[k].lang = l
      BY <2>7 DEF HasTwo
    <3>2. i # p /\ k # p
      BY <2>1, <2>7, <3>1
    <3>3. PICK a, b \in DOMAIN r : a # b /\ r[a] = tt[i] /\ r[b] = tt[k]
      BY <2>4, <3>1, <3>2
    <3> QED
      BY <3>1, <3>3 DEF HasTwo
  <2>8. HasTwo(tt, t.lang) => HasLang(r, t.lang)
    <3> SUFFICES ASSUME NEW i \in DOMAIN tt, NEW k \in DOMAIN tt, i # k,
                        tt[i].lang = t.lang, tt[k].lang = t.lang
                 PROVE  HasLang(r, t.lang)
      BY DEF HasTwo
    <3>1. PICK j \in {i, k} : j # p
      OBVIOUS
    <3>2. PICK a \in DOMAIN r : r[a] = tt[j]
      BY <2>4, <3>1
    <3> QED
      BY <3>1, <3>2 DEF HasLang
  <2>9. ASSUME Apart(tt) PROVE Apart(r) /\ ~ HasLang(r, t.lang)
    <3>1. p \in DOMAIN tt
      BY <2>1
    <3>2. Apart(r)
      <4> SUFFICES ASSUME NEW a \in DOMAIN r, NEW b \in DOMAIN r, a # b, r[a].lang = r[b].lang
                   PROVE  FALSE
        BY DEF Apart
      <4>1. PICK i, k \in DOMAIN tt \ {p} : i # k /\ r[a] = tt[i] /\ r[b] = tt[k]
        BY <2>4
      <4> QED
        BY <2>9, <4>1 DEF Apart
    <3>3. ~ HasLang(r, t.lang)
      BY <2>1, <2>4, <2>9, <3>1 DEF Apart, HasLang
    <3> QED
      BY <3>2, <3>3
  <2> QED
    BY <2>2, <2>3, <2>5, <2>6, <2>7, <2>8, <2>9
<1> QED
  BY <1>1, <1>2

\* What is left when the translations of the database are removed: all that are in
\* a language of their own, one less in each language that the database has.
LEMMA ToCreateFacts ==
  ASSUME NEW tt \in Seq(Translation), NEW old \in Seq(TransRow), Apart(old)
  PROVE  LET r == ToCreate(tt, old)
         IN  /\ r \in Seq(Translation)
             /\ ToSet(r) \subseteq ToSet(tt)
             /\ \A x \in ToSet(tt) : ~ HasLang(old, x.lang) => x \in ToSet(r)
             /\ \A l : HasTwo(tt, l) => HasLang(r, l) /\ (~ HasLang(old, l) => HasTwo(r, l))
             /\ Apart(tt) => Apart(r) /\ \A l : HasLang(old, l) => ~ HasLang(r, l)
             /\ Len(old) = 0 => r = tt
<1> DEFINE n == Len(old)
           S == Seq(Translation)
           step == [x \in S \X (1..n) |-> RemoveLang(x[1], old[x[2]])]
           Rest(g) == g = [i \in 0..n |-> IF i = 0 THEN tt ELSE RemoveLang(g[i - 1], old[i])]
           left == CHOOSE g : Rest(g)
<1>1. n \in Nat /\ DOMAIN old = 1..n /\ \A i \in 1..n : old[i] \in TransRow
  OBVIOUS
<1>2. ToCreate(tt, old) = left[n]
  BY DEF ToCreate
<1>3. step \in [S \X (1..n) -> S]
  <2> SUFFICES ASSUME NEW x \in S, NEW i \in 1..n PROVE RemoveLang(x, old[i]) \in S
    OBVIOUS
  <2> QED
    BY RemoveLangFacts
<1>4. PICK f : IteratesTo(n, f, S, tt, step)
  <2> HIDE DEF step, n, S
  <2>1. tt \in S
    BY DEF S
  <2> QED
    BY <1>1, <1>3, <2>1, BoundedRecursion
<1>5. /\ f \in [0..n -> S] /\ f[0] = tt
      /\ \A i \in 1..n : f[i] = RemoveLang(f[i - 1], old[i])
  <2>1. f \in [0..n -> S] /\ f[0] = tt /\ \A i \in 1..n : f[i] = step[<<f[i - 1], i>>]
    BY <1>4 DEF IteratesTo
  <2>2. ASSUME NEW i \in 1..n PROVE f[i] = RemoveLang(f[i - 1], old[i])
    <3>1. i - 1 \in 0..n
      BY <1>1
    <3>2. <<f[i - 1], i>> \in S \X (1..n)
      BY <2>1, <3>1
    <3> QED
      BY <2>1, <3>2
  <2> QED
    BY <2>1, <2>2
<1>6. Rest(f)
  <2>1. ASSUME NEW i \in 0..n PROVE f[i] = IF i = 0 THEN tt ELSE RemoveLang(f[i - 1], old[i])
    BY <1>1, <1>5
  <2> QED
    BY <1>5, <2>1
<1>7. Rest(left)
  <2> HIDE DEF Rest
  <2> QED
    BY <1>6, Zenon
<1>8. /\ left[0] = tt
      /\ \A i \in 1..n : left[i] = RemoveLang(left[i - 1], old[i])
  <2> HIDE DEF left
  <2>1. \A i \in 0..n : left[i] = IF i = 0 THEN tt ELSE RemoveLang(left[i - 1], old[i])
    BY <1>7, Zenon
  <2> HIDE DEF Rest, n
  <2> QED
    BY <1>1, <2>1
<1> HIDE DEF left, step
<1> DEFINE Before(i, l) == \E k \in 1..i : old[k].lang = l
           Kept(i) ==
             LET r == left[i]
             IN  /\ r \in Seq(Translation)
                 /\ ToSet(r) \subseteq ToSet(tt)
                 /\ \A x \in ToSet(tt) : ~ Before(i, x.lang) => x \in ToSet(r)
                 /\ \A l : HasTwo(tt, l) => HasLang(r, l) /\ (~ Before(i, l) => HasTwo(r, l))
                 /\ Apart(tt) => Apart(r) /\ \A l : Before(i, l) => ~ HasLang(r, l)
           T == {i \in Nat : i <= n => Kept(i)}
<1>9. 0 \in T
  <2>1. \A l : ~ Before(0, l)
    OBVIOUS
  <2>2. \A l : HasTwo(tt, l) => HasLang(tt, l)
    BY DEF HasTwo, HasLang
  <2> HIDE DEF Before
  <2> QED
    BY <1>8, <2>1, <2>2
<1>10. ASSUME NEW i \in Nat, i \in T PROVE i + 1 \in T
  <2> SUFFICES ASSUME i + 1 <= n PROVE Kept(i + 1)
    <3>1. i + 1 \in Nat
      OBVIOUS
    <3> HIDE DEF Kept
    <3> QED
      BY <3>1, Zenon
  <2> DEFINE r == left[i]
             k == i + 1
             t == old[k]
  <2>1. Kept(i)
    BY <1>1, <1>10
  <2>2. k \in 1..n /\ k - 1 = i
    BY <1>1
  <2>3. left[k] = RemoveLang(r, t)
    BY <1>8, <2>2
  <2>4. \A l : Before(k, l) <=> Before(i, l) \/ t.lang = l
    <3>1. 1..k = (1..i) \cup {k}
      OBVIOUS
    <3> QED
      BY <3>1
  <2>5. ~ Before(i, t.lang)
    BY <1>1, <2>2 DEF Apart
  <2> HIDE DEF T, Before, k, t
  <2>6. /\ r \in Seq(Translation)
        /\ ToSet(r) \subseteq ToSet(tt)
        /\ \A x \in ToSet(tt) : ~ Before(i, x.lang) => x \in ToSet(r)
        /\ \A l : HasTwo(tt, l) => HasLang(r, l) /\ (~ Before(i, l) => HasTwo(r, l))
        /\ Apart(tt) => Apart(r) /\ \A l : Before(i, l) => ~ HasLang(r, l)
    BY <2>1
  <2> DEFINE q == RemoveLang(r, t)
  <2>7. /\ q \in Seq(Translation)
        /\ ToSet(q) \subseteq ToSet(r)
        /\ \A x \in ToSet(r) : x.lang # t.lang => x \in ToSet(q)
        /\ \A l : l # t.lang /\ HasTwo(r, l) => HasTwo(q, l)
        /\ HasTwo(r, t.lang) => HasLang(q, t.lang)
        /\ Apart(r) => Apart(q) /\ ~ HasLang(q, t.lang)
    BY <2>6, RemoveLangFacts
  <2> HIDE DEF q, r
  <2>8. \A l : HasLang(q, l) => HasLang(r, l)
    BY <2>7 DEF HasLang, ToSet
  <2>9. \A l : l # t.lang /\ HasLang(r, l) => HasLang(q, l)
    BY <2>7 DEF HasLang, ToSet
  <2>10. \A x \in ToSet(tt) : ~ Before(k, x.lang) => x \in ToSet(q)
    BY <2>4, <2>6, <2>7
  <2>11. \A l : HasTwo(tt, l) => HasLang(q, l) /\ (~ Before(k, l) => HasTwo(q, l))
    BY <2>4, <2>5, <2>6, <2>7, <2>9
  <2>12. Apart(tt) => Apart(q) /\ \A l : Before(k, l) => ~ HasLang(q, l)
    BY <2>4, <2>6, <2>7, <2>8
  <2>13. ToSet(q) \subseteq ToSet(tt)
    BY <2>6, <2>7
  <2>14. Kept(k)
    BY <2>3, <2>7, <2>10, <2>11, <2>12, <2>13 DEF q
  <2> QED
    BY <2>14 DEF k
<1> HIDE DEF Kept, T
<1>11. \A i \in Nat : i \in T
  BY <1>9, <1>10, Induction
<1>12. Kept(n)
  BY <1>1, <1>11 DEF T
<1>13. \A l : Before(n, l) <=> HasLang(old, l)
  BY <1>1 DEF HasLang
<1> HIDE DEF Before
<1> QED
  BY <1>2, <1>8, <1>12, <1>13 DEF Kept

\* Lists that have no language in common can be put together.
LEMMA ConcatLangs ==
  ASSUME NEW S, NEW s \in Seq(S), NEW t \in Seq(S)
  PROVE  /\ \A l : HasLang(s \o t, l) <=> HasLang(s, l) \/ HasLang(t, l)
         /\ (Apart(s) /\ Apart(t) /\ \A l : ~ (HasLang(s, l) /\ HasLang(t, l))) => Apart(s \o t)
<1> DEFINE n == Len(s)
           m == Len(t)
           u == s \o t
<1>1. n \in Nat /\ m \in Nat /\ DOMAIN s = 1..n /\ DOMAIN t = 1..m /\ DOMAIN u = 1..(n + m)
  OBVIOUS
<1>2. \A i \in 1..n : i \in DOMAIN u /\ u[i] = s[i]
  OBVIOUS
<1>3. \A i \in 1..m : n + i \in DOMAIN u /\ u[n + i] = t[i]
  OBVIOUS
<1>4. \A i \in DOMAIN u : i \in 1..n \/ \E k \in 1..m : i = n + k
  <2>1. \A i \in 1..(n + m) : i \in 1..n \/ i - n \in 1..m
    BY <1>1
  <2>2. \A i \in 1..(n + m) : i = n + (i - n)
    BY <1>1
  <2> QED
    BY <1>1, <2>1, <2>2
<1> HIDE DEF u
<1>5. ASSUME NEW l PROVE HasLang(u, l) <=> HasLang(s, l) \/ HasLang(t, l)
  <2> HIDE DEF n, m
  <2>1. HasLang(s, l) => HasLang(u, l)
    BY <1>1, <1>2 DEF HasLang
  <2>2. HasLang(t, l) => HasLang(u, l)
    BY <1>1, <1>3 DEF HasLang
  <2>3. ASSUME NEW i \in DOMAIN u, u[i].lang = l PROVE HasLang(s, l) \/ HasLang(t, l)
    <3>1. CASE i \in 1..n
      BY <1>1, <1>2, <2>3, <3>1 DEF HasLang
    <3>2. ASSUME NEW k \in 1..m, i = n + k PROVE HasLang(t, l)
      BY <1>1, <1>3, <2>3, <3>2 DEF HasLang
    <3> QED
      BY <1>4, <3>1, <3>2
  <2> QED
    BY <2>1, <2>2, <2>3 DEF HasLang
<1>6. ASSUME Apart(s), Apart(t), \A l : ~ (HasLang(s, l) /\ HasLang(t, l)) PROVE Apart(u)
  <2> SUFFICES ASSUME NEW i \in DOMAIN u, NEW k \in DOMAIN u, u[i].lang = u[k].lang
               PROVE  i = k
    BY DEF Apart
  <2> HIDE DEF n, m
  <2>1. CASE i \in 1..n /\ k \in 1..n
    BY <1>1, <1>2, <1>6, <2>1 DEF Apart
  <2>2. ASSUME NEW a \in 1..m, NEW b \in 1..m, i = n + a, k = n + b PROVE i = k
    <3>1. t[a].lang = t[b].lang
      BY <1>3, <2>2
    <3> QED
      BY <1>1, <1>6, <2>2, <3>1 DEF Apart
  <2>3. ASSUME NEW a \in 1..m, \/ i \in 1..n /\ k = n + a
                               \/ k \in 1..n /\ i = n + a
        PROVE  FALSE
    <3>1. PICK j \in 1..n : s[j].lang = t[a].lang
      BY <1>2, <1>3, <2>3
    <3> QED
      BY <1>1, <1>6, <3>1 DEF HasLang
  <2> QED
    BY <1>4, <2>1, <2>2, <2>3
<1> QED
  BY <1>5, <1>6 DEF u

\* One row in a language at most.
Keyed(rows) == \A t, u \in rows : t.lang = u.lang => t = u

\* A list of the rows in a language, one or none.
LEMMA InLangFacts ==
  ASSUME NEW rows \in SUBSET TransRow, Keyed(rows), NEW lang
  PROVE  LET s == InLang(rows, lang)
         IN  /\ s \in Seq(TransRow)
             /\ ToSet(s) = {t \in rows : t.lang = lang}
             /\ Apart(s)
<1> DEFINE R == {t \in rows : t.lang = lang}
           s == InLang(rows, lang)
<1>1. s = CHOOSE f \in [1..Cardinality(R) -> R] : IsInjective(f)
  BY DEF InLang, SetToSeq
<1>2. R \subseteq TransRow
  OBVIOUS
<1>3. CASE R = {}
  <2>1. 1..Cardinality(R) = {}
    BY <1>3, FS_EmptySet
  <2> DEFINE f == [i \in {} |-> i]
  <2>2. f \in [1..Cardinality(R) -> R] /\ IsInjective(f)
    BY <1>3, <2>1 DEF IsInjective
  <2>3. s \in [1..Cardinality(R) -> R]
    BY <1>1, <2>2, Zenon
  <2> HIDE DEF s, R
  <2>4. DOMAIN s = {} /\ s \in [1..0 -> TransRow]
    <3>1. 1..0 = {}
      OBVIOUS
    <3> QED
      BY <1>3, <2>1, <2>3, <3>1
  <2>5. s \in Seq(TransRow)
    BY <2>4, SeqDef
  <2> QED
    BY <1>3, <2>4, <2>5 DEF ToSet, Apart, R, s
<1>4. ASSUME NEW u \in R PROVE s = <<u>> /\ R = {u}
  <2>1. R = {u}
    BY DEF Keyed
  <2>2. 1..Cardinality(R) = {1}
    <3> HIDE DEF R
    <3>1. Cardinality({u}) = 1
      BY FS_Singleton
    <3>2. 1..1 = {1}
      OBVIOUS
    <3> QED
      BY <2>1, <3>1, <3>2
  <2> DEFINE f == [i \in {1} |-> u]
  <2>3. f \in [1..Cardinality(R) -> R] /\ IsInjective(f)
    BY <2>2 DEF IsInjective
  <2>4. s \in [1..Cardinality(R) -> R]
    BY <1>1, <2>3, Zenon
  <2>5. s \in [{1} -> {u}]
    BY <2>1, <2>2, <2>4
  <2> HIDE DEF s, R
  <2>6. s = <<u>>
    BY <2>5
  <2> QED
    BY <2>1, <2>6
<1>5. ASSUME NEW u \in R PROVE s \in Seq(TransRow) /\ ToSet(s) = R /\ Apart(s)
  <2>1. s = <<u>> /\ R = {u} /\ u \in TransRow
    BY <1>2, <1>4
  <2> HIDE DEF s, R
  <2>2. ToSet(<<u>>) = {u} /\ Apart(<<u>>) /\ <<u>> \in Seq(TransRow)
    BY <2>1 DEF ToSet, Apart
  <2> QED
    BY <2>1, <2>2
<1> QED
  BY <1>3, <1>5

\* All rows, in the order of their languages.
LEMMA SortedFacts ==
  ASSUME NEW rows \in SUBSET TransRow, Keyed(rows)
  PROVE  /\ Sorted(rows) \in Seq(TransRow)
         /\ ToSet(Sorted(rows)) = rows
         /\ Apart(Sorted(rows))
<1> DEFINE d == InLang(rows, "deu")
           e == InLang(rows, "eng")
<1>1. /\ d \in Seq(TransRow) /\ ToSet(d) = {t \in rows : t.lang = "deu"} /\ Apart(d)
      /\ e \in Seq(TransRow) /\ ToSet(e) = {t \in rows : t.lang = "eng"} /\ Apart(e)
  BY InLangFacts
<1>2. \A t \in rows : t.lang \in {"deu", "eng"}
  BY DEF TransRow, Langs
<1> HIDE DEF d, e
<1>3. \A l : /\ HasLang(d, l) => l = "deu"
             /\ HasLang(e, l) => l = "eng"
  BY <1>1 DEF HasLang, ToSet
<1>4. d \o e \in Seq(TransRow) /\ ToSet(d \o e) = ToSet(d) \cup ToSet(e)
  BY <1>1, ConcatFacts
<1>5. Apart(d \o e)
  BY <1>1, <1>3, ConcatLangs
<1>6. ToSet(d \o e) = rows
  BY <1>1, <1>2, <1>4
<1> QED
  BY <1>4, <1>5, <1>6 DEF Sorted, d, e

-----------------------------------------------------------------------------
(* The statements of a merge. *)

\* A statement that brings the translations of the database closer to those given.
Toward(tt, s) ==
  IF s.op = "delete" THEN ~ HasLang(tt, s.lang)
  ELSE [lang |-> s.lang, name |-> s.name] \in ToSet(tt)

Creates(s, l) == \E i \in DOMAIN s : s[i].op = "create" /\ s[i].lang = l

CreatesTwo(s, l) ==
  \E i, k \in DOMAIN s : i # k /\ s[i].op = "create" /\ s[i].lang = l
                               /\ s[k].op = "create" /\ s[k].lang = l

Entry(t) == [lang |-> t.lang, name |-> t.name]

\* A translation of the database is kept as it is only if it is given.
LEMMA MergeOneFacts ==
  ASSUME NEW tt \in Seq(Translation), NEW t \in TransRow
  PROVE  LET m == MergeOne(tt, t)
         IN  /\ m \in Seq(Statement)
             /\ Apart(m)
             /\ \A x \in ToSet(m) : x.lang = t.lang /\ x.op # "create" /\ Toward(tt, x)
             /\ HasLang(m, t.lang) \/ Entry(t) \in ToSet(tt)
<1> DEFINE m == MergeOne(tt, t)
           i == PosOf(tt, t.lang)
<1>1. t.lang \in Langs /\ t.name \in Names
  BY DEF TransRow
<1>2. ASSUME NEW x \in Statement, x.lang = t.lang, m = <<x>>, x.op # "create", Toward(tt, x)
      PROVE  /\ m \in Seq(Statement) /\ Apart(m)
             /\ \A y \in ToSet(m) : y.lang = t.lang /\ y.op # "create" /\ Toward(tt, y)
             /\ HasLang(m, t.lang)
  <2> HIDE DEF m
  <2>1. DOMAIN m = {1} /\ m[1] = x /\ ToSet(m) = {x} /\ m \in Seq(Statement)
    BY <1>2 DEF ToSet
  <2> QED
    BY <1>2, <2>1 DEF Apart, HasLang
<1>3. CASE ~ HasLang(tt, t.lang)
  <2> DEFINE x == Op("delete", t)
  <2>1. m = <<x>>
    BY <1>3, PosOfFacts DEF MergeOne
  <2>2. x \in Statement /\ x.lang = t.lang /\ x.op = "delete"
    BY <1>1 DEF Op, Statement
  <2>3. Toward(tt, x)
    BY <1>3, <2>2 DEF Toward
  <2> QED
    BY <1>2, <2>1, <2>2, <2>3
<1>4. CASE HasLang(tt, t.lang)
  <2>1. i \in DOMAIN tt /\ tt[i].lang = t.lang /\ i # 0
    BY <1>4, PosOfFacts
  <2>2. tt[i] \in Translation /\ tt[i] \in ToSet(tt)
    BY <2>1 DEF ToSet
  <2>3. tt[i] = Entry(tt[i]) /\ tt[i].lang \in Langs /\ tt[i].name \in Names
    BY <2>2 DEF Translation, Entry
  <2>4. CASE tt[i].name # t.name
    <3> DEFINE x == Op("update", tt[i])
    <3>1. m = <<x>>
      BY <2>1, <2>4 DEF MergeOne
    <3>2. /\ x \in Statement /\ x.lang = t.lang /\ x.op = "update"
          /\ [lang |-> x.lang, name |-> x.name] = Entry(tt[i])
      BY <2>1, <2>3 DEF Op, Statement, Entry
    <3>3. Toward(tt, x)
      BY <2>2, <2>3, <3>2 DEF Toward
    <3> QED
      BY <1>2, <3>1, <3>2, <3>3
  <2>5. CASE tt[i].name = t.name
    <3>1. m = << >>
      BY <2>1, <2>5 DEF MergeOne
    <3>2. Entry(t) = tt[i]
      BY <2>1, <2>3, <2>5 DEF Entry
    <3> QED
      BY <2>2, <3>1, <3>2 DEF Apart, ToSet
  <2> QED
    BY <2>4, <2>5
<1> QED
  BY <1>3, <1>4

\* Lists, each of a language of its own, can be put together.
LEMMA FlattenLangs ==
  ASSUME NEW S, NEW seqs \in Seq(Seq(S)), NEW k,
         \A i, j \in DOMAIN seqs : k[i] = k[j] => i = j,
         \A i \in DOMAIN seqs : Apart(seqs[i]) /\ \A x \in ToSet(seqs[i]) : x.lang = k[i]
  PROVE  Apart(FlattenSeq(seqs))
<1> DEFINE L == Len(seqs)
<1>1. L \in Nat /\ DOMAIN seqs = 1..L /\ \A i \in 1..L : seqs[i] \in Seq(S)
  OBVIOUS
<1>2. PICK f \in [0..L -> Seq(S)] :
        /\ f[0] = << >>
        /\ \A i \in 1..L : f[i] = f[i - 1] \o seqs[i]
        /\ FlattenSeq(seqs) = f[L]
  BY FlattenRounds
<1> DEFINE Fine(n) == Apart(f[n]) /\ \A l : HasLang(f[n], l) => \E i \in 1..n : k[i] = l
           T == {n \in Nat : n <= L => Fine(n)}
<1>3. 0 \in T
  BY <1>2 DEF Apart, HasLang
<1>4. ASSUME NEW n \in Nat, n \in T PROVE n + 1 \in T
  <2> SUFFICES ASSUME n + 1 <= L PROVE Fine(n + 1)
    <3>1. n + 1 \in Nat
      OBVIOUS
    <3> HIDE DEF Fine
    <3> QED
      BY <3>1, Zenon
  <2> DEFINE m == n + 1
  <2>1. n \in 0..L /\ m \in 1..L /\ m - 1 = n /\ n <= L
    BY <1>1
  <2>2. Fine(n)
    BY <1>4, <2>1
  <2>3. \A i \in 1..n : i \in 1..L /\ i \in 1..m /\ i # m
    BY <1>1, <2>1
  <2>4. m \in 1..m
    OBVIOUS
  <2> HIDE DEF T, m
  <2>5. f[m] = f[n] \o seqs[m] /\ f[n] \in Seq(S) /\ seqs[m] \in Seq(S)
    BY <1>1, <1>2, <2>1
  <2>6. \A l : HasLang(seqs[m], l) => l = k[m]
    BY <1>1, <2>1 DEF HasLang, ToSet
  <2>7. ASSUME NEW l, HasLang(f[n], l), HasLang(seqs[m], l) PROVE FALSE
    <3>1. PICK i \in 1..n : k[i] = l
      BY <2>2, <2>7
    <3>2. k[i] = k[m]
      BY <2>6, <2>7, <3>1
    <3> QED
      BY <1>1, <2>1, <2>3, <3>2
  <2>8. Apart(seqs[m])
    BY <1>1, <2>1
  <2>9. Apart(f[m]) /\ \A l : HasLang(f[m], l) <=> HasLang(f[n], l) \/ HasLang(seqs[m], l)
    BY <2>2, <2>5, <2>7, <2>8, ConcatLangs
  <2>10. Fine(m)
    BY <2>2, <2>3, <2>4, <2>6, <2>9
  <2> QED
    BY <2>10 DEF m
<1> HIDE DEF T
<1>5. L \in T
  BY <1>1, <1>3, <1>4, Induction
<1> QED
  BY <1>1, <1>2, <1>5 DEF T

\* The statements bring a language of the database closer to what is given, unless
\* it is so already; a translation that is given and of which the database has none
\* in its language is created.  Statements get in each other's way, or fail, only
\* for a language that is given twice.
LEMMA StatementsFacts ==
  ASSUME NEW tt \in Seq(Translation), NEW old \in Seq(TransRow), Apart(old)
  PROVE  LET s == Statements(tt, old)
         IN  /\ s \in Seq(Statement)
             /\ \A i \in DOMAIN s : Toward(tt, s[i])
             /\ \A l : HasTwo(tt, l) => Creates(s, l) /\ (HasLang(old, l) \/ CreatesTwo(s, l))
             /\ \A t \in ToSet(old) : HasLang(s, t.lang) \/ Entry(t) \in ToSet(tt)
             /\ \A t \in ToSet(tt) : HasLang(old, t.lang) \/ HasLang(s, t.lang)
             /\ Apart(tt) => Apart(s)
             /\ Apart(tt) => \A i \in DOMAIN s : s[i].op = "create" <=> ~ HasLang(old, s[i].lang)
<1> DEFINE M == [i \in DOMAIN old |-> MergeOne(tt, old[i])]
           F == FlattenSeq(M)
           r == ToCreate(tt, old)
           C == [i \in DOMAIN r |-> Op("create", r[i])]
           s == Statements(tt, old)
<1>1. s = F \o C
  BY DEF Statements
<1>2. DOMAIN old = 1..Len(old) /\ Len(old) \in Nat /\ \A i \in DOMAIN old : old[i] \in TransRow
  OBVIOUS
<1>3. ASSUME NEW i \in DOMAIN old
      PROVE  /\ M[i] \in Seq(Statement)
             /\ Apart(M[i])
             /\ \A x \in ToSet(M[i]) : x.lang = old[i].lang /\ x.op # "create" /\ Toward(tt, x)
             /\ HasLang(M[i], old[i].lang) \/ Entry(old[i]) \in ToSet(tt)
  BY <1>2, MergeOneFacts
<1>4. M \in Seq(Seq(Statement)) /\ DOMAIN M = DOMAIN old
  BY <1>2, <1>3
<1> HIDE DEF M
<1>5. F \in Seq(Statement) /\ ToSet(F) = UNION {ToSet(M[i]) : i \in DOMAIN M}
  BY <1>4, FlattenFacts
<1>6. Apart(F)
  <2> DEFINE k == [i \in DOMAIN old |-> old[i].lang]
  <2>1. \A i, j \in DOMAIN M : k[i] = k[j] => i = j
    BY <1>4 DEF Apart
  <2>2. \A i \in DOMAIN M : Apart(M[i]) /\ \A x \in ToSet(M[i]) : x.lang = k[i]
    BY <1>3, <1>4
  <2> HIDE DEF k
  <2> QED
    BY <1>4, <2>1, <2>2, FlattenLangs
<1>7. \A x \in ToSet(F) : HasLang(old, x.lang) /\ x.op # "create" /\ Toward(tt, x)
  BY <1>3, <1>4, <1>5 DEF HasLang
<1> HIDE DEF F, r
<1>8. /\ r \in Seq(Translation)
      /\ ToSet(r) \subseteq ToSet(tt)
      /\ \A x \in ToSet(tt) : ~ HasLang(old, x.lang) => x \in ToSet(r)
      /\ \A l : HasTwo(tt, l) => HasLang(r, l) /\ (~ HasLang(old, l) => HasTwo(r, l))
      /\ Apart(tt) => Apart(r) /\ \A l : HasLang(old, l) => ~ HasLang(r, l)
  BY ToCreateFacts DEF r
<1>9. ASSUME NEW i \in DOMAIN r
      PROVE  /\ C[i] \in Statement /\ C[i].op = "create" /\ C[i].lang = r[i].lang
             /\ Toward(tt, C[i])
  <2>1. r[i] \in Translation /\ r[i] \in ToSet(tt)
    <3>1. r[i] \in ToSet(r)
      BY DEF ToSet
    <3>2. r[i] \in Translation
      BY <1>8
    <3> QED
      BY <1>8, <3>1, <3>2
  <2>2. r[i] = Entry(r[i]) /\ r[i].lang \in Langs /\ r[i].name \in Names
    BY <2>1 DEF Translation, Entry
  <2>3. C[i] = [op |-> "create", lang |-> r[i].lang, name |-> r[i].name]
    BY DEF Op
  <2> HIDE DEF C
  <2> QED
    BY <2>1, <2>2, <2>3 DEF Statement, Toward, Entry
<1>10. C \in Seq(Statement) /\ DOMAIN C = DOMAIN r
  BY <1>8, <1>9
<1> HIDE DEF C
<1>11. s \in Seq(Statement) /\ ToSet(s) = ToSet(F) \cup ToSet(C)
  BY <1>1, <1>5, <1>10, ConcatFacts
<1>12. \A l : HasLang(s, l) <=> HasLang(F, l) \/ HasLang(C, l)
  BY <1>1, <1>5, <1>10, ConcatLangs
<1>13. \A l : /\ HasLang(C, l) <=> HasLang(r, l)
              /\ HasLang(F, l) => HasLang(old, l)
  BY <1>7, <1>9, <1>10 DEF HasLang, ToSet
<1> HIDE DEF s
<1>14. ASSUME NEW x \in ToSet(C)
       PROVE  x.op = "create" /\ Toward(tt, x) /\ HasLang(r, x.lang)
  BY <1>9, <1>10, <1>14 DEF ToSet, HasLang
<1>15. \A i \in DOMAIN s : Toward(tt, s[i])
  BY <1>7, <1>11, <1>14 DEF ToSet
<1>16. \A i \in DOMAIN r : Len(F) + i \in DOMAIN s /\ s[Len(F) + i] = C[i]
  BY <1>1, <1>5, <1>10
<1>17. ASSUME NEW l, HasTwo(tt, l)
       PROVE  Creates(s, l) /\ (HasLang(old, l) \/ CreatesTwo(s, l))
  <2>1. Creates(s, l)
    <3>1. PICK i \in DOMAIN r : r[i].lang = l
      BY <1>8, <1>17 DEF HasLang
    <3> QED
      BY <1>9, <1>16, <3>1 DEF Creates
  <2>2. ASSUME ~ HasLang(old, l) PROVE CreatesTwo(s, l)
    <3>1. PICK i, k \in DOMAIN r : i # k /\ r[i].lang = l /\ r[k].lang = l
      BY <1>8, <1>17, <2>2 DEF HasTwo
    <3>2. Len(F) + i # Len(F) + k
      BY <1>5, <1>8, <3>1
    <3> QED
      BY <1>9, <1>16, <3>1, <3>2 DEF CreatesTwo
  <2> QED
    BY <2>1, <2>2
<1>18. ASSUME NEW t \in ToSet(old) PROVE HasLang(s, t.lang) \/ Entry(t) \in ToSet(tt)
  <2>1. PICK i \in DOMAIN old : t = old[i]
    BY DEF ToSet
  <2>2. CASE HasLang(M[i], t.lang)
    <3>1. PICK j \in DOMAIN M[i] : M[i][j].lang = t.lang
      BY <2>2 DEF HasLang
    <3>2. M[i][j] \in ToSet(M[i])
      BY <3>1 DEF ToSet
    <3>3. M[i][j] \in ToSet(s)
      BY <1>4, <1>5, <1>11, <3>2
    <3> QED
      BY <3>1, <3>3 DEF HasLang, ToSet
  <2> QED
    BY <1>3, <2>1, <2>2
<1>19. ASSUME NEW t \in ToSet(tt) PROVE HasLang(old, t.lang) \/ HasLang(s, t.lang)
  <2>1. t \in ToSet(r) => HasLang(r, t.lang)
    BY DEF HasLang, ToSet
  <2> QED
    BY <1>8, <1>12, <1>13, <2>1
<1>20. ASSUME Apart(tt) PROVE Apart(s)
  <2>1. Apart(C)
    BY <1>8, <1>9, <1>10, <1>20 DEF Apart
  <2>2. \A l : ~ (HasLang(F, l) /\ HasLang(C, l))
    BY <1>8, <1>13, <1>20
  <2> QED
    BY <1>1, <1>5, <1>6, <1>10, <2>1, <2>2, ConcatLangs
<1>21. ASSUME Apart(tt), NEW i \in DOMAIN s
       PROVE  s[i].op = "create" <=> ~ HasLang(old, s[i].lang)
  <2>1. s[i] \in ToSet(F) \/ s[i] \in ToSet(C)
    BY <1>11 DEF ToSet
  <2> QED
    BY <1>7, <1>8, <1>14, <1>21, <2>1
<1> QED
  BY <1>11, <1>15, <1>17, <1>18, <1>19, <1>20, <1>21 DEF s

-----------------------------------------------------------------------------
(* The order of the statements, which is the same for all who import a set. *)

\* Deletes come before creates, by language; creates come last, in the order of the
\* translations given.
InOrder(tt, s) ==
  /\ Apart(s)
  /\ \A i \in DOMAIN s : Toward(tt, s[i])
  /\ \A i, k \in DOMAIN s : i < k =>
       /\ s[i].op = "create" =>
            s[k].op = "create" /\ PosOf(tt, s[i].lang) < PosOf(tt, s[k].lang)
       /\ s[i].op = "delete" /\ s[k].op = "delete" => s[k].lang = "eng"

\* A list with all elements in one language has one at most.
LEMMA OneLang ==
  ASSUME NEW S, NEW s \in Seq(S), NEW l, Apart(s), \A x \in ToSet(s) : x.lang = l
  PROVE  Len(s) \in {0, 1}
<1>1. Len(s) \in Nat /\ DOMAIN s = 1..Len(s)
  OBVIOUS
<1>2. \A i \in DOMAIN s : s[i].lang = l
  BY DEF ToSet
<1>3. ~ (1 \in DOMAIN s /\ 2 \in DOMAIN s)
  <2>1. 1 # 2
    OBVIOUS
  <2> QED
    BY <1>2, <2>1 DEF Apart
<1> QED
  BY <1>1, <1>3

\* A second update or delete is of the second language.
LEMMA MergesInOrder ==
  ASSUME NEW tt \in Seq(Translation), NEW rows \in SUBSET TransRow, Keyed(rows)
  PROVE  LET old == Sorted(rows)
             F == FlattenSeq([i \in DOMAIN old |-> MergeOne(tt, old[i])])
         IN  \A i, k \in DOMAIN F : i < k => F[k].lang = "eng"
<1> DEFINE d == InLang(rows, "deu")
           e == InLang(rows, "eng")
           old == Sorted(rows)
           M == [i \in DOMAIN old |-> MergeOne(tt, old[i])]
           F == FlattenSeq(M)
<1> SUFFICES \A i, k \in DOMAIN F : i < k => F[k].lang = "eng"
  OBVIOUS
<1>1. /\ d \in Seq(TransRow) /\ Len(d) \in {0, 1}
      /\ e \in Seq(TransRow) /\ Len(e) \in {0, 1}
      /\ \A t \in ToSet(e) : t.lang = "eng"
  <2>1. /\ d \in Seq(TransRow) /\ ToSet(d) = {t \in rows : t.lang = "deu"} /\ Apart(d)
        /\ e \in Seq(TransRow) /\ ToSet(e) = {t \in rows : t.lang = "eng"} /\ Apart(e)
    BY InLangFacts
  <2> HIDE DEF d, e
  <2>2. (\A t \in ToSet(d) : t.lang = "deu") /\ (\A t \in ToSet(e) : t.lang = "eng")
    BY <2>1
  <2>3. Len(d) \in {0, 1}
    BY <2>1, <2>2, OneLang
  <2>4. Len(e) \in {0, 1}
    BY <2>1, <2>2, OneLang
  <2> QED
    BY <2>1, <2>2, <2>3, <2>4
<1>2. old = d \o e
  BY DEF Sorted
<1> HIDE DEF d, e, old
<1>3. old \in Seq(TransRow) /\ Len(old) \in {0, 1, 2} /\ DOMAIN old = 1..Len(old)
  BY <1>1, <1>2
<1>4. Len(old) = 2 => old[2].lang = "eng"
  <2> SUFFICES ASSUME Len(old) = 2 PROVE old[2].lang = "eng"
    OBVIOUS
  <2>1. Len(d) = 1 /\ Len(e) = 1
    BY <1>1, <1>2
  <2>2. old[2] = e[1]
    BY <1>1, <1>2, <2>1
  <2>3. e[1] \in ToSet(e)
    BY <1>1, <2>1 DEF ToSet
  <2> QED
    BY <1>1, <2>2, <2>3
<1>5. ASSUME NEW i \in DOMAIN old
      PROVE  /\ M[i] \in Seq(Statement) /\ Len(M[i]) \in {0, 1}
             /\ \A x \in ToSet(M[i]) : x.lang = old[i].lang
  <2>1. old[i] \in TransRow
    BY <1>3
  <2> DEFINE m == MergeOne(tt, old[i])
  <2>2. m \in Seq(Statement) /\ Apart(m) /\ \A x \in ToSet(m) : x.lang = old[i].lang
    BY <2>1, MergeOneFacts
  <2> HIDE DEF m
  <2>3. Len(m) \in {0, 1}
    BY <2>2, OneLang
  <2> QED
    BY <2>2, <2>3 DEF m
<1>6. M \in Seq(Seq(Statement)) /\ Len(M) = Len(old) /\ DOMAIN M = DOMAIN old
  BY <1>3, <1>5
<1> HIDE DEF M
<1>7. PICK f \in [0..Len(M) -> Seq(Statement)] :
        /\ f[0] = << >>
        /\ \A i \in 1..Len(M) : f[i] = f[i - 1] \o M[i]
        /\ F = f[Len(M)]
  BY <1>6, FlattenRounds
<1> HIDE DEF F
<1>8. CASE Len(old) = 0
  <2>1. F = << >>
    BY <1>6, <1>7, <1>8
  <2> QED
    BY <2>1
<1>9. ASSUME Len(old) \in {1, 2} PROVE f[1] = M[1] /\ M[1] \in Seq(Statement) /\ Len(M[1]) \in {0, 1}
  <2>1. 1 \in DOMAIN old /\ 1 \in 1..Len(M) /\ 1 - 1 = 0
    BY <1>3, <1>6, <1>9
  <2>2. f[1] = << >> \o M[1] /\ M[1] \in Seq(Statement) /\ Len(M[1]) \in {0, 1}
    BY <1>5, <1>7, <2>1
  <2> QED
    BY <2>2
<1>10. CASE Len(old) = 1
  <2>1. F \in Seq(Statement) /\ Len(F) \in {0, 1}
    BY <1>6, <1>7, <1>9, <1>10
  <2> QED
    BY <2>1
<1>11. CASE Len(old) = 2
  <2>1. 2 \in DOMAIN old /\ 2 \in 1..Len(M) /\ 2 - 1 = 1
    BY <1>3, <1>6, <1>11
  <2>2. F = M[1] \o M[2] /\ M[2] \in Seq(Statement) /\ Len(M[2]) \in {0, 1}
    BY <1>5, <1>6, <1>7, <1>9, <1>11, <2>1
  <2>3. \A x \in ToSet(M[2]) : x.lang = "eng"
    BY <1>4, <1>5, <1>11, <2>1
  <2> SUFFICES ASSUME NEW i \in DOMAIN F, NEW k \in DOMAIN F, i < k PROVE F[k].lang = "eng"
    OBVIOUS
  <2> DEFINE a == M[1]
             b == M[2]
  <2>4. a \in Seq(Statement) /\ Len(a) \in {0, 1}
    BY <1>9, <1>11
  <2> HIDE DEF a, b
  <2>5. F = a \o b /\ b \in Seq(Statement) /\ Len(b) \in {0, 1}
    BY <2>2 DEF a, b
  <2>6. /\ DOMAIN F = 1..(Len(a) + Len(b))
        /\ \A n \in 1..Len(b) : F[Len(a) + n] = b[n]
    BY <2>4, <2>5
  <2>7. Len(a) = 1 /\ Len(b) = 1 /\ k = 2
    <3>1. PICK x, y : x = Len(a) /\ y = Len(b)
      OBVIOUS
    <3>2. x \in {0, 1} /\ y \in {0, 1} /\ i \in 1..(x + y) /\ k \in 1..(x + y)
      BY <2>4, <2>5, <2>6, <3>1
    <3>3. x = 1 /\ y = 1 /\ k = 2
      BY <3>2
    <3> QED
      BY <3>1, <3>3
  <2>8. F[2] = b[1]
    <3>1. 1 \in 1..Len(b) /\ Len(a) + 1 = 2
      BY <2>7
    <3> QED
      BY <2>6, <3>1
  <2>9. b[1] \in ToSet(b)
    BY <2>5, <2>7 DEF ToSet
  <2> QED
    BY <2>3, <2>7, <2>8, <2>9 DEF b
<1> QED
  BY <1>3, <1>8, <1>10, <1>11

\* Two translations are created only if none is removed from the list before, so
\* that remove has not changed its order.
LEMMA CreatesInOrder ==
  ASSUME NEW tt \in Seq(Translation), Apart(tt), NEW old \in Seq(TransRow), Apart(old)
  PROVE  LET r == ToCreate(tt, old)
         IN  \A i, k \in DOMAIN r : i < k => PosOf(tt, r[i].lang) < PosOf(tt, r[k].lang)
<1> DEFINE r == ToCreate(tt, old)
<1>1. /\ r \in Seq(Translation) /\ Apart(r)
      /\ \A l : HasLang(old, l) => ~ HasLang(r, l)
      /\ Len(old) = 0 => r = tt
  BY ToCreateFacts
<1> HIDE DEF r
<1> SUFFICES ASSUME NEW i \in DOMAIN r, NEW k \in DOMAIN r, i < k
             PROVE  PosOf(tt, r[i].lang) < PosOf(tt, r[k].lang)
  BY DEF r
<1>2. r[i].lang # r[k].lang /\ r[i].lang \in Langs /\ r[k].lang \in Langs
  <2>1. i # k /\ r[i] \in Translation /\ r[k] \in Translation
    BY <1>1
  <2> QED
    BY <1>1, <2>1 DEF Apart, Translation
<1>3. \A l \in Langs : HasLang(r, l)
  BY <1>2 DEF Langs, HasLang
<1>4. Len(old) = 0
  <2>1. ASSUME NEW j \in DOMAIN old PROVE FALSE
    <3>1. old[j].lang \in Langs
      <4>1. old[j] \in TransRow
        OBVIOUS
      <4> QED
        BY <4>1 DEF TransRow
    <3>2. HasLang(old, old[j].lang)
      BY DEF HasLang
    <3> QED
      BY <1>1, <1>3, <3>1, <3>2
  <2>2. Len(old) \in Nat /\ DOMAIN old = 1..Len(old)
    OBVIOUS
  <2>3. ~ (1 \in DOMAIN old)
    BY <2>1
  <2> QED
    BY <2>2, <2>3
<1>5. ASSUME NEW j \in DOMAIN tt PROVE PosOf(tt, tt[j].lang) = j
  <2>1. HasLang(tt, tt[j].lang)
    BY DEF HasLang
  <2>2. /\ PosOf(tt, tt[j].lang) \in DOMAIN tt
        /\ tt[PosOf(tt, tt[j].lang)].lang = tt[j].lang
    <3>1. PosOf(tt, tt[j].lang) \in 1..Len(tt)
      BY <2>1, PosOfFacts
    <3> QED
      BY <2>1, <3>1, PosOfFacts
  <2> QED
    BY <2>2 DEF Apart
<1> QED
  BY <1>1, <1>4, <1>5

\* The statements of a merge are in order, and expect what is there.
LEMMA StatementsInOrder ==
  ASSUME NEW tt \in Seq(Translation), Apart(tt), NEW rows \in SUBSET TransRow, Keyed(rows)
  PROVE  LET s == Statements(tt, Sorted(rows))
         IN  /\ s \in Seq(Statement)
             /\ InOrder(tt, s)
             /\ \A i \in DOMAIN s : s[i].op = "create" <=> ~ \E t \in rows : t.lang = s[i].lang
<1> DEFINE old == Sorted(rows)
           M == [i \in DOMAIN old |-> MergeOne(tt, old[i])]
           F == FlattenSeq(M)
           r == ToCreate(tt, old)
           C == [i \in DOMAIN r |-> Op("create", r[i])]
           s == Statements(tt, old)
<1>1. old \in Seq(TransRow) /\ ToSet(old) = rows /\ Apart(old)
  BY SortedFacts
<1>2. \A i, k \in DOMAIN F : i < k => F[k].lang = "eng"
  BY MergesInOrder
<1> HIDE DEF old
<1>3. /\ s \in Seq(Statement) /\ Apart(s)
      /\ \A i \in DOMAIN s : Toward(tt, s[i])
      /\ \A i \in DOMAIN s : s[i].op = "create" <=> ~ HasLang(old, s[i].lang)
  BY <1>1, StatementsFacts
<1>4. s = F \o C
  BY DEF Statements
<1>5. F \in Seq(Statement) /\ \A i \in DOMAIN F : F[i].op # "create"
  <2>1. \A i \in DOMAIN old : old[i] \in TransRow
    BY <1>1
  <2>2. \A i \in DOMAIN old : M[i] \in Seq(Statement) /\ \A x \in ToSet(M[i]) : x.op # "create"
    BY <2>1, MergeOneFacts
  <2>3. M \in Seq(Seq(Statement)) /\ DOMAIN M = DOMAIN old
    <3>1. DOMAIN M = DOMAIN old
      OBVIOUS
    <3>2. DOMAIN old = 1..Len(old) /\ Len(old) \in Nat
      BY <1>1
    <3>3. \A i \in DOMAIN old : M[i] \in Seq(Statement)
      BY <2>2
    <3>4. M = [i \in DOMAIN old |-> M[i]]
      OBVIOUS
    <3> HIDE DEF M
    <3> QED
      BY <3>1, <3>2, <3>3, <3>4
  <2> HIDE DEF M
  <2>4. F \in Seq(Statement) /\ ToSet(F) = UNION {ToSet(M[i]) : i \in DOMAIN M}
    BY <2>3, FlattenFacts
  <2> HIDE DEF F
  <2>5. \A x \in ToSet(F) : x.op # "create"
    BY <2>2, <2>3, <2>4
  <2>6. \A i \in DOMAIN F : F[i] \in ToSet(F)
    BY DEF ToSet
  <2> QED
    BY <2>4, <2>5, <2>6
<1> HIDE DEF F, s
<1>6. /\ r \in Seq(Translation)
      /\ \A i, k \in DOMAIN r : i < k => PosOf(tt, r[i].lang) < PosOf(tt, r[k].lang)
  BY <1>1, ToCreateFacts, CreatesInOrder
<1> HIDE DEF r
<1>7. /\ DOMAIN C = DOMAIN r
      /\ \A i \in DOMAIN C : C[i].op = "create" /\ C[i].lang = r[i].lang
  BY DEF Op
<1>8. DOMAIN r = 1..Len(r) /\ Len(r) \in Nat /\ DOMAIN F = 1..Len(F) /\ Len(F) \in Nat
  BY <1>5, <1>6
<1>9. C \in Seq(Statement) /\ Len(C) = Len(r)
  <2>1. ASSUME NEW i \in DOMAIN r PROVE r[i].lang \in Langs /\ r[i].name \in Names
    <3>1. r[i] \in Translation
      BY <1>6
    <3> QED
      BY <3>1 DEF Translation
  <2>2. \A i \in DOMAIN r : C[i] \in Statement
    BY <2>1 DEF Op, Statement
  <2> QED
    BY <1>8, <2>2
<1> HIDE DEF C
<1>10. /\ DOMAIN s = 1..(Len(F) + Len(C))
       /\ \A i \in DOMAIN F : s[i] = F[i]
       /\ \A i \in DOMAIN s : i \in DOMAIN F \/ (i - Len(F) \in DOMAIN C /\ s[i] = C[i - Len(F)])
  <2>1. F \in Seq(Statement) /\ C \in Seq(Statement)
    BY <1>5, <1>9
  <2>2. DOMAIN s = 1..(Len(F) + Len(C)) /\ DOMAIN C = 1..Len(C)
    BY <1>4, <2>1
  <2>3. \A i \in 1..(Len(F) + Len(C)) :
          s[i] = IF i <= Len(F) THEN F[i] ELSE C[i - Len(F)]
    BY <1>4, <2>1
  <2>4. /\ \A i \in 1..Len(F) : i \in 1..(Len(F) + Len(C)) /\ i <= Len(F)
        /\ \A i \in 1..(Len(F) + Len(C)) :
             i \in 1..Len(F) \/ (~ (i <= Len(F)) /\ i - Len(F) \in 1..Len(C))
    BY <1>8, <1>9
  <2> QED
    BY <1>8, <2>2, <2>3, <2>4
<1>11. ASSUME NEW i \in DOMAIN s, NEW k \in DOMAIN s, i < k
       PROVE  /\ s[i].op = "create" =>
                   s[k].op = "create" /\ PosOf(tt, s[i].lang) < PosOf(tt, s[k].lang)
              /\ s[i].op = "delete" /\ s[k].op = "delete" => s[k].lang = "eng"
  <2>1. CASE i \in DOMAIN F /\ k \in DOMAIN F
    BY <1>2, <1>5, <1>10, <1>11, <2>1
  <2>2. CASE i \in DOMAIN F /\ k \notin DOMAIN F
    <3>1. s[i].op # "create" /\ s[k].op = "create"
      BY <1>5, <1>7, <1>10, <2>2
    <3> QED
      BY <3>1
  <2>3. CASE i \notin DOMAIN F
    <3>1. k \notin DOMAIN F
      BY <1>8, <1>10, <1>11, <2>3
    <3> DEFINE a == i - Len(F)
               b == k - Len(F)
    <3>2. a \in DOMAIN C /\ b \in DOMAIN C /\ a < b /\ s[i] = C[a] /\ s[k] = C[b]
      BY <1>8, <1>10, <1>11, <2>3, <3>1
    <3> HIDE DEF a, b
    <3>3. /\ C[a].op = "create" /\ C[a].lang = r[a].lang
          /\ C[b].op = "create" /\ C[b].lang = r[b].lang
          /\ a \in DOMAIN r /\ b \in DOMAIN r
      BY <1>7, <3>2
    <3>4. PosOf(tt, r[a].lang) < PosOf(tt, r[b].lang)
      BY <1>6, <3>2, <3>3
    <3> QED
      BY <3>2, <3>3, <3>4
  <2> QED
    BY <2>1, <2>2, <2>3
<1>12. InOrder(tt, s)
  BY <1>3, <1>11 DEF InOrder
<1>13. \A l : HasLang(old, l) <=> \E t \in rows : t.lang = l
  BY <1>1 DEF HasLang, ToSet
<1> QED
  BY <1>3, <1>12, <1>13 DEF s, old

\* Only a language that is not given is deleted.
LEMMA TowardLang ==
  ASSUME NEW tt \in Seq(Translation), NEW x \in Statement, Toward(tt, x)
  PROVE  x.op = "delete" <=> ~ HasLang(tt, x.lang)
<1> SUFFICES ASSUME x.op # "delete" PROVE HasLang(tt, x.lang)
  BY DEF Toward
<1>1. PICK n \in DOMAIN tt : tt[n] = [lang |-> x.lang, name |-> x.name]
  BY DEF Toward, ToSet
<1>2. tt[n].lang = x.lang
  BY <1>1
<1> QED
  BY <1>2 DEF HasLang

\* Two lists have no two languages in different orders, unless the first of them is
\* an update.
LEMMA CommonOrder ==
  ASSUME NEW tt \in Seq(Translation), NEW s, NEW u, InOrder(tt, s), InOrder(tt, u),
         s \in Seq(Statement), u \in Seq(Statement),
         NEW i \in DOMAIN s, NEW k \in DOMAIN s, i < k, s[i].op # "update",
         NEW j \in DOMAIN u, NEW m \in DOMAIN u, j < m, u[j].op # "update",
         s[i].lang = u[m].lang, s[k].lang = u[j].lang
  PROVE  FALSE
<1>1. ASSUME NEW x \in Statement, Toward(tt, x)
      PROVE  /\ x.op \in {"create", "update", "delete"}
             /\ x.op = "delete" <=> ~ HasLang(tt, x.lang)
             /\ HasLang(tt, x.lang) => PosOf(tt, x.lang) \in Nat
  <2>1. x.op = "delete" <=> ~ HasLang(tt, x.lang)
    BY <1>1, TowardLang
  <2>2. HasLang(tt, x.lang) => PosOf(tt, x.lang) \in 1..Len(tt)
    BY PosOfFacts
  <2> QED
    BY <2>1, <2>2 DEF Statement
<1>2. /\ s[i] \in Statement /\ s[k] \in Statement /\ u[j] \in Statement /\ u[m] \in Statement
      /\ Toward(tt, s[i]) /\ Toward(tt, s[k]) /\ Toward(tt, u[j]) /\ Toward(tt, u[m])
  BY DEF InOrder
<1>3. i # k
  <2>1. i \in Int /\ k \in Int
    OBVIOUS
  <2> QED
    BY <2>1
<1> DEFINE P(x) == PosOf(tt, x.lang)
<1>4. /\ s[i].op = "create" => s[k].op = "create" /\ P(s[i]) < P(s[k])
      /\ s[i].op = "delete" /\ s[k].op = "delete" => s[k].lang = "eng"
      /\ u[j].op = "create" => u[m].op = "create" /\ P(u[j]) < P(u[m])
      /\ u[j].op = "delete" /\ u[m].op = "delete" => u[m].lang = "eng"
  BY DEF InOrder
<1>5. /\ s[i].op = "delete" <=> u[m].op = "delete"
      /\ s[k].op = "delete" <=> u[j].op = "delete"
  BY <1>1, <1>2
<1>6. CASE s[i].op = "create"
  <2>1. s[k].op = "create" /\ u[j].op = "create"
    BY <1>1, <1>2, <1>4, <1>5, <1>6
  <2>2. P(s[i]) < P(s[k]) /\ P(s[k]) < P(s[i])
    BY <1>4, <1>6, <2>1
  <2>3. P(s[i]) \in Nat /\ P(s[k]) \in Nat
    BY <1>1, <1>2, <1>6, <2>1
  <2> HIDE DEF P
  <2> QED
    BY <2>2, <2>3
<1>7. CASE s[i].op = "delete"
  <2>1. u[m].op = "delete" /\ u[j].op = "delete" /\ s[k].op = "delete"
    BY <1>1, <1>2, <1>4, <1>5, <1>7
  <2>2. s[k].lang = "eng" /\ s[i].lang = "eng"
    BY <1>4, <1>7, <2>1
  <2> QED
    BY <1>3, <2>2 DEF InOrder, Apart
<1> QED
  BY <1>1, <1>2, <1>6, <1>7

-----------------------------------------------------------------------------
(* Types and the constraints of the tables. *)

PlanOK == plan \in [Importers -> Seq(SetType)]

\* The block of a set is there when its row is written, and only a block is looked for.
BlocksInHand ==
  \A p \in Active :
    /\ pc[p] \in {"findBlock", "createBlock"} => Set(p).block # NoBlock
    /\ pc[p] \in {"findSet", "createSet", "updateSet"} =>
         Set(p).block \in blockRows \cup {NoBlock}

\* A row that was found or created stays, and an update is not of a new one.
RowInHand ==
  \A p \in Active :
    /\ pc[p] \in {"updateSet", "translations", "merge", "done"} => setRow[Set(p).code] # NoRow
    /\ pc[p] = "updateSet" => ~ isNew[p]

TypeInv == PlanOK /\ TypeOK /\ BlocksInHand /\ RowInHand

Labels == {"start", "findBlock", "createBlock", "findSet", "createSet",
           "updateSet", "translations", "merge", "done", "refused", "stopped"}

\* The tables with their constraints.
SetsOK == setRow \in [Codes -> SetRow \cup {NoRow}]
BlocksOK ==
  /\ blockRows \in SUBSET Blocks
  /\ \A c \in Codes : setRow[c] # NoRow => setRow[c].block \in blockRows \cup {NoBlock}
TranslationsOK ==
  /\ transRow \in SUBSET TransRow
  /\ \A t \in transRow : setRow[t.code] # NoRow
  /\ \A t, u \in transRow : t.code = u.code /\ t.lang = u.lang => t = u

\* The constraints of a store, table by table.
LEMMA Tables ==
  IsStore([sets |-> setRow, blocks |-> blockRows, translations |-> transRow])
    <=> SetsOK /\ BlocksOK /\ TranslationsOK
BY DEF IsStore, SetsOK, BlocksOK, TranslationsOK, TransRow

\* What a set that is imported is made of.
LEMMA Fields ==
  ASSUME NEW set \in SetType
  PROVE  /\ set.code \in Codes /\ set.block \in Blocks \cup {NoBlock}
         /\ set.translations \in Seq(Translation)
         /\ RowOf(set) \in SetRow
         /\ RowOf(set).attrs = set.attrs /\ RowOf(set).block = set.block
         /\ RowOf(set) # NoRow
<1>1. /\ set.code \in Codes /\ set.block \in Blocks \cup {NoBlock} /\ set.attrs \in Attrs
      /\ set.translations \in Seq(Translation)
  BY DEF SetType, Translation
<1>2. RowOf(set) \in SetRow
  BY <1>1 DEF RowOf, SetRow
<1>3. NoRow \notin SetRow
  BY SetImportAssumption
<1> QED
  BY <1>1, <1>2, <1>3 DEF RowOf

\* Who has not stopped is in a call and has its set in hand.
LEMMA SetInHand ==
  ASSUME PlanOK, TypeOK, NEW p \in Importers, pc[p] # "stopped"
  PROVE  p \in Active /\ call[p] \in DOMAIN plan[p] /\ Set(p) \in SetType
<1>1. p \in Active /\ call[p] \in DOMAIN plan[p]
  BY DEF TypeOK, At
<1>2. plan[p] \in Seq(SetType)
  BY DEF PlanOK
<1> QED
  BY <1>1, <1>2 DEF Set

\* The types hold in the database that is found.
LEMMA TypeInit ==
  ASSUME Init
  PROVE  TypeInv
<1>1. PICK s \in Setups :
        /\ plan = s.plan
        /\ blockRows = s.store.blocks
        /\ setRow = s.store.sets
        /\ transRow = s.store.translations
  BY DEF Init
<1>2. s.plan \in [Importers -> Seq(SetType)] /\ IsStore(s.store)
  BY SetImportAssumption
<1>3. IsStore([sets |-> setRow, blocks |-> blockRows, translations |-> transRow])
  BY <1>1, <1>2 DEF IsStore
<1>4. PlanOK
  BY <1>1, <1>2 DEF PlanOK
<1>5. \A p \in Importers : pc[p] = IF p \in Active THEN "start" ELSE "stopped"
  BY DEF Init
<1>6. \A p \in Active : call[p] \in DOMAIN plan[p]
  <2> SUFFICES ASSUME NEW p \in Active PROVE 1 \in DOMAIN plan[p]
    BY DEF Init, Active
  <2>1. plan[p] \in Seq(SetType) /\ plan[p] # << >>
    BY <1>4 DEF PlanOK, Active
  <2> QED
    BY <2>1
<1>7. TypeOK
  <2>1. todo \in [Importers -> Seq(Statement)]
    BY DEF Init
  <2> QED
    BY <1>3, <1>5, <1>6, <2>1 DEF TypeOK, Init, At
<1>8. BlocksInHand /\ RowInHand
  BY <1>5 DEF BlocksInHand, RowInHand, Active
<1> QED
  BY <1>4, <1>7, <1>8 DEF TypeInv

\* What a process must leave behind when it goes to its next statement.
LEMMA Goes ==
  ASSUME TypeInv, NEW p \in Active, NEW l \in Labels, Goto(p, l),
         UNCHANGED <<plan, call>>,
         isNew' \in [Importers -> BOOLEAN], \A q \in Importers \ {p} : isNew'[q] = isNew[q],
         todo' \in [Importers -> Seq(Statement)],
         SetsOK', BlocksOK', TranslationsOK',
         blockRows \subseteq blockRows',
         \A c \in Codes : setRow[c] # NoRow => setRow'[c] # NoRow,
         l \in {"findBlock", "createBlock"} => Set(p).block # NoBlock,
         l \in {"findSet", "createSet", "updateSet"} => Set(p).block \in blockRows' \cup {NoBlock},
         l \in {"updateSet", "translations", "merge", "done"} => setRow'[Set(p).code] # NoRow,
         l = "updateSet" => ~ isNew'[p]
  PROVE  TypeInv'
<1>1. PlanOK /\ TypeOK /\ BlocksInHand /\ RowInHand
  BY DEF TypeInv
<1>2. p \in Importers /\ Active' = Active /\ \A q \in Importers : Set(q)' = Set(q)
  BY DEF Active, Set
<1>3. pc \in [Importers -> Labels]
  BY <1>1 DEF TypeOK, Labels
<1>4. pc' \in [Importers -> Labels] /\ pc'[p] = l /\ \A q \in Importers \ {p} : pc'[q] = pc[q]
  BY <1>2, <1>3 DEF Goto
<1>5. PlanOK'
  BY <1>1 DEF PlanOK
<1>6. TypeOK'
  <2>1. (IsStore([sets |-> setRow, blocks |-> blockRows, translations |-> transRow]))'
    BY Tables, PTL
  <2>2. /\ call' \in [Importers -> Nat]
        /\ \A q \in Active' : call'[q] \in DOMAIN plan'[q]
    BY <1>1, <1>2 DEF TypeOK
  <2>3. \A q \in Importers \ Active' : pc'[q] = "stopped"
    BY <1>1, <1>2, <1>4 DEF TypeOK, At
  <2> QED
    BY <1>4, <2>1, <2>2, <2>3 DEF TypeOK, At, Labels
<1>7. BlocksInHand'
  <2> SUFFICES ASSUME NEW q \in Active
               PROVE  /\ pc'[q] \in {"findBlock", "createBlock"} => Set(q).block # NoBlock
                      /\ pc'[q] \in {"findSet", "createSet", "updateSet"} =>
                           Set(q).block \in blockRows' \cup {NoBlock}
    BY <1>2 DEF BlocksInHand, Active
  <2> QED
    BY <1>1, <1>4 DEF BlocksInHand, Active
<1>8. RowInHand'
  <2> SUFFICES ASSUME NEW q \in Active
               PROVE  /\ pc'[q] \in {"updateSet", "translations", "merge", "done"} =>
                           setRow'[Set(q).code] # NoRow
                      /\ pc'[q] = "updateSet" => ~ isNew'[q]
    BY <1>2 DEF RowInHand, Active
  <2>1. CASE q = p
    BY <1>4, <2>1
  <2>2. CASE q # p
    <3>1. q \in Importers /\ pc'[q] = pc[q] /\ isNew'[q] = isNew[q]
      BY <1>4, <2>2 DEF Active
    <3>2. pc[q] # "stopped" => Set(q).code \in Codes
      BY <1>1, <3>1, SetInHand, Fields
    <3> QED
      BY <1>1, <3>1, <3>2 DEF RowInHand
  <2> QED
    BY <2>1, <2>2
<1> QED
  BY <1>5, <1>6, <1>7, <1>8 DEF TypeInv

\* A step of an import that leaves the tables alone.
LEMMA GoesWithoutWriting ==
  ASSUME TypeInv, NEW p \in Active, NEW l \in Labels, Goto(p, l),
         UNCHANGED <<plan, call, database>>,
         isNew' \in [Importers -> BOOLEAN], \A q \in Importers \ {p} : isNew'[q] = isNew[q],
         todo' \in [Importers -> Seq(Statement)],
         l \in {"findBlock", "createBlock"} => Set(p).block # NoBlock,
         l \in {"findSet", "createSet", "updateSet"} => Set(p).block \in blockRows \cup {NoBlock},
         l \in {"updateSet", "translations", "merge", "done"} => setRow[Set(p).code] # NoRow,
         l = "updateSet" => ~ isNew'[p]
  PROVE  TypeInv'
<1>1. SetsOK /\ BlocksOK /\ TranslationsOK
  BY Tables DEF TypeInv, TypeOK
<1>2. SetsOK' /\ BlocksOK' /\ TranslationsOK'
  BY <1>1 DEF SetsOK, BlocksOK, TranslationsOK, database
<1>3. setRow' = setRow /\ blockRows' = blockRows
  BY DEF database
<1> QED
  BY <1>2, <1>3, Goes

\* Writing a row that fits.
LEMMA WritesRow ==
  ASSUME SetsOK, BlocksOK, TranslationsOK, NEW set \in SetType,
         set.block \in blockRows \cup {NoBlock},
         setRow' = [setRow EXCEPT ![set.code] = RowOf(set)],
         UNCHANGED <<blockRows, transRow>>
  PROVE  /\ SetsOK' /\ BlocksOK' /\ TranslationsOK'
         /\ setRow'[set.code] = RowOf(set) /\ setRow'[set.code] # NoRow
         /\ \A c \in Codes : setRow[c] # NoRow => setRow'[c] # NoRow
<1>1. set.code \in Codes /\ RowOf(set) \in SetRow /\ RowOf(set).block = set.block /\ RowOf(set) # NoRow
  BY Fields
<1>2. setRow'[set.code] = RowOf(set) /\ \A c \in Codes \ {set.code} : setRow'[c] = setRow[c]
  BY <1>1 DEF SetsOK
<1>3. SetsOK'
  BY <1>1 DEF SetsOK
<1>4. BlocksOK'
  BY <1>1, <1>2 DEF BlocksOK
<1>5. TranslationsOK'
  <2>1. \A t \in transRow : t.code \in Codes
    BY DEF TranslationsOK, TransRow
  <2> QED
    BY <1>1, <1>2, <2>1 DEF TranslationsOK
<1> QED
  BY <1>1, <1>2, <1>3, <1>4, <1>5

\* The rows of a set are all in a language of their own.
LEMMA RowsOfSet ==
  ASSUME TranslationsOK, NEW p
  PROVE  Found(p) \in SUBSET TransRow /\ Keyed(Found(p))
BY DEF TranslationsOK, Found, OfSet, Keyed

\* No statement breaks a type or a constraint.
LEMMA TypeStep ==
  ASSUME TypeInv, [Next]_vars
  PROVE  TypeInv'
<1>1. PlanOK /\ TypeOK /\ BlocksInHand /\ RowInHand
  BY DEF TypeInv
<1>2. SetsOK /\ BlocksOK /\ TranslationsOK
  BY <1>1, Tables DEF TypeOK
<1>3. /\ isNew \in [Importers -> BOOLEAN]
      /\ todo \in [Importers -> Seq(Statement)]
      /\ pc \in [Importers -> Labels]
  BY <1>1 DEF TypeOK, Labels
<1>4. CASE UNCHANGED vars
  <2>1. TypeOK'
    BY <1>1, <1>4 DEF TypeOK, vars, database, IsStore, Active, At
  <2> QED
    BY <1>1, <1>4, <2>1 DEF TypeInv, PlanOK, BlocksInHand, RowInHand, vars, Active, Set
<1>5. ASSUME NEW p \in Importers, Import(p) \/ Stop(p) \/ NextCall(p)
      PROVE  TypeInv'
  <2>1. CASE pc[p] # "stopped" /\ (Import(p) \/ Stop(p))
    <3>1. p \in Active /\ call[p] \in DOMAIN plan[p] /\ Set(p) \in SetType
      BY <1>1, <2>1, SetInHand
    <3>2. /\ Set(p).code \in Codes /\ Set(p).block \in Blocks \cup {NoBlock}
          /\ Set(p).translations \in Seq(Translation)
      BY <3>1, Fields
    <3>3. CASE Start(p)
      <4>1. PICK l \in {"refused", "findSet", "findBlock"} :
              Goto(p, l) /\ (l = "findSet" <=> l # "refused" /\ Set(p).block = NoBlock)
        BY <3>3 DEF Start
      <4> QED
        BY <1>3, <3>1, <3>3, <4>1, GoesWithoutWriting DEF Start, Labels
    <3>4. CASE FindBlockByName(p)
      <4>1. PICK l \in {"createBlock", "findSet"} :
              Goto(p, l) /\ (l = "findSet" => Set(p).block \in blockRows)
        BY <3>4 DEF FindBlockByName
      <4>2. Set(p).block # NoBlock
        BY <1>1, <3>1, <3>4 DEF BlocksInHand, FindBlockByName, At
      <4> QED
        BY <1>3, <3>1, <3>4, <4>1, <4>2, GoesWithoutWriting DEF FindBlockByName, Labels
    <3>5. CASE CreateBlock(p)
      <4>1. CASE Goto(p, "refused") /\ UNCHANGED blockRows
        BY <1>3, <3>1, <3>5, <4>1, GoesWithoutWriting DEF CreateBlock, Labels, database
      <4>2. CASE Goto(p, "findSet") /\ blockRows' = blockRows \cup {Set(p).block}
        <5>1. SetsOK' /\ TranslationsOK'
          BY <1>2, <3>5 DEF CreateBlock, SetsOK, TranslationsOK
        <5>2. Set(p).block # NoBlock
          BY <1>1, <3>1, <3>5 DEF BlocksInHand, CreateBlock, At
        <5>3. BlocksOK'
          BY <1>2, <3>2, <3>5, <4>2, <5>2 DEF CreateBlock, BlocksOK
        <5> QED
          BY <1>3, <3>1, <3>5, <4>2, <5>1, <5>3, Goes DEF CreateBlock, Labels
      <4> QED
        BY <3>5, <4>1, <4>2 DEF CreateBlock
    <3>6. CASE FindCardSetByCode(p)
      <4> DEFINE row == setRow[Set(p).code]
      <4>1. PICK l \in {"createSet", "updateSet", "translations"} :
              /\ Goto(p, l)
              /\ l \in {"updateSet", "translations"} => row # NoRow
        BY <3>6 DEF FindCardSetByCode
      <4>2. /\ isNew' \in [Importers -> BOOLEAN]
            /\ \A q \in Importers \ {p} : isNew'[q] = isNew[q]
            /\ isNew'[p] = (row = NoRow)
        BY <1>3, <3>6 DEF FindCardSetByCode
      <4>3. Set(p).block \in blockRows \cup {NoBlock}
        BY <1>1, <3>1, <3>6 DEF BlocksInHand, FindCardSetByCode, At
      <4> QED
        BY <1>3, <3>1, <3>6, <4>1, <4>2, <4>3, GoesWithoutWriting DEF FindCardSetByCode, Labels
    <3>7. ASSUME pc[p] \in {"createSet", "updateSet"},
                 setRow' = [setRow EXCEPT ![Set(p).code] = RowOf(Set(p))],
                 Goto(p, "translations"),
                 UNCHANGED <<plan, call, isNew, todo, blockRows, transRow>>
          PROVE  TypeInv'
      <4>1. Set(p).block \in blockRows \cup {NoBlock}
        BY <1>1, <3>1, <3>7 DEF BlocksInHand
      <4>2. /\ SetsOK' /\ BlocksOK' /\ TranslationsOK'
            /\ setRow'[Set(p).code] # NoRow
            /\ \A c \in Codes : setRow[c] # NoRow => setRow'[c] # NoRow
        BY <1>2, <3>1, <3>7, <4>1, WritesRow
      <4> QED
        BY <1>3, <3>1, <3>7, <4>2, Goes DEF Labels
    <3>8. CASE CreateCardSet(p) \/ UpdateCardSet(p)
      <4>1. CASE Goto(p, "refused") /\ UNCHANGED setRow
        BY <1>3, <3>1, <3>8, <4>1, GoesWithoutWriting DEF CreateCardSet, UpdateCardSet, Labels, database
      <4> QED
        BY <3>7, <3>8, <4>1 DEF CreateCardSet, UpdateCardSet, At
    <3>9. CASE FindTranslations(p)
      <4>1. /\ Sorted(Found(p)) \in Seq(TransRow)
            /\ Apart(Sorted(Found(p)))
        BY <1>2, RowsOfSet, SortedFacts
      <4>2. Statements(Set(p).translations, Sorted(Found(p))) \in Seq(Statement)
        BY <3>2, <4>1, StatementsFacts
      <4>3. todo' \in [Importers -> Seq(Statement)]
        BY <1>3, <3>9, <4>2 DEF FindTranslations
      <4>4. setRow[Set(p).code] # NoRow
        BY <1>1, <3>1, <3>9 DEF RowInHand, FindTranslations, At
      <4> QED
        BY <1>3, <3>1, <3>9, <4>3, <4>4, GoesWithoutWriting DEF FindTranslations, Labels
    <3>10. CASE MergeTranslation(p)
      <4> DEFINE s == Head(todo[p])
      <4>1. CASE Goto(p, "refused") /\ UNCHANGED <<transRow, todo>>
        BY <1>3, <3>1, <3>10, <4>1, GoesWithoutWriting DEF MergeTranslation, Labels, database
      <4>2. CASE /\ (s.op = "create") = (Affected(p, s) = {})
                 /\ transRow' = After(p, s)
                 /\ todo' = [todo EXCEPT ![p] = Tail(@)]
                 /\ UNCHANGED pc
        <5>1. s \in Statement /\ Tail(todo[p]) \in Seq(Statement)
          BY <1>3, <3>10 DEF MergeTranslation
        <5>2. todo' \in [Importers -> Seq(Statement)]
          BY <1>3, <4>2, <5>1
        <5>3. pc[p] = "merge" /\ UNCHANGED <<plan, call, isNew, blockRows, setRow>>
          BY <3>10 DEF MergeTranslation, At
        <5>4. setRow[Set(p).code] # NoRow
          BY <1>1, <3>1, <5>3 DEF RowInHand
        <5>5. SetsOK' /\ BlocksOK'
          BY <1>2, <5>3 DEF SetsOK, BlocksOK
        <5>6. TranslationsOK'
          <6>1. s.lang \in Langs /\ s.name \in Names
            BY <5>1 DEF Statement
          <6> HIDE DEF s
          <6>2. ASSUME NEW t \in transRow'
                PROVE  \/ /\ t \in transRow
                          /\ ~ (t.code = Set(p).code /\ t.lang = s.lang)
                       \/ t = [code |-> Set(p).code, lang |-> s.lang, name |-> s.name]
            BY <4>2 DEF After, Affected, OfSet
          <6>3. transRow' \subseteq TransRow
            BY <1>2, <3>2, <6>1, <6>2 DEF TranslationsOK, TransRow
          <6>4. \A t \in transRow' : setRow'[t.code] # NoRow
            BY <1>2, <5>3, <5>4, <6>2 DEF TranslationsOK
          <6>5. \A t, u \in transRow' : t.code = u.code /\ t.lang = u.lang => t = u
            BY <1>2, <6>2 DEF TranslationsOK
          <6> QED
            BY <6>3, <6>4, <6>5 DEF TranslationsOK
        <5>7. Goto(p, "merge")
          BY <1>3, <4>2, <5>3 DEF Goto
        <5> QED
          BY <1>3, <3>1, <5>2, <5>3, <5>4, <5>5, <5>6, <5>7, Goes DEF Labels
      <4> QED
        BY <3>10, <4>1, <4>2 DEF MergeTranslation
    <3>11. CASE Finish(p)
      <4>1. setRow[Set(p).code] # NoRow
        BY <1>1, <3>1, <3>11 DEF RowInHand, Finish, At
      <4> QED
        BY <1>3, <3>1, <3>11, <4>1, GoesWithoutWriting DEF Finish, Labels
    <3>12. CASE Stop(p)
      BY <1>3, <3>1, <3>12, GoesWithoutWriting DEF Stop, Labels
    <3> QED
      BY <2>1, <3>3, <3>4, <3>5, <3>6, <3>8, <3>9, <3>10, <3>11, <3>12 DEF Import
  <2>2. Import(p) \/ Stop(p) => pc[p] # "stopped"
    BY DEF Import, Start, FindBlockByName, CreateBlock, FindCardSetByCode, CreateCardSet,
           UpdateCardSet, FindTranslations, MergeTranslation, Finish, Stop, At, Over
  <2>3. CASE NextCall(p)
    <3>1. p \in Active /\ call[p] \in Nat /\ call[p] + 1 \in DOMAIN plan[p]
      <4>1. plan[p] \in Seq(SetType) /\ call[p] \in Nat /\ call[p] < Len(plan[p])
        BY <1>1, <2>3 DEF PlanOK, TypeOK, NextCall
      <4> QED
        BY <4>1 DEF Active
    <3>2. Active' = Active /\ plan' = plan
      BY <2>3 DEF NextCall, Active
    <3>3. pc' = [pc EXCEPT ![p] = "start"] /\ call' = [call EXCEPT ![p] = @ + 1]
      BY <2>3 DEF NextCall, Goto
    <3>4. \A q \in Importers \ {p} : Set(q)' = Set(q)
      BY <1>1, <3>2, <3>3 DEF TypeOK, Set
    <3>5. TypeOK'
      <4>1. IsStore([sets |-> setRow, blocks |-> blockRows, translations |-> transRow])'
        BY <1>1, <2>3 DEF TypeOK, NextCall, database
      <4>2. isNew' \in [Importers -> BOOLEAN] /\ todo' \in [Importers -> Seq(Statement)]
        BY <1>3, <2>3 DEF NextCall
      <4>3. call' \in [Importers -> Nat] /\ \A q \in Active' : call'[q] \in DOMAIN plan'[q]
        BY <1>1, <3>1, <3>2, <3>3 DEF TypeOK, Active
      <4>4. pc' \in [Importers -> Labels] /\ \A q \in Importers \ Active' : pc'[q] = "stopped"
        BY <1>1, <1>3, <3>1, <3>2, <3>3 DEF TypeOK, At, Labels
      <4> QED
        BY <4>1, <4>2, <4>3, <4>4 DEF TypeOK, At, Labels
    <3>6. BlocksInHand' /\ RowInHand'
      <4>1. /\ pc'[p] = "start"
            /\ \A q \in Importers \ {p} : pc'[q] = pc[q] /\ isNew'[q] = isNew[q]
        BY <1>3, <2>3, <3>3 DEF NextCall
      <4>2. setRow' = setRow /\ blockRows' = blockRows
        BY <2>3 DEF NextCall, database
      <4>3. \A q \in Active : q \in Importers
        BY DEF Active
      <4> QED
        BY <1>1, <3>2, <3>4, <4>1, <4>2, <4>3 DEF BlocksInHand, RowInHand
    <3> QED
      BY <1>1, <3>2, <3>5, <3>6 DEF TypeInv, PlanOK
  <2> QED
    BY <1>5, <2>1, <2>2, <2>3
<1> QED
  BY <1>4, <1>5 DEF Next, Ended

-----------------------------------------------------------------------------
(* What is in the database comes closer to the set that is imported. *)

RowIn(code, l) == \E t \in transRow : t.code = code /\ t.lang = l

\* The translations of a set in a language are in the database as it was given.
Settled(set, l) ==
  \A n \in Names :
    [code |-> set.code, lang |-> l, name |-> n] \in transRow
      <=> [lang |-> l, name |-> n] \in ToSet(set.translations)

\* What is not as it was given is still to be done; a language that is given twice
\* has a row to be created that is there before, so that no such import ends well.
Pending(set, s, l) ==
  IF HasTwo(set.translations, l)
  THEN Creates(s, l) /\ (RowIn(set.code, l) \/ CreatesTwo(s, l))
  ELSE Settled(set, l) \/ HasLang(s, l)

RowMatches(set) ==
  /\ setRow[set.code] # NoRow
  /\ setRow[set.code].attrs = set.attrs
  /\ set.block # NoBlock => setRow[set.code].block = set.block

\* The rows that are there when a new set is said to have none are of languages
\* that another process with the same set has created.
Nears(p) ==
  /\ pc[p] \in {"translations", "merge", "done"} => RowMatches(Set(p))
  /\ pc[p] = "translations" /\ isNew[p] =>
       \A t \in OfSet(Set(p).code) : HasLang(Set(p).translations, t.lang)
  /\ pc[p] = "merge" =>
       /\ \A i \in DOMAIN todo[p] : Toward(Set(p).translations, todo[p][i])
       /\ \A l \in Langs : Pending(Set(p), todo[p], l)
  /\ pc[p] = "done" => \A l \in Langs : Settled(Set(p), l)

AllNear == NoConflict => \A p \in Active : Nears(p)

\* The rows of a set after a statement on its translations.
Written(set, s) ==
  (transRow \ {t \in transRow : t.code = set.code /\ t.lang = s.lang})
    \cup IF s.op = "delete" THEN {}
         ELSE {[code |-> set.code, lang |-> s.lang, name |-> s.name]}

\* A statement that leads closer settles its language, unless that is given twice,
\* and disturbs no other.
LEMMA StatementSettles ==
  ASSUME TranslationsOK, NEW set \in SetType, NEW s \in Statement,
         Toward(set.translations, s), transRow' = Written(set, s)
  PROVE  /\ \A l : l # s.lang => /\ Settled(set, l)' <=> Settled(set, l)
                                 /\ RowIn(set.code, l)' <=> RowIn(set.code, l)
         /\ Settled(set, s.lang) => Settled(set, s.lang)'
         /\ ~ HasTwo(set.translations, s.lang) => Settled(set, s.lang)'
         /\ HasLang(set.translations, s.lang) => RowIn(set.code, s.lang)'
         /\ \A t \in transRow' : t \in transRow \/ HasLang(set.translations, t.lang)
<1> DEFINE tt == set.translations
           x == [code |-> set.code, lang |-> s.lang, name |-> s.name]
<1>1. s.lang \in Langs /\ s.name \in Names /\ s.op \in {"create", "update", "delete"}
  BY DEF Statement
<1>2. tt \in Seq(Translation)
  BY Fields
<1>3. \A t : t \in transRow' <=> \/ t \in transRow /\ ~ (t.code = set.code /\ t.lang = s.lang)
                                 \/ s.op # "delete" /\ t = x
  BY DEF Written
<1>4. x.code = set.code /\ x.lang = s.lang
  OBVIOUS
<1>5. HasLang(tt, s.lang) => s.op # "delete"
  BY DEF Toward
<1>6. s.op # "delete" => [lang |-> s.lang, name |-> s.name] \in ToSet(tt)
  BY DEF Toward
<1>7. \A u \in ToSet(tt) : HasLang(tt, u.lang)
  BY DEF HasLang, ToSet
<1> HIDE DEF tt
<1>8. ASSUME NEW l, l # s.lang
      PROVE  /\ Settled(set, l)' <=> Settled(set, l)
             /\ RowIn(set.code, l)' <=> RowIn(set.code, l)
  <2>1. \A n : [code |-> set.code, lang |-> l, name |-> n] \in transRow'
                 <=> [code |-> set.code, lang |-> l, name |-> n] \in transRow
    BY <1>3, <1>8
  <2>2. RowIn(set.code, l)' <=> RowIn(set.code, l)
    <3>1. \A t : t.lang = l => (t \in transRow' <=> t \in transRow)
      BY <1>3, <1>4, <1>8
    <3> QED
      BY <3>1 DEF RowIn
  <2> QED
    BY <2>1, <2>2 DEF Settled
<1>9. ASSUME NEW n \in Names
      PROVE  [code |-> set.code, lang |-> s.lang, name |-> n] \in transRow'
               <=> s.op # "delete" /\ n = s.name
  BY <1>3
<1>10. ASSUME ~ HasTwo(tt, s.lang), NEW n \in Names
       PROVE  [lang |-> s.lang, name |-> n] \in ToSet(tt) <=> s.op # "delete" /\ n = s.name
  <2>1. ASSUME s.op = "delete" PROVE [lang |-> s.lang, name |-> n] \notin ToSet(tt)
    BY <1>5, <1>7, <2>1
  <2>2. ASSUME s.op # "delete", [lang |-> s.lang, name |-> n] \in ToSet(tt) PROVE n = s.name
    <3>1. PICK i \in DOMAIN tt : tt[i] = [lang |-> s.lang, name |-> n]
      BY <2>2 DEF ToSet
    <3>2. PICK k \in DOMAIN tt : tt[k] = [lang |-> s.lang, name |-> s.name]
      BY <1>6, <2>2 DEF ToSet
    <3>3. i = k
      BY <1>10, <3>1, <3>2 DEF HasTwo
    <3> QED
      BY <3>1, <3>2, <3>3
  <2> QED
    BY <1>6, <2>1, <2>2
<1>11. ~ HasTwo(tt, s.lang) => Settled(set, s.lang)'
  BY <1>9, <1>10 DEF Settled, tt
<1>12. ASSUME Settled(set, s.lang) PROVE Settled(set, s.lang)'
  <2> SUFFICES ASSUME NEW n \in Names
               PROVE  [lang |-> s.lang, name |-> n] \in ToSet(tt) <=> s.op # "delete" /\ n = s.name
    BY <1>9 DEF Settled, tt
  <2>1. \A k \in Names : [code |-> set.code, lang |-> s.lang, name |-> k] \in transRow
                           <=> [lang |-> s.lang, name |-> k] \in ToSet(tt)
    BY <1>12 DEF Settled, tt
  <2>2. \A k, m : /\ [code |-> set.code, lang |-> s.lang, name |-> k] \in transRow
                  /\ [code |-> set.code, lang |-> s.lang, name |-> m] \in transRow
                  => k = m
    BY DEF TranslationsOK
  <2>3. CASE s.op = "delete"
    BY <1>5, <1>7, <2>3
  <2>4. CASE s.op # "delete"
    BY <1>1, <1>6, <2>1, <2>2, <2>4
  <2> QED
    BY <2>3, <2>4
<1>13. HasLang(tt, s.lang) => RowIn(set.code, s.lang)'
  BY <1>3, <1>4, <1>5 DEF RowIn
<1>14. \A t \in transRow' : t \in transRow \/ HasLang(tt, t.lang)
  BY <1>3, <1>4, <1>6, <1>7
<1> QED
  BY <1>8, <1>11, <1>12, <1>13, <1>14 DEF tt

\* A statement on the translations of one set leaves those of another alone.
LEMMA OtherSets ==
  ASSUME NEW set, NEW other, other.code # set.code, NEW s, transRow' = Written(set, s)
  PROVE  /\ \A l : /\ Settled(other, l)' <=> Settled(other, l)
                   /\ RowIn(other.code, l)' <=> RowIn(other.code, l)
         /\ OfSet(other.code)' = OfSet(other.code)
<1> DEFINE x == [code |-> set.code, lang |-> s.lang, name |-> s.name]
<1>1. \A t : t.code = other.code => (t \in transRow' <=> t \in transRow)
  <2>1. x.code = set.code
    OBVIOUS
  <2>2. \A t : t \in transRow' <=> \/ t \in transRow /\ ~ (t.code = set.code /\ t.lang = s.lang)
                                   \/ s.op # "delete" /\ t = x
    BY DEF Written
  <2> QED
    BY <2>1, <2>2
<1>2. \A l, n : [code |-> other.code, lang |-> l, name |-> n] \in transRow'
                  <=> [code |-> other.code, lang |-> l, name |-> n] \in transRow
  BY <1>1
<1> QED
  BY <1>1, <1>2 DEF Settled, RowIn, OfSet

\* A statement and those behind it.
LEMMA TailFacts ==
  ASSUME NEW s \in Seq(Statement), s # << >>
  PROVE  LET t == Tail(s)
         IN  /\ t \in Seq(Statement) /\ Head(s) \in Statement
             /\ \A i \in DOMAIN t : i + 1 \in DOMAIN s /\ t[i] = s[i + 1]
             /\ \A i \in DOMAIN s : i # 1 => i - 1 \in DOMAIN t /\ t[i - 1] = s[i]
             /\ 1 \in DOMAIN s /\ s[1] = Head(s)
             /\ \A l : HasLang(s, l) => HasLang(t, l) \/ Head(s).lang = l
             /\ \A l : Creates(s, l) => Creates(t, l) \/ (Head(s).op = "create" /\ Head(s).lang = l)
             /\ \A l : CreatesTwo(s, l) => Creates(t, l)
             /\ \A l : CreatesTwo(s, l) =>
                         CreatesTwo(t, l) \/ (Head(s).op = "create" /\ Head(s).lang = l)
<1> DEFINE t == Tail(s)
           h == Head(s)
<1>1. /\ t \in Seq(Statement) /\ h \in Statement
      /\ \A i \in DOMAIN t : i + 1 \in DOMAIN s /\ t[i] = s[i + 1]
      /\ \A i \in DOMAIN s : i # 1 => i - 1 \in DOMAIN t /\ t[i - 1] = s[i]
      /\ 1 \in DOMAIN s /\ s[1] = h
      /\ \A i \in DOMAIN s : i \in Int
  OBVIOUS
<1> HIDE DEF t, h
<1>2. \A l : HasLang(s, l) => HasLang(t, l) \/ h.lang = l
  BY <1>1 DEF HasLang
<1>3. \A l : Creates(s, l) => Creates(t, l) \/ (h.op = "create" /\ h.lang = l)
  BY <1>1 DEF Creates
<1>4. ASSUME NEW l, CreatesTwo(s, l)
      PROVE  Creates(t, l) /\ (CreatesTwo(t, l) \/ (h.op = "create" /\ h.lang = l))
  <2>1. PICK i, k \in DOMAIN s : /\ i # k /\ s[i].op = "create" /\ s[i].lang = l
                                 /\ s[k].op = "create" /\ s[k].lang = l
    BY <1>4 DEF CreatesTwo
  <2>2. Creates(t, l)
    <3>1. PICK j \in {i, k} : j # 1
      BY <2>1
    <3> QED
      BY <1>1, <2>1, <3>1 DEF Creates
  <2>3. CASE i = 1 \/ k = 1
    BY <1>1, <2>1, <2>2, <2>3
  <2>4. CASE i # 1 /\ k # 1
    <3>1. /\ i - 1 \in DOMAIN t /\ t[i - 1] = s[i]
          /\ k - 1 \in DOMAIN t /\ t[k - 1] = s[k]
      BY <1>1, <2>4
    <3>2. i - 1 # k - 1
      BY <1>1, <2>1
    <3>3. CreatesTwo(t, l)
      BY <2>1, <3>1, <3>2 DEF CreatesTwo
    <3> QED
      BY <2>2, <3>3
  <2> QED
    BY <2>3, <2>4
<1> QED
  BY <1>1, <1>2, <1>3, <1>4 DEF t, h

Step(p) == Import(p) \/ Stop(p) \/ NextCall(p)

\* Only a process with calls takes steps.
LEMMA StepIsOfActive ==
  ASSUME TypeInv, NEW p \in Importers, Step(p)
  PROVE  p \in Active
<1>1. CASE NextCall(p)
  <2>1. call[p] \in Nat /\ call[p] < Len(plan[p])
    BY <1>1 DEF NextCall, TypeInv, TypeOK
  <2>2. Len(<< >>) = 0
    OBVIOUS
  <2>3. plan[p] # << >>
    BY <2>1, <2>2
  <2> QED
    BY <2>3 DEF Active
<1>2. CASE Import(p) \/ Stop(p)
  <2>1. pc[p] # "stopped"
    BY <1>2 DEF Import, Start, FindBlockByName, CreateBlock, FindCardSetByCode, CreateCardSet,
           UpdateCardSet, FindTranslations, MergeTranslation, Finish, Stop, At, Over
  <2> QED
    BY <2>1, SetInHand DEF TypeInv
<1> QED
  BY <1>1, <1>2 DEF Step

\* A process changes nothing of what another one keeps to itself.
LEMMA StepIsLocal ==
  ASSUME TypeInv, NEW p \in Importers, Step(p), NEW q \in Importers \ {p}
  PROVE  /\ pc'[q] = pc[q] /\ isNew'[q] = isNew[q] /\ todo'[q] = todo[q]
         /\ Set(q)' = Set(q)
<1>1. /\ DOMAIN pc = Importers /\ DOMAIN isNew = Importers /\ DOMAIN todo = Importers
      /\ DOMAIN call = Importers
  BY DEF TypeInv, TypeOK
<1>2. CASE Start(p) \/ FindBlockByName(p) \/ CreateBlock(p)
  BY <1>1, <1>2 DEF Start, FindBlockByName, CreateBlock, Goto, Set
<1>3. CASE FindCardSetByCode(p) \/ CreateCardSet(p) \/ UpdateCardSet(p)
  <2>1. /\ \E l : pc' = [pc EXCEPT ![p] = l]
        /\ plan' = plan /\ call' = call /\ todo' = todo
        /\ isNew' = isNew \/ \E b : isNew' = [isNew EXCEPT ![p] = b]
    BY <1>3 DEF FindCardSetByCode, CreateCardSet, UpdateCardSet, Goto
  <2> QED
    BY <1>1, <2>1 DEF Set
<1>4. CASE FindTranslations(p) \/ MergeTranslation(p) \/ Finish(p)
  <2>1. /\ pc' = pc \/ \E l : pc' = [pc EXCEPT ![p] = l]
        /\ plan' = plan /\ call' = call /\ isNew' = isNew
        /\ todo' = todo \/ \E l : todo' = [todo EXCEPT ![p] = l]
    BY <1>4, Zenon DEF FindTranslations, MergeTranslation, Finish, Goto
  <2> QED
    BY <1>1, <2>1 DEF Set
<1>5. CASE Stop(p) \/ NextCall(p)
  BY <1>1, <1>5 DEF Stop, NextCall, Goto, Set
<1> QED
  BY <1>2, <1>3, <1>4, <1>5 DEF Step, Import

\* Two processes that work on the same code work on the same set.
LEMMA SameSet ==
  ASSUME TypeInv, NoConflict, NEW p \in Importers, NEW q \in Importers,
         pc[p] # "stopped", pc[q] # "stopped", p # q, Set(p).code = Set(q).code
  PROVE  Set(p) = Set(q)
<1>1. /\ p \in Active /\ call[p] \in DOMAIN plan[p]
      /\ q \in Active /\ call[q] \in DOMAIN plan[q]
  BY SetInHand DEF TypeInv
<1> QED
  BY <1>1 DEF NoConflict, Set

\* A process is as near as it was when no translation changes and its row matches.
LEMMA NearsStays ==
  ASSUME NEW q, pc'[q] = pc[q], isNew'[q] = isNew[q], todo'[q] = todo[q], Set(q)' = Set(q),
         transRow' = transRow,
         pc[q] # "stopped" /\ RowMatches(Set(q)) => RowMatches(Set(q))',
         Nears(q)
  PROVE  Nears(q)'
<1>1. \A l : /\ Settled(Set(q), l)' <=> Settled(Set(q), l)
             /\ \A s : (Pending(Set(q), s, l))' <=> Pending(Set(q), s, l)
  BY DEF Settled, Pending, RowIn
<1>2. OfSet(Set(q).code)' = OfSet(Set(q).code)
  BY DEF OfSet
<1> QED
  BY <1>1, <1>2 DEF Nears

\* The calls of the processes never change.
LEMMA PlanStays ==
  ASSUME NEW p \in Importers, Step(p)
  PROVE  plan' = plan
BY DEF Step, Import, Start, FindBlockByName, CreateBlock, FindCardSetByCode, CreateCardSet,
       UpdateCardSet, FindTranslations, MergeTranslation, Finish, Stop, NextCall

\* A statement of one process leaves no more to be done for another one with the
\* same set, and less for the process itself.
LEMMA StatementIsProgress ==
  ASSUME TranslationsOK, NEW set \in SetType, NEW s \in Statement,
         Toward(set.translations, s), transRow' = Written(set, s), NEW l, NEW x
  PROVE  /\ Pending(set, x, l) => Pending(set, x, l)'
         /\ (/\ Pending(set, x, l) /\ x \in Seq(Statement) /\ x # << >> /\ s = Head(x)
             /\ s.op = "create" => ~ RowIn(set.code, s.lang))
              => Pending(set, Tail(x), l)'
<1> DEFINE tt == set.translations
<1>1. /\ l # s.lang => /\ Settled(set, l)' <=> Settled(set, l)
                       /\ RowIn(set.code, l)' <=> RowIn(set.code, l)
      /\ Settled(set, s.lang) => Settled(set, s.lang)'
      /\ ~ HasTwo(tt, s.lang) => Settled(set, s.lang)'
      /\ HasLang(tt, s.lang) => RowIn(set.code, s.lang)'
  BY StatementSettles
<1>2. Settled(set, l) => Settled(set, l)'
  BY <1>1
<1>3. HasTwo(tt, l) => HasLang(tt, l)
  BY DEF HasTwo, HasLang
<1>4. HasTwo(tt, l) /\ RowIn(set.code, l) => RowIn(set.code, l)'
  BY <1>1, <1>3
<1>5. Pending(set, x, l) => Pending(set, x, l)'
  BY <1>2, <1>4 DEF Pending
<1>6. ASSUME Pending(set, x, l), x \in Seq(Statement), x # << >>, s = Head(x),
             s.op = "create" => ~ RowIn(set.code, s.lang)
      PROVE  Pending(set, Tail(x), l)'
  <2> DEFINE t == Tail(x)
  <2>1. /\ HasLang(x, l) => HasLang(t, l) \/ s.lang = l
        /\ Creates(x, l) => Creates(t, l) \/ (s.op = "create" /\ s.lang = l)
        /\ CreatesTwo(x, l) => Creates(t, l)
        /\ CreatesTwo(x, l) => CreatesTwo(t, l) \/ (s.op = "create" /\ s.lang = l)
    BY <1>6, TailFacts
  <2> HIDE DEF t
  <2>2. CASE HasTwo(tt, l)
    <3>1. Creates(x, l) /\ (RowIn(set.code, l) \/ CreatesTwo(x, l))
      BY <1>6, <2>2 DEF Pending
    <3>2. CASE s.op = "create" /\ s.lang = l
      <4>1. Creates(t, l)
        BY <1>6, <2>1, <3>1, <3>2
      <4>2. RowIn(set.code, l)'
        BY <1>1, <1>3, <2>2, <3>2
      <4> QED
        BY <2>2, <4>1, <4>2 DEF Pending, t
    <3>3. CASE ~ (s.op = "create" /\ s.lang = l)
      <4>1. Creates(t, l) /\ (RowIn(set.code, l)' \/ CreatesTwo(t, l))
        BY <1>4, <2>1, <2>2, <3>1, <3>3
      <4> QED
        BY <2>2, <4>1 DEF Pending, t
    <3> QED
      BY <3>2, <3>3
  <2>3. CASE ~ HasTwo(tt, l)
    <3>1. Settled(set, l)' \/ HasLang(t, l)
      BY <1>1, <1>2, <1>6, <2>1, <2>3 DEF Pending
    <3> QED
      BY <2>3, <3>1 DEF Pending, t
  <2> QED
    BY <2>2, <2>3
<1> QED
  BY <1>5, <1>6

\* A row that a process writes matches the set of whoever imports the same code.
LEMMA RowStaysMatched ==
  ASSUME TypeInv, NoConflict, NEW p \in Importers, NEW q \in Importers, p # q,
         pc[p] # "stopped", pc[q] # "stopped", Set(q)' = Set(q), RowMatches(Set(q)),
         setRow' = [setRow EXCEPT ![Set(p).code] = RowOf(Set(p))]
  PROVE  RowMatches(Set(q))'
<1>1. Set(p) \in SetType /\ Set(q) \in SetType /\ setRow \in [Codes -> SetRow \cup {NoRow}]
  BY SetInHand, Tables DEF TypeInv, TypeOK, SetsOK
<1>2. /\ Set(p).code \in Codes /\ Set(q).code \in Codes
      /\ RowOf(Set(p)).attrs = Set(p).attrs /\ RowOf(Set(p)).block = Set(p).block
      /\ RowOf(Set(p)) # NoRow
  BY <1>1, Fields
<1>3. CASE Set(p).code = Set(q).code
  <2>1. Set(p) = Set(q)
    BY <1>3, SameSet
  <2>2. setRow'[Set(q).code] = RowOf(Set(q))
    BY <1>1, <1>2, <2>1
  <2> QED
    BY <1>2, <2>1, <2>2 DEF RowMatches
<1>4. CASE Set(p).code # Set(q).code
  <2>1. setRow'[Set(q).code] = setRow[Set(q).code]
    BY <1>1, <1>2, <1>4
  <2> QED
    BY <2>1 DEF RowMatches
<1> QED
  BY <1>3, <1>4

\* Another process is as near as before, or nearer.
LEMMA OthersStayNear ==
  ASSUME TypeInv, NoConflict, NEW p \in Importers, NEW q \in Importers, p # q, Step(p),
         Nears(p), Nears(q)
  PROVE  Nears(q)'
<1>1. pc'[q] = pc[q] /\ isNew'[q] = isNew[q] /\ todo'[q] = todo[q] /\ Set(q)' = Set(q)
  BY StepIsLocal
<1>2. CASE pc[q] = "stopped"
  BY <1>1, <1>2 DEF Nears
<1>3. CASE setRow' = setRow /\ transRow' = transRow
  <2>1. RowMatches(Set(q)) => RowMatches(Set(q))'
    BY <1>1, <1>3 DEF RowMatches
  <2> QED
    BY <1>1, <1>3, <2>1, NearsStays
<1>4. CASE pc[q] # "stopped" /\ (CreateCardSet(p) \/ UpdateCardSet(p)) /\ setRow' # setRow
  <2>1. /\ setRow' = [setRow EXCEPT ![Set(p).code] = RowOf(Set(p))]
        /\ transRow' = transRow /\ pc[p] # "stopped"
    BY <1>4 DEF CreateCardSet, UpdateCardSet, At
  <2>2. RowMatches(Set(q)) => RowMatches(Set(q))'
    BY <1>1, <1>4, <2>1, RowStaysMatched
  <2> QED
    BY <1>1, <2>1, <2>2, NearsStays
<1>5. CASE pc[q] # "stopped" /\ MergeTranslation(p) /\ transRow' # transRow
  <2> DEFINE s == Head(todo[p])
  <2>1. /\ todo[p] # << >> /\ transRow' = Written(Set(p), s) /\ setRow' = setRow
        /\ pc[p] = "merge"
    BY <1>5 DEF MergeTranslation, After, Affected, OfSet, Written, At
  <2>2. /\ Set(p) \in SetType /\ Set(q) \in SetType /\ TranslationsOK
        /\ todo[p] \in Seq(Statement)
    BY <1>5, <2>1, SetInHand, Tables DEF TypeInv, TypeOK
  <2>3. s \in Statement /\ Toward(Set(p).translations, s)
    <3>1. s \in Statement /\ 1 \in DOMAIN todo[p] /\ s = todo[p][1]
      BY <2>1, <2>2
    <3> QED
      BY <2>1, <3>1 DEF Nears
  <2>4. RowMatches(Set(q)) => RowMatches(Set(q))'
    BY <1>1, <2>1 DEF RowMatches
  <2> HIDE DEF s
  <2>5. CASE Set(p).code = Set(q).code
    <3>1. PICK set \in SetType : set = Set(p) /\ set = Set(q)
      BY <1>5, <2>1, <2>2, <2>5, SameSet
    <3>2. Toward(set.translations, s) /\ transRow' = Written(set, s)
      BY <2>1, <2>3, <3>1 DEF s
    <3>3. \A l : Settled(set, l) => Settled(set, l)'
      BY <2>2, <2>3, <3>2, StatementSettles
    <3>4. \A l, x : Pending(set, x, l) => Pending(set, x, l)'
      BY <2>2, <2>3, <3>2, StatementIsProgress
    <3>5. \A t \in transRow' : t \in transRow \/ HasLang(set.translations, t.lang)
      BY <2>2, <2>3, <3>2, StatementSettles
    <3> QED
      BY <1>1, <2>4, <3>1, <3>3, <3>4, <3>5 DEF Nears, OfSet
  <2>6. CASE Set(p).code # Set(q).code
    <3>1. PICK set, other : set = Set(p) /\ other = Set(q)
      OBVIOUS
    <3>2. other.code # set.code /\ transRow' = Written(set, s)
      BY <2>1, <2>6, <3>1 DEF s
    <3>3. ASSUME NEW l, NEW x, Pending(other, x, l) PROVE Pending(other, x, l)'
      BY <3>2, <3>3, OtherSets DEF Pending
    <3>4. ASSUME NEW l, Settled(other, l) PROVE Settled(other, l)'
      BY <3>2, <3>4, OtherSets
    <3>5. OfSet(other.code)' = OfSet(other.code)
      BY <3>2, OtherSets
    <3> QED
      BY <1>1, <2>4, <3>1, <3>3, <3>4, <3>5 DEF Nears
  <2> QED
    BY <2>5, <2>6
<1>6. \/ setRow' = setRow /\ transRow' = transRow
      \/ (CreateCardSet(p) \/ UpdateCardSet(p)) /\ setRow' # setRow
      \/ MergeTranslation(p) /\ transRow' # transRow
  BY DEF Step, Import, Start, FindBlockByName, CreateBlock, FindCardSetByCode, CreateCardSet,
         UpdateCardSet, FindTranslations, MergeTranslation, Finish, Stop, NextCall, database
<1> QED
  BY <1>2, <1>3, <1>4, <1>5, <1>6

\* The statements of a merge settle all that the translations found leave open.
LEMMA MergeIsPlanned ==
  ASSUME TypeInv, NEW p \in Active, Nears(p), pc[p] = "translations"
  PROVE  LET s == Statements(Set(p).translations, Sorted(Found(p)))
         IN  /\ \A i \in DOMAIN s : Toward(Set(p).translations, s[i])
             /\ \A l \in Langs : Pending(Set(p), s, l)
<1> DEFINE set == Set(p)
           tt == set.translations
           old == Sorted(Found(p))
           s == Statements(tt, old)
<1>1. set \in SetType /\ tt \in Seq(Translation) /\ TranslationsOK
  <2>1. p \in Importers
    BY DEF Active
  <2>2. set \in SetType /\ TranslationsOK
    BY <2>1, SetInHand, Tables DEF TypeInv, TypeOK
  <2> QED
    BY <2>2, Fields
<1>2. old \in Seq(TransRow) /\ ToSet(old) = Found(p) /\ Apart(old)
  BY <1>1, RowsOfSet, SortedFacts
<1>3. ASSUME isNew[p], NEW t \in OfSet(set.code) PROVE HasLang(tt, t.lang)
  BY <1>3 DEF Nears
<1>4. Found(p) = IF isNew[p] THEN {} ELSE OfSet(set.code)
  BY DEF Found
<1> HIDE DEF old, tt, set
<1>5. /\ \A i \in DOMAIN s : Toward(tt, s[i])
      /\ \A l : HasTwo(tt, l) => Creates(s, l) /\ (HasLang(old, l) \/ CreatesTwo(s, l))
      /\ \A t \in ToSet(old) : HasLang(s, t.lang) \/ Entry(t) \in ToSet(tt)
      /\ \A t \in ToSet(tt) : HasLang(old, t.lang) \/ HasLang(s, t.lang)
  BY <1>1, <1>2, StatementsFacts
<1> HIDE DEF s
<1>6. \A l : HasLang(old, l) <=> \E t \in Found(p) : t.lang = l
  BY <1>2 DEF HasLang, ToSet
<1>7. \A l : HasLang(old, l) => RowIn(set.code, l)
  BY <1>4, <1>6 DEF RowIn, OfSet
<1>8. ASSUME NEW l \in Langs PROVE Pending(set, s, l)
  <2>1. CASE HasTwo(tt, l)
    BY <1>5, <1>7, <2>1 DEF Pending, tt
  <2>2. CASE HasLang(s, l) /\ ~ HasTwo(tt, l)
    BY <2>2 DEF Pending, tt
  <2>3. CASE ~ HasLang(s, l) /\ ~ HasTwo(tt, l)
    <3>1. ASSUME NEW n \in Names,
                 [code |-> set.code, lang |-> l, name |-> n] \in transRow
          PROVE  [lang |-> l, name |-> n] \in ToSet(tt)
      <4> DEFINE t == [code |-> set.code, lang |-> l, name |-> n]
      <4>1. t \in OfSet(set.code) /\ t.lang = l /\ Entry(t) = [lang |-> l, name |-> n]
        BY <3>1 DEF OfSet, Entry
      <4> HIDE DEF t
      <4>2. CASE t \in Found(p)
        BY <1>2, <1>5, <2>3, <4>1, <4>2
      <4>3. CASE isNew[p]
        <5>1. HasLang(tt, l) /\ ~ HasLang(old, l)
          BY <1>3, <1>4, <1>6, <4>1, <4>3
        <5>2. PICK u \in ToSet(tt) : u.lang = l
          BY <5>1 DEF HasLang, ToSet
        <5> QED
          BY <1>5, <2>3, <5>1, <5>2
      <4> QED
        BY <1>4, <4>1, <4>2, <4>3
    <3>2. ASSUME NEW n \in Names, [lang |-> l, name |-> n] \in ToSet(tt)
          PROVE  [code |-> set.code, lang |-> l, name |-> n] \in transRow
      <4>1. HasLang(old, l)
        BY <1>5, <2>3, <3>2
      <4>2. PICK t \in Found(p) : t.lang = l
        BY <1>6, <4>1
      <4>3. t \in transRow /\ t.code = set.code /\ Entry(t) \in ToSet(tt)
        BY <1>2, <1>4, <1>5, <2>3, <4>2 DEF OfSet
      <4>4. t = [code |-> set.code, lang |-> l, name |-> t.name] /\ t.name \in Names
        BY <1>1, <4>2, <4>3 DEF TranslationsOK, TransRow
      <4>5. n = t.name
        <5>1. PICK i \in DOMAIN tt : tt[i] = [lang |-> l, name |-> n]
          BY <3>2 DEF ToSet
        <5>2. PICK k \in DOMAIN tt : tt[k] = [lang |-> l, name |-> t.name]
          BY <4>2, <4>3 DEF ToSet, Entry
        <5>3. i = k
          BY <2>3, <5>1, <5>2 DEF HasTwo
        <5> QED
          BY <5>1, <5>2, <5>3
      <4> QED
        BY <4>3, <4>4, <4>5
    <3> QED
      BY <2>3, <3>1, <3>2 DEF Pending, Settled, tt
  <2> QED
    BY <2>1, <2>2, <2>3
<1> QED
  BY <1>5, <1>8 DEF s, tt, set, old

\* A process itself comes nearer with its steps.
LEMMA OwnStepIsNear ==
  ASSUME TypeInv, NEW p \in Active, Step(p), Nears(p)
  PROVE  Nears(p)'
<1>1. /\ p \in Importers
      /\ isNew \in [Importers -> BOOLEAN]
      /\ todo \in [Importers -> Seq(Statement)]
      /\ pc \in [Importers -> Labels]
      /\ SetsOK /\ BlocksOK /\ TranslationsOK
  BY Tables DEF TypeInv, TypeOK, Labels, Active
<1>2. pc[p] # "stopped" => Set(p) \in SetType /\ Set(p).code \in Codes
  BY <1>1, SetInHand, Fields DEF TypeInv
<1>3. CASE pc'[p] \notin {"translations", "merge", "done"}
  BY <1>3 DEF Nears
<1>4. CASE Start(p) \/ FindBlockByName(p) \/ CreateBlock(p) \/ Stop(p) \/ NextCall(p)
  <2>1. pc'[p] \notin {"translations", "merge", "done"}
    BY <1>1, <1>4 DEF Start, FindBlockByName, CreateBlock, Stop, NextCall, Goto
  <2> QED
    BY <1>3, <2>1
<1>5. CASE FindCardSetByCode(p)
  <2> DEFINE row == setRow[Set(p).code]
  <2>1. CASE Goto(p, "translations") /\ row # NoRow /\ ~ HasChanges(row, Set(p))
    <3>1. pc'[p] = "translations" /\ ~ isNew'[p] /\ Set(p)' = Set(p) /\ setRow' = setRow
      BY <1>1, <1>5, <2>1 DEF FindCardSetByCode, Goto, database, Set
    <3>2. RowMatches(Set(p))'
      BY <2>1, <3>1 DEF RowMatches, HasChanges
    <3> QED
      BY <3>1, <3>2 DEF Nears
  <2>2. CASE Goto(p, "createSet") \/ Goto(p, "updateSet")
    BY <1>1, <1>3, <2>2 DEF Goto
  <2> QED
    BY <1>5, <2>1, <2>2 DEF FindCardSetByCode
<1>6. CASE CreateCardSet(p) \/ UpdateCardSet(p)
  <2>1. CASE Goto(p, "refused")
    BY <1>1, <1>3, <2>1 DEF Goto
  <2>2. CASE /\ setRow' = [setRow EXCEPT ![Set(p).code] = RowOf(Set(p))]
             /\ Goto(p, "translations")
    <3>1. /\ pc'[p] = "translations" /\ isNew' = isNew /\ Set(p)' = Set(p)
          /\ transRow' = transRow /\ pc[p] \in {"createSet", "updateSet"}
      BY <1>1, <1>6, <2>2 DEF CreateCardSet, UpdateCardSet, Goto, Set, At
    <3>2. RowMatches(Set(p))'
      <4>1. Set(p) \in SetType /\ Set(p).code \in Codes
        BY <1>2, <3>1
      <4>2. setRow'[Set(p).code] = RowOf(Set(p))
        BY <1>1, <2>2, <4>1 DEF SetsOK
      <4>3. /\ RowOf(Set(p)).attrs = Set(p).attrs /\ RowOf(Set(p)).block = Set(p).block
            /\ RowOf(Set(p)) # NoRow
        BY <4>1, Fields
      <4> QED
        BY <3>1, <4>2, <4>3 DEF RowMatches
    <3>3. isNew'[p] => OfSet(Set(p).code)' = {}
      <4>1. CASE CreateCardSet(p)
        <5>1. setRow[Set(p).code] = NoRow
          BY <1>1, <2>2, <4>1 DEF CreateCardSet, Goto
        <5> QED
          BY <1>1, <3>1, <5>1 DEF TranslationsOK, OfSet
      <4>2. CASE UpdateCardSet(p)
        BY <3>1, <4>2 DEF TypeInv, RowInHand, UpdateCardSet, At
      <4> QED
        BY <1>6, <4>1, <4>2
    <3> QED
      BY <3>1, <3>2, <3>3 DEF Nears
  <2> QED
    BY <1>6, <2>1, <2>2 DEF CreateCardSet, UpdateCardSet
<1>7. CASE FindTranslations(p)
  <2> DEFINE s == Statements(Set(p).translations, Sorted(Found(p)))
  <2>1. /\ pc[p] = "translations" /\ pc'[p] = "merge" /\ Set(p)' = Set(p)
        /\ setRow' = setRow /\ transRow' = transRow /\ todo'[p] = s
    BY <1>1, <1>7 DEF FindTranslations, Goto, Set, At, database
  <2>2. /\ \A i \in DOMAIN s : Toward(Set(p).translations, s[i])
        /\ \A l \in Langs : Pending(Set(p), s, l)
    BY <2>1, MergeIsPlanned
  <2>3. RowMatches(Set(p))'
    BY <2>1 DEF Nears, RowMatches
  <2> HIDE DEF s
  <2>4. PICK x, set : x = s /\ set = Set(p)
    OBVIOUS
  <2>5. ASSUME NEW l \in Langs PROVE Pending(set, x, l)'
    <3>1. Pending(set, x, l)
      BY <2>2, <2>4
    <3> QED
      BY <2>1, <3>1 DEF Pending, Settled, RowIn
  <2> QED
    BY <2>1, <2>2, <2>3, <2>4, <2>5 DEF Nears
<1>8. CASE MergeTranslation(p)
  <2> DEFINE s == Head(todo[p])
  <2>1. CASE Goto(p, "refused")
    BY <1>1, <1>3, <2>1 DEF Goto
  <2>2. CASE /\ (s.op = "create") = (Affected(p, s) = {})
             /\ transRow' = After(p, s)
             /\ todo' = [todo EXCEPT ![p] = Tail(@)]
             /\ UNCHANGED pc
    <3>1. /\ pc[p] = "merge" /\ pc'[p] = "merge" /\ Set(p)' = Set(p) /\ setRow' = setRow
          /\ todo[p] # << >> /\ todo[p] \in Seq(Statement) /\ todo'[p] = Tail(todo[p])
      BY <1>1, <1>8, <2>2 DEF MergeTranslation, Set, At
    <3>2. PICK set \in SetType : set = Set(p)
      BY <1>2, <3>1
    <3>3. transRow' = Written(set, s)
      BY <2>2, <3>2 DEF After, Affected, OfSet, Written
    <3>4. s.op = "create" => ~ RowIn(set.code, s.lang)
      BY <2>2, <3>2 DEF Affected, OfSet, RowIn
    <3>5. PICK x : x = todo[p]
      OBVIOUS
    <3>6. /\ x \in Seq(Statement) /\ x # << >> /\ s = Head(x) /\ s \in Statement
          /\ Toward(set.translations, s)
          /\ \A i \in DOMAIN Tail(x) : Toward(set.translations, Tail(x)[i])
      <4>1. \A i \in DOMAIN x : Toward(set.translations, x[i])
        BY <3>1, <3>2, <3>5 DEF Nears
      <4> QED
        BY <3>1, <3>5, <4>1, TailFacts
    <3> HIDE DEF s
    <3>7. ASSUME NEW l \in Langs PROVE Pending(set, Tail(x), l)'
      <4>1. Pending(set, x, l)
        BY <3>1, <3>2, <3>5 DEF Nears
      <4> QED
        BY <1>1, <3>3, <3>4, <3>6, <4>1, StatementIsProgress
    <3>8. RowMatches(Set(p))'
      BY <3>1 DEF Nears, RowMatches
    <3> QED
      BY <3>1, <3>2, <3>5, <3>6, <3>7, <3>8 DEF Nears
  <2> QED
    BY <1>8, <2>1, <2>2 DEF MergeTranslation
<1>9. CASE Finish(p)
  <2>1. /\ pc[p] = "merge" /\ pc'[p] = "done" /\ Set(p)' = Set(p)
        /\ setRow' = setRow /\ transRow' = transRow /\ todo[p] = << >>
    BY <1>1, <1>9 DEF Finish, Goto, Set, At, database
  <2>2. RowMatches(Set(p))'
    BY <2>1 DEF Nears, RowMatches
  <2>3. ASSUME NEW l \in Langs PROVE Settled(Set(p), l)'
    <3>1. ~ HasLang(<< >>, l) /\ ~ Creates(<< >>, l)
      BY DEF HasLang, Creates
    <3>2. Pending(Set(p), << >>, l)
      BY <2>1 DEF Nears
    <3>3. Settled(Set(p), l)
      BY <3>1, <3>2 DEF Pending
    <3> QED
      BY <2>1, <3>3 DEF Settled
  <2> QED
    BY <2>1, <2>2, <2>3 DEF Nears
<1> QED
  BY <1>4, <1>5, <1>6, <1>7, <1>8, <1>9 DEF Step, Import

\* At the beginning nobody claims anything of the database.
LEMMA NearInit ==
  ASSUME Init
  PROVE  AllNear
<1>1. \A p \in Active : pc[p] = "start"
  BY DEF Init, Active
<1> QED
  BY <1>1 DEF AllNear, Nears

\* Every step leaves all processes as near to their sets as they were, or nearer.
LEMMA NearStep ==
  ASSUME TypeInv, AllNear, [Next]_vars
  PROVE  AllNear'
<1>1. CASE UNCHANGED vars
  <2>1. NoConflict' = NoConflict /\ Active' = Active
    BY <1>1 DEF vars, NoConflict, Active
  <2>2. ASSUME NEW p \in Active, Nears(p) PROVE Nears(p)'
    <3>1. Set(p)' = Set(p) /\ (RowMatches(Set(p)) => RowMatches(Set(p))')
      BY <1>1 DEF vars, Set, RowMatches
    <3> QED
      BY <1>1, <2>2, <3>1, NearsStays DEF vars
  <2> QED
    BY <2>1, <2>2 DEF AllNear
<1>2. ASSUME NEW p \in Importers, Step(p) PROVE AllNear'
  <2>1. NoConflict' = NoConflict /\ Active' = Active
    BY <1>2, PlanStays DEF NoConflict, Active
  <2> SUFFICES ASSUME NoConflict, NEW q \in Active PROVE Nears(q)'
    BY <2>1 DEF AllNear
  <2>2. q \in Importers /\ \A r \in Active : Nears(r)
    BY DEF AllNear, Active
  <2>3. CASE q = p
    BY <1>2, <2>2, <2>3, OwnStepIsNear
  <2>4. CASE q # p /\ p \in Active
    BY <1>2, <2>2, <2>4, OthersStayNear
  <2>5. p \in Active
    BY <1>2, StepIsOfActive
  <2> QED
    BY <2>3, <2>4, <2>5
<1> QED
  BY <1>1, <1>2 DEF Next, Ended, Step

\* What is settled in every language is there as it was given.
LEMMA NearIsExact ==
  ASSUME TypeInv, AllNear
  PROVE  ImportedIsExact
<1> SUFFICES ASSUME NoConflict, NEW p \in Importers, pc[p] = "done"
             PROVE  Matches(Set(p))
  BY DEF ImportedIsExact, At
<1> DEFINE set == Set(p)
<1>1. p \in Active /\ set \in SetType /\ TranslationsOK
  BY SetInHand, Tables DEF TypeInv, TypeOK
<1>2. RowMatches(set) /\ \A l \in Langs : Settled(set, l)
  BY <1>1 DEF AllNear, Nears
<1>3. set.translations \in Seq(Translation)
  BY <1>1, Fields
<1> HIDE DEF set
<1>4. ASSUME NEW t \in OfSet(set.code)
      PROVE  [lang |-> t.lang, name |-> t.name] \in ToSet(set.translations)
  <2>1. /\ t \in transRow /\ t.lang \in Langs /\ t.name \in Names
        /\ t = [code |-> set.code, lang |-> t.lang, name |-> t.name]
    BY <1>1 DEF TranslationsOK, TransRow, OfSet
  <2> QED
    BY <1>2, <2>1 DEF Settled
<1>5. ASSUME NEW x \in ToSet(set.translations)
      PROVE  \E t \in OfSet(set.code) : x = [lang |-> t.lang, name |-> t.name]
  <2>1. x \in Translation
    BY <1>3 DEF ToSet
  <2>2. x.lang \in Langs /\ x.name \in Names /\ x = [lang |-> x.lang, name |-> x.name]
    BY <2>1 DEF Translation
  <2> DEFINE t == [code |-> set.code, lang |-> x.lang, name |-> x.name]
  <2>3. t \in transRow
    BY <1>2, <2>2 DEF Settled
  <2>4. t \in OfSet(set.code) /\ t.lang = x.lang /\ t.name = x.name
    BY <2>3 DEF OfSet
  <2> QED
    BY <2>2, <2>4
<1> QED
  BY <1>2, <1>4, <1>5 DEF Matches, RowMatches, set

-----------------------------------------------------------------------------
(* What one process finds on its own. *)

\* A statement finds what it expects.
Fits(p, s) == (s.op = "create") = (Affected(p, s) = {})

Careful(p) ==
  /\ pc[p] # "refused"
  /\ pc[p] = "createBlock" => Set(p).block \notin blockRows
  /\ pc[p] = "createSet" => setRow[Set(p).code] = NoRow
  /\ pc[p] = "translations" /\ isNew[p] => OfSet(Set(p).code) = {}
  /\ pc[p] = "merge" => Apart(todo[p]) /\ \A i \in DOMAIN todo[p] : Fits(p, todo[p][i])

AllCareful == \A p \in Importers : Active = {p} /\ Good(Set(p)) => Careful(p)

\* At the beginning nothing is expected.
LEMMA CarefulInit ==
  ASSUME Init
  PROVE  AllCareful
<1>1. \A p \in Active : pc[p] = "start"
  BY DEF Init, Active
<1> QED
  BY <1>1 DEF AllCareful, Careful

\* The statements of a merge find what they expect: those with a row in their
\* language update or delete it, the others create one.
LEMMA MergeFits ==
  ASSUME TypeInv, NEW p \in Active, Good(Set(p)), pc[p] = "translations",
         isNew[p] => OfSet(Set(p).code) = {}
  PROVE  LET s == Statements(Set(p).translations, Sorted(Found(p)))
         IN  Apart(s) /\ \A i \in DOMAIN s : Fits(p, s[i])
<1> DEFINE tt == Set(p).translations
           old == Sorted(Found(p))
           s == Statements(tt, old)
<1>1. tt \in Seq(Translation) /\ TranslationsOK
  <2>1. Set(p) \in SetType /\ TranslationsOK
    BY SetInHand, Tables DEF TypeInv, TypeOK, Active
  <2> QED
    BY <2>1, Fields
<1>2. old \in Seq(TransRow) /\ ToSet(old) = Found(p) /\ Apart(old)
  BY <1>1, RowsOfSet, SortedFacts
<1>3. Found(p) = OfSet(Set(p).code)
  BY DEF Found
<1>4. Apart(tt)
  BY DEF Good, NoRepeatedLang, Apart
<1> HIDE DEF old, tt
<1>5. Apart(s) /\ \A i \in DOMAIN s : s[i].op = "create" <=> ~ HasLang(old, s[i].lang)
  BY <1>1, <1>2, <1>4, StatementsFacts
<1> HIDE DEF s
<1>6. ASSUME NEW i \in DOMAIN s PROVE Fits(p, s[i])
  <2>1. HasLang(old, s[i].lang) <=> \E t \in Found(p) : t.lang = s[i].lang
    BY <1>2 DEF HasLang, ToSet
  <2>2. HasLang(old, s[i].lang) <=> Affected(p, s[i]) # {}
    BY <1>3, <2>1 DEF Affected
  <2>3. (s[i].op = "create") <=> (Affected(p, s[i]) = {})
    BY <1>5, <2>2
  <2> QED
    BY <2>3 DEF Fits
<1> QED
  BY <1>5, <1>6 DEF s, tt, old

\* The first of several statements is of another language than those behind it.
LEMMA ApartTail ==
  ASSUME NEW s \in Seq(Statement), s # << >>, Apart(s)
  PROVE  Apart(Tail(s)) /\ \A i \in DOMAIN Tail(s) : Tail(s)[i].lang # Head(s).lang
<1> DEFINE t == Tail(s)
           h == Head(s)
<1>1. /\ \A i \in DOMAIN t : i + 1 \in DOMAIN s /\ t[i] = s[i + 1]
      /\ 1 \in DOMAIN s /\ s[1] = h
      /\ \A i \in DOMAIN t : i \in Nat \ {0}
  OBVIOUS
<1> HIDE DEF t, h
<1>2. \A i, k \in DOMAIN t : t[i].lang = t[k].lang => i = k
  <2> SUFFICES ASSUME NEW i \in DOMAIN t, NEW k \in DOMAIN t, t[i].lang = t[k].lang
               PROVE  i = k
    OBVIOUS
  <2>1. i + 1 = k + 1
    BY <1>1 DEF Apart
  <2> QED
    BY <1>1, <2>1
<1>3. ASSUME NEW i \in DOMAIN t, t[i].lang = h.lang PROVE FALSE
  <2>1. i + 1 = 1
    BY <1>1, <1>3 DEF Apart
  <2> QED
    BY <1>1, <2>1
<1> QED
  BY <1>2, <1>3 DEF Apart, t, h

\* A process finds what it expects with its own steps: what it has found is still so
\* when a statement relies on it.
LEMMA CarefulStep ==
  ASSUME TypeInv, NEW p \in Active, Step(p), Good(Set(p)) => Careful(p), Good(Set(p))'
  PROVE  Careful(p)'
<1>1. /\ p \in Importers
      /\ isNew \in [Importers -> BOOLEAN]
      /\ todo \in [Importers -> Seq(Statement)]
      /\ pc \in [Importers -> Labels]
      /\ SetsOK /\ BlocksOK /\ TranslationsOK
  BY Tables DEF TypeInv, TypeOK, Labels, Active
<1>2. CASE NextCall(p)
  <2>1. pc'[p] = "start"
    BY <1>1, <1>2 DEF NextCall, Goto
  <2> QED
    BY <2>1 DEF Careful
<1> SUFFICES ASSUME Import(p) \/ Stop(p) PROVE Careful(p)'
  BY <1>2 DEF Step
<1>3. Set(p)' = Set(p)
  BY DEF Import, Start, FindBlockByName, CreateBlock, FindCardSetByCode, CreateCardSet,
         UpdateCardSet, FindTranslations, MergeTranslation, Finish, Stop, Set
<1>4. Good(Set(p)) /\ Careful(p)
  BY <1>3 DEF Good, NoRepeatedLang
<1>5. CASE Start(p) \/ Stop(p) \/ Finish(p)
  <2>1. pc'[p] \in {"findSet", "findBlock", "stopped", "done"}
    BY <1>1, <1>4, <1>5 DEF Start, Stop, Finish, Goto, Good
  <2> QED
    BY <2>1 DEF Careful
<1>6. CASE FindBlockByName(p)
  <2>1. /\ pc'[p] \in {"findSet", "createBlock"}
        /\ pc'[p] = "createBlock" => Set(p).block \notin blockRows
        /\ blockRows' = blockRows
    BY <1>1, <1>6 DEF FindBlockByName, Goto, database
  <2> QED
    BY <1>3, <2>1 DEF Careful
<1>7. CASE CreateBlock(p)
  <2>1. pc'[p] = "findSet"
    BY <1>1, <1>4, <1>7 DEF CreateBlock, Goto, At, Careful
  <2> QED
    BY <2>1 DEF Careful
<1>8. CASE FindCardSetByCode(p)
  <2>1. /\ pc'[p] \in {"createSet", "updateSet", "translations"}
        /\ pc'[p] = "createSet" => setRow[Set(p).code] = NoRow
        /\ pc'[p] = "translations" => ~ isNew'[p]
        /\ setRow' = setRow
    BY <1>1, <1>8 DEF FindCardSetByCode, Goto, database
  <2> QED
    BY <1>3, <2>1 DEF Careful
<1>9. CASE CreateCardSet(p)
  <2>1. setRow[Set(p).code] = NoRow /\ Set(p).storable
    BY <1>4, <1>9 DEF CreateCardSet, Careful, Good, At
  <2>2. pc'[p] = "translations" /\ transRow' = transRow
    BY <1>1, <1>9, <2>1 DEF CreateCardSet, Goto
  <2>3. OfSet(Set(p).code)' = {}
    BY <1>1, <1>3, <2>1, <2>2 DEF OfSet, TranslationsOK
  <2> QED
    BY <2>2, <2>3 DEF Careful
<1>10. CASE UpdateCardSet(p)
  <2>1. pc'[p] = "translations" /\ ~ isNew'[p]
    BY <1>1, <1>4, <1>10 DEF UpdateCardSet, Good, Goto, At, TypeInv, RowInHand
  <2> QED
    BY <2>1 DEF Careful
<1>11. CASE FindTranslations(p)
  <2> DEFINE s == Statements(Set(p).translations, Sorted(Found(p)))
  <2>1. /\ pc[p] = "translations" /\ pc'[p] = "merge"
        /\ transRow' = transRow /\ todo'[p] = s
    BY <1>1, <1>11 DEF FindTranslations, Goto, At, database
  <2>2. Apart(s) /\ \A i \in DOMAIN s : Fits(p, s[i])
    BY <1>4, <2>1, MergeFits DEF Careful
  <2> HIDE DEF s
  <2>3. PICK x : x = s
    OBVIOUS
  <2>4. \A i \in DOMAIN x : Fits(p, x[i])'
    BY <1>3, <2>1, <2>2, <2>3 DEF Fits, Affected, OfSet
  <2> QED
    BY <2>1, <2>2, <2>3, <2>4 DEF Careful
<1>12. CASE MergeTranslation(p)
  <2> DEFINE s == Head(todo[p])
  <2>1. /\ pc[p] = "merge" /\ todo[p] # << >> /\ todo[p] \in Seq(Statement)
        /\ Apart(todo[p]) /\ \A i \in DOMAIN todo[p] : Fits(p, todo[p][i])
    BY <1>1, <1>4, <1>12 DEF MergeTranslation, At, Careful
  <2>2. Fits(p, s)
    <3>1. 1 \in DOMAIN todo[p] /\ s = todo[p][1]
      BY <2>1
    <3> QED
      BY <2>1, <3>1
  <2>3. pc' = pc /\ transRow' = After(p, s) /\ todo'[p] = Tail(todo[p])
    BY <1>1, <1>12, <2>2 DEF MergeTranslation, Fits
  <2>4. PICK x, set, h : x = Tail(todo[p]) /\ set = Set(p) /\ h = s
    OBVIOUS
  <2>5. /\ Apart(x)
        /\ \A i \in DOMAIN x : x[i].lang # h.lang /\ Fits(p, x[i])
    <3>1. \A i \in DOMAIN x : i + 1 \in DOMAIN todo[p] /\ x[i] = todo[p][i + 1]
      BY <2>1, <2>4
    <3> QED
      BY <2>1, <2>4, <3>1, ApartTail
  <2> HIDE DEF s
  <2>6. ASSUME NEW i \in DOMAIN x PROVE Fits(p, x[i])'
    <3>1. \A t : t.lang = x[i].lang => (t \in transRow' <=> t \in transRow)
      BY <2>3, <2>4, <2>5 DEF After, Affected
    <3>2. Affected(p, x[i])' = Affected(p, x[i])
      BY <1>3, <3>1 DEF Affected, OfSet
    <3> QED
      BY <2>5, <3>2 DEF Fits
  <2> QED
    BY <2>1, <2>3, <2>4, <2>5, <2>6 DEF Careful
<1> QED
  BY <1>5, <1>6, <1>7, <1>8, <1>9, <1>10, <1>11, <1>12 DEF Import

\* A process on its own is not disturbed by another one.
LEMMA AllCarefulStep ==
  ASSUME TypeInv, AllCareful, [Next]_vars
  PROVE  AllCareful'
<1>1. CASE UNCHANGED vars
  <2>1. Active' = Active /\ \A p \in Importers : Good(Set(p))' = Good(Set(p))
    BY <1>1 DEF vars, Active, Good, NoRepeatedLang, Set
  <2>2. ASSUME NEW p \in Importers, Careful(p) PROVE Careful(p)'
    BY <1>1, <2>2 DEF vars, Careful, Set, OfSet, Fits, Affected
  <2> QED
    BY <2>1, <2>2 DEF AllCareful
<1>2. ASSUME NEW q \in Importers, Step(q), NEW p \in Importers, Active' = {p}, Good(Set(p))'
      PROVE  Careful(p)'
  <2>1. Active = {p}
    BY <1>2, PlanStays DEF Active
  <2>2. q = p
    BY <1>2, <2>1, StepIsOfActive
  <2>3. Good(Set(p)) => Careful(p)
    BY <2>1 DEF AllCareful
  <2>4. p \in Active /\ Step(p)
    BY <1>2, <2>1, <2>2
  <2> QED
    BY <1>2, <2>3, <2>4, CarefulStep
<1> QED
  BY <1>1, <1>2 DEF Next, Ended, Step, AllCareful

-----------------------------------------------------------------------------
(* Imports that race each other. *)

\* A statement finds what it expects, as Fits has it.
Fit(set, s) == s.op = "create" <=> ~ RowIn(set.code, s.lang)

\* The two ways to say that a statement finds what it expects are the same.
LEMMA FitsRow ==
  ASSUME NEW p, NEW s
  PROVE  Fits(p, s) <=> Fit(Set(p), s)
<1>1. Affected(p, s) = {} <=> ~ RowIn(Set(p).code, s.lang)
  BY DEF Affected, OfSet, RowIn
<1> HIDE DEF Affected
<1> QED
  BY <1>1 DEF Fits, Fit

\* A statement that writes or deletes a row is not done before one ahead of it: if
\* that one still finds what it expects, so do those behind it.
Follows(set, s) ==
  \A i, k \in DOMAIN s :
    i < k /\ s[i].op # "update" /\ Fit(set, s[i]) => Fit(set, s[k])

\* The process does not look for translations of its new set.
Unasked(p) == pc[p] = "translations" /\ isNew[p]

\* The statements to come, also when they are not yet known to be needed.
Ahead(p) == IF Unasked(p) THEN Statements(Set(p).translations, Sorted({})) ELSE todo[p]

Racing(p) ==
  Good(Set(p)) /\ (Unasked(p) \/ pc[p] = "merge") =>
    /\ Ahead(p) \in Seq(Statement)
    /\ InOrder(Set(p).translations, Ahead(p))
    /\ Follows(Set(p), Ahead(p))

AllRacing == NoConflict => \A p \in Active : Racing(p)

\* One process at least finds what it expects.
Lead == NoConflict /\ Active # {} => \E p \in Active : Good(Set(p)) => Careful(p)

\* The languages that have a row after a statement.
LEMMA RowsWritten ==
  ASSUME NEW set, NEW h \in Statement, transRow' = Written(set, h)
  PROVE  /\ RowIn(set.code, h.lang)' <=> h.op # "delete"
         /\ \A l : l # h.lang => (RowIn(set.code, l)' <=> RowIn(set.code, l))
<1> DEFINE x == [code |-> set.code, lang |-> h.lang, name |-> h.name]
<1>1. \A t : t \in transRow' <=> \/ t \in transRow /\ ~ (t.code = set.code /\ t.lang = h.lang)
                                 \/ h.op # "delete" /\ t = x
  BY DEF Written
<1>2. x.code = set.code /\ x.lang = h.lang
  OBVIOUS
<1> HIDE DEF x
<1>3. RowIn(set.code, h.lang)' <=> h.op # "delete"
  BY <1>1, <1>2 DEF RowIn
<1>4. ASSUME NEW l, l # h.lang PROVE RowIn(set.code, l)' <=> RowIn(set.code, l)
  <2>1. \A t : t.lang = l => (t \in transRow' <=> t \in transRow)
    BY <1>1, <1>2, <1>4
  <2> QED
    BY <2>1 DEF RowIn
<1> QED
  BY <1>3, <1>4

\* A settled language has a row if it is given.
LEMMA SettledRow ==
  ASSUME TranslationsOK, NEW set \in SetType, NEW l, Settled(set, l)
  PROVE  RowIn(set.code, l) <=> HasLang(set.translations, l)
<1> DEFINE tt == set.translations
<1>1. tt \in Seq(Translation)
  BY Fields
<1> HIDE DEF tt
<1>2. ASSUME NEW t \in transRow, t.code = set.code, t.lang = l PROVE HasLang(tt, l)
  <2>1. t \in TransRow
    BY DEF TranslationsOK
  <2>2. t = [code |-> set.code, lang |-> l, name |-> t.name] /\ t.name \in Names
    BY <1>2, <2>1 DEF TransRow
  <2>3. [lang |-> l, name |-> t.name] \in ToSet(tt)
    BY <2>2 DEF Settled, tt
  <2>4. PICK i \in DOMAIN tt : tt[i] = [lang |-> l, name |-> t.name]
    BY <2>3 DEF ToSet
  <2>5. tt[i].lang = l
    BY <2>4
  <2> QED
    BY <2>5 DEF HasLang
<1>3. ASSUME NEW i \in DOMAIN tt, tt[i].lang = l PROVE RowIn(set.code, l)
  <2>1. tt[i] \in Translation /\ tt[i] \in ToSet(tt)
    BY <1>1 DEF ToSet
  <2>2. tt[i] = [lang |-> l, name |-> tt[i].name] /\ tt[i].name \in Names
    BY <1>3, <2>1 DEF Translation
  <2> DEFINE t == [code |-> set.code, lang |-> l, name |-> tt[i].name]
  <2>3. t \in transRow /\ t.code = set.code /\ t.lang = l
    BY <2>1, <2>2 DEF Settled, tt
  <2> QED
    BY <2>3 DEF RowIn
<1> QED
  BY <1>2, <1>3 DEF RowIn, HasLang, tt

\* A statement of one process does not upset the list of another one with the same
\* set.  It is done before those behind it, and what comes before it in the common
\* order is settled.
LEMMA FollowsOther ==
  ASSUME TranslationsOK, NEW set \in SetType, Apart(set.translations),
         NEW x \in Seq(Statement), InOrder(set.translations, x), Follows(set, x),
         NEW u \in Seq(Statement), u # << >>, InOrder(set.translations, u),
         \A l \in Langs : Pending(set, u, l),
         Fit(set, Head(u)), transRow' = Written(set, Head(u))
  PROVE  Follows(set, x)'
<1> DEFINE h == Head(u)
           tt == set.translations
<1>1. tt \in Seq(Translation)
  BY Fields
<1>2. h \in Statement /\ 1 \in DOMAIN u /\ u[1] = h /\ \A m \in DOMAIN u : m = 1 \/ 1 < m
  OBVIOUS
<1>3. Toward(tt, h)
  BY <1>2 DEF InOrder
<1>4. /\ RowIn(set.code, h.lang)' <=> h.op # "delete"
      /\ \A l : l # h.lang => (RowIn(set.code, l)' <=> RowIn(set.code, l))
  BY <1>2, RowsWritten
<1>5. Fit(set, h)
  OBVIOUS
<1> HIDE DEF h, tt
<1>6. \A s : s.lang # h.lang => (Fit(set, s)' <=> Fit(set, s))
  BY <1>4 DEF Fit
<1>7. CASE h.op = "update"
  <2>1. \A l : RowIn(set.code, l)' <=> RowIn(set.code, l)
    BY <1>4, <1>5, <1>7 DEF Fit
  <2>2. \A s : Fit(set, s)' <=> Fit(set, s)
    BY <2>1 DEF Fit
  <2> QED
    BY <2>2 DEF Follows
<1>8. CASE h.op # "update"
  <2> SUFFICES ASSUME NEW i \in DOMAIN x, NEW k \in DOMAIN x, i < k, x[i].op # "update",
                      Fit(set, x[i])'
               PROVE  Fit(set, x[k])'
    BY DEF Follows
  <2>1. x[i] \in Statement /\ Toward(tt, x[i])
    BY DEF InOrder, tt
  <2>2. /\ x[i].op = "delete" <=> ~ HasLang(tt, x[i].lang)
        /\ h.op = "delete" <=> ~ HasLang(tt, h.lang)
        /\ x[i].op \in {"create", "delete"} /\ h.op \in {"create", "delete"}
        /\ x[i].lang \in Langs
    <3>1. x[i].op \in {"create", "delete"} /\ h.op \in {"create", "delete"} /\ x[i].lang \in Langs
      BY <1>2, <1>8, <2>1 DEF Statement
    <3> QED
      BY <1>1, <1>2, <1>3, <2>1, <3>1, TowardLang
  <2>3. CASE x[i].lang = h.lang
    BY <1>4, <2>2, <2>3 DEF Fit
  <2>4. CASE x[i].lang # h.lang /\ x[k].lang # h.lang
    BY <1>6, <2>4 DEF Follows
  <2>5. ASSUME x[i].lang # h.lang, x[k].lang = h.lang, NEW m \in DOMAIN u, u[m].lang = x[i].lang
        PROVE  FALSE
    <3>1. m # 1 /\ 1 < m
      BY <1>2, <2>5
    <3> QED
      BY <1>1, <1>2, <1>8, <2>5, <3>1, CommonOrder DEF tt
  <2>6. ASSUME x[i].lang # h.lang, ~ HasLang(u, x[i].lang) PROVE FALSE
    <3>1. ~ HasTwo(tt, x[i].lang)
      BY DEF HasTwo, Apart, tt
    <3>2. Settled(set, x[i].lang)
      BY <2>2, <2>6, <3>1 DEF Pending, tt
    <3>3. RowIn(set.code, x[i].lang) <=> HasLang(tt, x[i].lang)
      BY <3>2, SettledRow DEF tt
    <3>4. Fit(set, x[i])
      BY <1>6, <2>6
    <3> QED
      BY <2>2, <3>3, <3>4 DEF Fit
  <2> QED
    BY <2>3, <2>4, <2>5, <2>6 DEF HasLang
<1> QED
  BY <1>7, <1>8

\* What is behind the first statement is in order.
LEMMA TailInOrder ==
  ASSUME NEW tt, NEW s \in Seq(Statement), s # << >>, InOrder(tt, s)
  PROVE  InOrder(tt, Tail(s))
<1>1. Apart(Tail(s))
  BY ApartTail DEF InOrder
<1>2. /\ \A i \in DOMAIN Tail(s) : i + 1 \in DOMAIN s /\ Tail(s)[i] = s[i + 1]
      /\ \A i \in DOMAIN Tail(s) : i \in Nat
  OBVIOUS
<1>3. PICK t : t = Tail(s)
  OBVIOUS
<1>4. \A i, k \in DOMAIN t : i < k => i + 1 < k + 1
  BY <1>2, <1>3
<1> QED
  BY <1>1, <1>2, <1>3, <1>4 DEF InOrder

\* The statements a process has ahead stay in order with its own steps.
LEMMA OwnRacingStep ==
  ASSUME TypeInv, NEW p \in Active, Step(p), Racing(p)
  PROVE  Racing(p)'
<1>1. /\ p \in Importers
      /\ isNew \in [Importers -> BOOLEAN]
      /\ todo \in [Importers -> Seq(Statement)]
      /\ pc \in [Importers -> Labels]
      /\ SetsOK /\ BlocksOK /\ TranslationsOK
  BY Tables DEF TypeInv, TypeOK, Labels, Active
<1> SUFFICES ASSUME Good(Set(p))', Unasked(p)' \/ pc'[p] = "merge"
             PROVE  /\ Ahead(p)' \in Seq(Statement)
                    /\ InOrder(Set(p).translations, Ahead(p))'
                    /\ Follows(Set(p), Ahead(p))'
  BY DEF Racing
<1>2. CASE Start(p) \/ FindBlockByName(p) \/ CreateBlock(p) \/ Stop(p) \/ NextCall(p) \/ Finish(p)
  <2>1. pc'[p] \notin {"translations", "merge"}
    BY <1>1, <1>2 DEF Start, FindBlockByName, CreateBlock, Stop, NextCall, Finish, Goto
  <2> QED
    BY <2>1 DEF Unasked
<1>3. CASE FindCardSetByCode(p)
  <2>1. /\ pc'[p] \in {"createSet", "updateSet", "translations"}
        /\ pc'[p] = "translations" => ~ isNew'[p]
    BY <1>1, <1>3 DEF FindCardSetByCode, Goto
  <2> QED
    BY <2>1 DEF Unasked
<1>4. CASE UpdateCardSet(p)
  <2>1. pc'[p] \in {"translations", "refused"} /\ isNew' = isNew /\ ~ isNew[p]
    BY <1>1, <1>4 DEF UpdateCardSet, Goto, At, TypeInv, RowInHand
  <2> QED
    BY <2>1 DEF Unasked
<1> SUFFICES ASSUME CreateCardSet(p) \/ FindTranslations(p) \/ MergeTranslation(p)
             PROVE  /\ Ahead(p)' \in Seq(Statement)
                    /\ InOrder(Set(p).translations, Ahead(p))'
                    /\ Follows(Set(p), Ahead(p))'
  BY <1>2, <1>3, <1>4 DEF Step, Import
<1>5. Set(p)' = Set(p) /\ pc[p] # "stopped"
  BY DEF CreateCardSet, FindTranslations, MergeTranslation, Set, At
<1>6. PICK set \in SetType : set = Set(p) /\ set = Set(p)' /\ set.translations \in Seq(Translation)
  BY <1>1, <1>5, SetInHand, Fields DEF TypeInv
<1>7. Good(set) /\ Apart(set.translations)
  <2>1. Good(set)
    BY <1>6 DEF Good, NoRepeatedLang
  <2> QED
    BY <2>1 DEF Good, NoRepeatedLang, Apart
<1> SUFFICES ASSUME NEW y, y = Ahead(p)'
             PROVE  y \in Seq(Statement) /\ InOrder(set.translations, y) /\ Follows(set, y)'
  BY <1>6 DEF InOrder, Follows
<1>8. CASE CreateCardSet(p)
  <2>1. pc'[p] \in {"translations", "refused"} /\ transRow' = transRow
    BY <1>1, <1>8 DEF CreateCardSet, Goto
  <2>2. pc'[p] = "translations" /\ Unasked(p)'
    BY <2>1 DEF Unasked
  <2>3. setRow[Set(p).code] = NoRow
    BY <1>1, <1>8, <2>2 DEF CreateCardSet, Goto
  <2>4. \A l : ~ RowIn(set.code, l)'
    BY <1>1, <1>6, <2>1, <2>3 DEF RowIn, TranslationsOK
  <2>5. y = Statements(set.translations, Sorted({}))
    BY <1>6, <2>2 DEF Ahead
  <2>6. {} \in SUBSET TransRow /\ Keyed({})
    BY DEF Keyed
  <2>7. /\ y \in Seq(Statement) /\ InOrder(set.translations, y)
        /\ \A i \in DOMAIN y : y[i].op = "create"
    BY <1>6, <1>7, <2>5, <2>6, StatementsInOrder
  <2>8. \A i \in DOMAIN y : Fit(set, y[i])'
    BY <2>4, <2>7 DEF Fit
  <2> QED
    BY <2>7, <2>8 DEF Follows
<1>9. CASE FindTranslations(p)
  <2>1. pc[p] = "translations" /\ pc'[p] = "merge" /\ transRow' = transRow
    BY <1>1, <1>9 DEF FindTranslations, Goto, At, database
  <2>2. todo'[p] = Statements(Set(p).translations, Sorted(Found(p)))
    BY <1>1, <1>9 DEF FindTranslations
  <2>3. ~ Unasked(p)'
    BY <2>1 DEF Unasked
  <2>4. y = Statements(set.translations, Sorted(Found(p)))
    BY <1>6, <2>2, <2>3 DEF Ahead
  <2>5. CASE isNew[p]
    <3>1. Unasked(p) /\ Found(p) = {}
      BY <2>1, <2>5 DEF Unasked, Found
    <3>2. y = Ahead(p)
      BY <1>6, <2>4, <3>1 DEF Ahead
    <3>3. y \in Seq(Statement) /\ InOrder(set.translations, y) /\ Follows(set, y)
      BY <1>6, <1>7, <3>1, <3>2 DEF Racing
    <3>4. Follows(set, y)'
      BY <2>1, <3>3 DEF Follows, Fit, RowIn
    <3> QED
      BY <3>3, <3>4
  <2>6. CASE ~ isNew[p]
    <3>1. Found(p) \in SUBSET TransRow /\ Keyed(Found(p))
      BY <1>1, RowsOfSet
    <3>2. /\ y \in Seq(Statement) /\ InOrder(set.translations, y)
          /\ \A i \in DOMAIN y : y[i].op = "create" <=> ~ \E t \in Found(p) : t.lang = y[i].lang
      BY <1>6, <1>7, <2>4, <3>1, StatementsInOrder
    <3>3. \A l : (\E t \in Found(p) : t.lang = l) <=> RowIn(set.code, l)'
      BY <1>6, <2>1, <2>6 DEF Found, OfSet, RowIn
    <3>4. \A i \in DOMAIN y : Fit(set, y[i])'
      BY <3>2, <3>3 DEF Fit
    <3> QED
      BY <3>2, <3>4 DEF Follows
  <2> QED
    BY <2>5, <2>6
<1>10. CASE MergeTranslation(p)
  <2>1. pc[p] = "merge" /\ todo[p] # << >> /\ todo[p] \in Seq(Statement)
    BY <1>1, <1>10 DEF MergeTranslation, At
  <2>2. PICK x \in Seq(Statement) : x = todo[p] /\ x # << >>
    BY <2>1
  <2>3. PICK h \in Statement : h = Head(x)
    BY <2>2
  <2>4. /\ transRow' = Written(set, h) /\ pc' = pc /\ todo'[p] = Tail(x)
    <3>1. ~ Goto(p, "refused")
      <4>1. ASSUME Goto(p, "refused") PROVE FALSE
        <5>1. pc'[p] = "refused"
          BY <1>1, <4>1 DEF Goto
        <5> QED
          BY <5>1 DEF Unasked
      <4> QED
        BY <4>1
    <3> QED
      BY <1>1, <1>6, <1>10, <2>2, <2>3, <3>1 DEF MergeTranslation, After, Affected, OfSet, Written
  <2>5. y = Tail(x)
    BY <2>1, <2>4 DEF Ahead, Unasked
  <2>6. InOrder(set.translations, x) /\ Follows(set, x)
    BY <1>6, <1>7, <2>1, <2>2 DEF Racing, Ahead, Unasked
  <2>7. y \in Seq(Statement) /\ InOrder(set.translations, y)
    BY <2>2, <2>5, <2>6, TailInOrder
  <2>8. \A i \in DOMAIN y : y[i].lang # h.lang /\ i + 1 \in DOMAIN x /\ y[i] = x[i + 1] /\ i \in Nat
    <3>1. \A i \in DOMAIN y : y[i].lang # h.lang
      BY <2>2, <2>3, <2>5, <2>6, ApartTail DEF InOrder
    <3> QED
      BY <2>2, <2>5, <3>1
  <2>9. \A i \in DOMAIN y : Fit(set, y[i])' <=> Fit(set, y[i])
    BY <2>4, <2>8, RowsWritten DEF Fit
  <2>10. \A i, k \in DOMAIN y : i < k => i + 1 < k + 1
    BY <2>8
  <2>11. Follows(set, y)'
    BY <2>6, <2>8, <2>9, <2>10 DEF Follows
  <2> QED
    BY <2>7, <2>11
<1> QED
  BY <1>8, <1>9, <1>10

\* They stay in order when another process takes a step.
LEMMA OtherRacingStep ==
  ASSUME TypeInv, NoConflict, NEW p \in Importers, NEW q \in Importers, p # q, Step(p),
         Nears(p), Racing(p), Racing(q)
  PROVE  Racing(q)'
<1>1. pc'[q] = pc[q] /\ isNew'[q] = isNew[q] /\ todo'[q] = todo[q] /\ Set(q)' = Set(q)
  BY StepIsLocal
<1>2. (Unasked(q)' <=> Unasked(q)) /\ Ahead(q)' = Ahead(q)
  BY <1>1 DEF Unasked, Ahead
<1> SUFFICES ASSUME Good(Set(q)), Unasked(q) \/ pc[q] = "merge"
             PROVE  Follows(Set(q), Ahead(q))'
  BY <1>1, <1>2 DEF Racing, Good, NoRepeatedLang
<1>3. PICK set, x : set = Set(q) /\ set = Set(q)' /\ x = Ahead(q) /\ x = Ahead(q)'
  BY <1>1, <1>2
<1>4. /\ set \in SetType /\ set.translations \in Seq(Translation) /\ pc[q] # "stopped"
      /\ Apart(set.translations)
  <2>1. pc[q] # "stopped"
    BY DEF Unasked
  <2>2. Apart(set.translations)
    BY <1>3 DEF Good, NoRepeatedLang, Apart
  <2> QED
    BY <1>3, <2>1, <2>2, SetInHand, Fields DEF TypeInv
<1>5. x \in Seq(Statement) /\ InOrder(set.translations, x) /\ Follows(set, x)
  BY <1>3 DEF Racing
<1> SUFFICES Follows(set, x)'
  BY <1>3
<1>6. CASE transRow' = transRow
  BY <1>5, <1>6 DEF Follows, Fit, RowIn
<1>7. CASE MergeTranslation(p) /\ transRow' # transRow
  <2>1. /\ pc[p] = "merge" /\ todo[p] # << >> /\ Fits(p, Head(todo[p]))
        /\ transRow' = Written(Set(p), Head(todo[p]))
    BY <1>7 DEF MergeTranslation, After, Affected, OfSet, Written, At, Fits
  <2>2. TranslationsOK /\ todo[p] \in Seq(Statement) /\ p \in Active
    BY <2>1, SetInHand, Tables DEF TypeInv, TypeOK
  <2>3. PICK u \in Seq(Statement) : u = todo[p] /\ u # << >>
    BY <2>1, <2>2
  <2>4. CASE Set(p).code = Set(q).code
    <3>1. set = Set(p)
      BY <1>3, <1>4, <2>1, <2>4, SameSet
    <3>2. Fit(set, Head(u)) /\ transRow' = Written(set, Head(u))
      BY <2>1, <2>3, <3>1, FitsRow
    <3>3. InOrder(set.translations, u)
      BY <1>3, <2>1, <2>3, <3>1 DEF Racing, Ahead, Unasked
    <3>4. \A l \in Langs : Pending(set, u, l)
      BY <2>1, <2>3, <3>1 DEF Nears
    <3> QED
      BY <1>4, <1>5, <2>2, <2>3, <3>2, <3>3, <3>4, FollowsOther
  <2>5. CASE Set(p).code # Set(q).code
    <3>1. PICK other, s : other = Set(p) /\ s = Head(todo[p])
      OBVIOUS
    <3>2. \A l : RowIn(set.code, l)' <=> RowIn(set.code, l)
      BY <1>3, <2>1, <2>5, <3>1, OtherSets
    <3> QED
      BY <1>5, <3>2 DEF Follows, Fit
  <2> QED
    BY <2>4, <2>5
<1>8. transRow' = transRow \/ MergeTranslation(p)
  BY DEF Step, Import, Start, FindBlockByName, CreateBlock, FindCardSetByCode, CreateCardSet,
         UpdateCardSet, FindTranslations, MergeTranslation, Finish, Stop, NextCall, database
<1> QED
  BY <1>6, <1>7, <1>8

\* At the beginning nobody has statements ahead.
LEMMA AllRacingInit ==
  ASSUME Init
  PROVE  AllRacing
<1>1. \A p \in Active : pc[p] = "start"
  BY DEF Init, Active
<1> QED
  BY <1>1 DEF AllRacing, Racing, Unasked

\* Every step leaves the statements of all processes in the common order.
LEMMA AllRacingStep ==
  ASSUME TypeInv, AllNear, AllRacing, [Next]_vars
  PROVE  AllRacing'
<1>1. CASE UNCHANGED vars
  <2>1. NoConflict' = NoConflict /\ Active' = Active
    BY <1>1 DEF vars, NoConflict, Active
  <2>2. ASSUME NEW p \in Active, Racing(p) PROVE Racing(p)'
    <3>1. /\ Set(p)' = Set(p) /\ (Unasked(p)' <=> Unasked(p)) /\ Ahead(p)' = Ahead(p)
          /\ pc' = pc /\ transRow' = transRow
      BY <1>1 DEF vars, Set, Unasked, Ahead
    <3>2. PICK set, x : set = Set(p) /\ set = Set(p)' /\ x = Ahead(p) /\ x = Ahead(p)'
      BY <3>1
    <3>3. Follows(set, x)' <=> Follows(set, x)
      BY <3>1 DEF Follows, Fit, RowIn
    <3> QED
      BY <2>2, <3>1, <3>2, <3>3 DEF Racing
  <2> QED
    BY <2>1, <2>2 DEF AllRacing
<1>2. ASSUME NEW p \in Importers, Step(p) PROVE AllRacing'
  <2>1. NoConflict' = NoConflict /\ Active' = Active /\ p \in Active
    BY <1>2, PlanStays, StepIsOfActive DEF NoConflict, Active
  <2> SUFFICES ASSUME NoConflict, NEW q \in Active PROVE Racing(q)'
    BY <2>1 DEF AllRacing
  <2>2. q \in Importers /\ Racing(p) /\ Racing(q) /\ Nears(p)
    BY <2>1 DEF AllRacing, AllNear, Active
  <2>3. CASE q = p
    BY <1>2, <2>2, <2>3, OwnRacingStep
  <2>4. CASE q # p
    BY <1>2, <2>2, <2>4, OtherRacingStep
  <2> QED
    BY <2>3, <2>4
<1> QED
  BY <1>1, <1>2 DEF Next, Ended, Step

\* Who takes a row away from another process with what it expected goes on with all
\* it expects itself.
LEMMA LeadIsHandedOver ==
  ASSUME TypeInv, NoConflict, NEW p \in Active, NEW q \in Active, p # q, Step(q),
         Careful(p), Racing(q), Good(Set(q))'
  PROVE  Careful(p)' \/ Careful(q)'
<1>1. /\ p \in Importers /\ q \in Importers
      /\ isNew \in [Importers -> BOOLEAN]
      /\ todo \in [Importers -> Seq(Statement)]
      /\ pc \in [Importers -> Labels]
      /\ SetsOK /\ BlocksOK /\ TranslationsOK
  BY Tables DEF TypeInv, TypeOK, Labels, Active
<1>2. pc'[p] = pc[p] /\ isNew'[p] = isNew[p] /\ todo'[p] = todo[p] /\ Set(p)' = Set(p)
  BY <1>1, StepIsLocal
<1>3. PICK set : set = Set(p) /\ set = Set(p)'
  BY <1>2
<1>4. /\ pc[p] # "refused"
      /\ pc[p] = "createBlock" => set.block \notin blockRows
      /\ pc[p] = "createSet" => setRow[set.code] = NoRow
      /\ Unasked(p) => \A l : ~ RowIn(set.code, l)
      /\ pc[p] = "merge" => Apart(todo[p]) /\ \A i \in DOMAIN todo[p] : Fit(set, todo[p][i])
  BY <1>3, FitsRow DEF Careful, Unasked, OfSet, RowIn
\* Nothing of what p expects changes.
<1>5. ASSUME pc[p] = "createBlock" => set.block \notin blockRows',
             pc[p] = "createSet" => setRow'[set.code] = NoRow,
             Unasked(p) => OfSet(set.code)' = OfSet(set.code),
             pc[p] = "merge" => \A l : RowIn(set.code, l)' <=> RowIn(set.code, l)
      PROVE  Careful(p)'
  <2>1. PICK x : x = todo[p] /\ x = todo'[p]
    BY <1>2
  <2>2. pc[p] = "merge" => \A i \in DOMAIN x : Fits(p, x[i])'
    <3> SUFFICES ASSUME pc[p] = "merge", NEW i \in DOMAIN x PROVE Fits(p, x[i])'
      OBVIOUS
    <3>1. Fit(set, x[i])'
      BY <1>4, <1>5, <2>1 DEF Fit
    <3>2. Affected(p, x[i])' = {} <=> ~ RowIn(set.code, x[i].lang)'
      BY <1>3 DEF Affected, OfSet, RowIn
    <3> HIDE DEF Affected
    <3> QED
      BY <3>1, <3>2 DEF Fits, Fit
  <2>3. Unasked(p) => OfSet(set.code)' = {}
    BY <1>4, <1>5 DEF OfSet, RowIn
  <2> QED
    BY <1>2, <1>3, <1>4, <1>5, <2>1, <2>2, <2>3 DEF Careful, Unasked
<1>6. CASE UNCHANGED database
  <2>1. \A l : RowIn(set.code, l)' <=> RowIn(set.code, l)
    BY <1>6 DEF RowIn, database
  <2> QED
    BY <1>4, <1>5, <1>6, <2>1 DEF OfSet, database
<1>7. CASE CreateBlock(q) /\ blockRows' # blockRows
  <2>1. pc'[q] = "findSet"
    BY <1>1, <1>7 DEF CreateBlock, Goto
  <2> QED
    BY <2>1 DEF Careful
<1>8. CASE CreateCardSet(q) /\ setRow' # setRow
  <2>1. /\ pc'[q] = "translations" /\ Set(q)' = Set(q) /\ transRow' = transRow
        /\ setRow[Set(q).code] = NoRow
    BY <1>1, <1>8 DEF CreateCardSet, Goto, Set
  <2>2. OfSet(Set(q).code)' = {}
    BY <1>1, <2>1 DEF OfSet, TranslationsOK
  <2> QED
    BY <2>1, <2>2 DEF Careful
<1>9. CASE UpdateCardSet(q) /\ setRow' # setRow
  <2>1. /\ setRow' = [setRow EXCEPT ![Set(q).code] = RowOf(Set(q))]
        /\ transRow' = transRow /\ blockRows' = blockRows /\ pc[q] = "updateSet"
    BY <1>9 DEF UpdateCardSet, At
  <2>2. setRow[Set(q).code] # NoRow
    BY <2>1 DEF TypeInv, RowInHand
  <2>3. setRow[set.code] = NoRow => setRow'[set.code] = NoRow
    BY <1>1, <2>1, <2>2 DEF SetsOK
  <2>4. \A l : RowIn(set.code, l)' <=> RowIn(set.code, l)
    BY <2>1 DEF RowIn
  <2> QED
    BY <1>4, <1>5, <2>1, <2>3, <2>4 DEF OfSet
<1>10. CASE MergeTranslation(q) /\ transRow' # transRow
  <2>1. /\ pc[q] = "merge" /\ todo[q] # << >> /\ Fits(q, Head(todo[q])) /\ pc' = pc
        /\ transRow' = Written(Set(q), Head(todo[q])) /\ todo'[q] = Tail(todo[q])
        /\ setRow' = setRow /\ blockRows' = blockRows /\ Set(q)' = Set(q)
    BY <1>1, <1>10 DEF MergeTranslation, After, Affected, OfSet, Written, At, Fits, Set
  <2>2. PICK other \in SetType : other = Set(q) /\ other = Set(q)'
    BY <1>1, <2>1, SetInHand DEF TypeInv
  <2>3. PICK u \in Seq(Statement) : u = todo[q] /\ u # << >>
    BY <1>1, <2>1
  <2>4. PICK h \in Statement : h = Head(u) /\ 1 \in DOMAIN u /\ u[1] = h
    BY <2>3
  <2>5. Fit(other, h) /\ transRow' = Written(other, h)
    BY <2>1, <2>2, <2>3, <2>4, FitsRow
  <2>6. CASE pc[p] \notin {"translations", "merge"}
    BY <1>4, <1>5, <2>1, <2>6 DEF Unasked
  <2>7. CASE other.code # set.code
    <3>1. /\ \A l : RowIn(set.code, l)' <=> RowIn(set.code, l)
          /\ OfSet(set.code)' = OfSet(set.code)
      BY <2>5, <2>7, OtherSets
    <3> QED
      BY <1>4, <1>5, <2>1, <3>1
  <2>8. CASE other.code = set.code /\ h.op = "update"
    <3>1. \A l : RowIn(set.code, l)' <=> RowIn(set.code, l)
      BY <2>5, <2>8, RowsWritten DEF Fit
    <3>2. ~ Unasked(p)
      BY <1>4, <2>5, <2>8 DEF Fit
    <3> QED
      BY <1>4, <1>5, <2>1, <3>1, <3>2
  <2>9. CASE h.op # "update"
    <3>1. /\ InOrder(other.translations, u) /\ Follows(other, u)
      <4>1. Good(Set(q))
        BY <2>1 DEF Good, NoRepeatedLang
      <4> QED
        BY <2>1, <2>2, <2>3, <4>1 DEF Racing, Ahead, Unasked
    <3>2. PICK x : x = Tail(u) /\ x = todo'[q]
      BY <2>1, <2>3
    <3>3. Apart(x) /\ \A i \in DOMAIN x : x[i].lang # h.lang
      BY <2>3, <2>4, <3>1, <3>2, ApartTail DEF InOrder
    <3>4. \A i \in DOMAIN x : i + 1 \in DOMAIN u /\ x[i] = u[i + 1] /\ 1 < i + 1
      BY <2>3, <3>2
    <3>5. ASSUME NEW i \in DOMAIN x PROVE Fits(q, x[i])'
      <4>1. Fit(other, x[i])
        BY <2>4, <2>5, <2>9, <3>1, <3>4 DEF Follows
      <4>2. RowIn(other.code, x[i].lang)' <=> RowIn(other.code, x[i].lang)
        BY <2>5, <3>3, RowsWritten
      <4>3. Affected(q, x[i])' = {} <=> ~ RowIn(other.code, x[i].lang)'
        BY <2>2 DEF Affected, OfSet, RowIn
      <4> HIDE DEF Affected
      <4> QED
        BY <4>1, <4>2, <4>3 DEF Fits, Fit
    <3> QED
      BY <2>1, <3>2, <3>3, <3>5 DEF Careful
  <2> QED
    BY <2>7, <2>8, <2>9
<1>11. CASE NextCall(q)
  BY <1>6, <1>11 DEF NextCall
<1>12. CASE Import(q) \/ Stop(q)
  <2>1. \/ UNCHANGED database
        \/ CreateBlock(q) /\ blockRows' # blockRows
        \/ (CreateCardSet(q) \/ UpdateCardSet(q)) /\ setRow' # setRow
        \/ MergeTranslation(q) /\ transRow' # transRow
    BY <1>12 DEF Import, Start, FindBlockByName, CreateBlock, FindCardSetByCode, CreateCardSet,
           UpdateCardSet, FindTranslations, MergeTranslation, Finish, Stop, database
  <2> QED
    BY <1>6, <1>7, <1>8, <1>9, <1>10, <2>1
<1> QED
  BY <1>11, <1>12 DEF Step

\* At the beginning everybody finds what it expects.
LEMMA LeadInit ==
  ASSUME Init
  PROVE  Lead
<1>1. \A p \in Active : pc[p] = "start"
  BY DEF Init, Active
<1> QED
  BY <1>1 DEF Lead, Careful

\* Every step leaves a process that finds what it expects, be it another one.
LEMMA LeadStep ==
  ASSUME TypeInv, AllRacing, Lead, [Next]_vars
  PROVE  Lead'
<1>1. CASE UNCHANGED vars
  <2>1. NoConflict' = NoConflict /\ Active' = Active
    BY <1>1 DEF vars, NoConflict, Active
  <2>2. ASSUME NEW p \in Active, Good(Set(p)) => Careful(p) PROVE (Good(Set(p)) => Careful(p))'
    BY <1>1, <2>2 DEF vars, Careful, Set, OfSet, Fits, Affected, Good, NoRepeatedLang
  <2> QED
    BY <2>1, <2>2 DEF Lead
<1>2. ASSUME NEW q \in Importers, Step(q) PROVE Lead'
  <2>1. NoConflict' = NoConflict /\ Active' = Active /\ q \in Active
    BY <1>2, PlanStays, StepIsOfActive DEF NoConflict, Active
  <2> SUFFICES ASSUME NoConflict PROVE \E p \in Active : Good(Set(p))' => Careful(p)'
    BY <2>1 DEF Lead
  <2>2. PICK p \in Active : Good(Set(p)) => Careful(p)
    BY <2>1 DEF Lead
  <2>3. CASE p = q
    BY <1>2, <2>2, <2>3, CarefulStep
  <2>4. CASE p # q
    <3>1. Good(Set(p))' <=> Good(Set(p))
      <4>1. Set(p)' = Set(p)
        BY <1>2, <2>4, StepIsLocal DEF Active
      <4> QED
        BY <4>1 DEF Good, NoRepeatedLang
    <3>2. Racing(q)
      BY <2>1 DEF AllRacing
    <3>3. ASSUME Careful(p), Good(Set(q))' PROVE Careful(p)' \/ Careful(q)'
      BY <1>2, <2>1, <2>4, <3>2, <3>3, LeadIsHandedOver
    <3> QED
      BY <2>1, <2>2, <3>1, <3>3
  <2> QED
    BY <2>3, <2>4
<1> QED
  BY <1>1, <1>2 DEF Next, Ended, Step

-----------------------------------------------------------------------------
(* The theorems. *)

IInv == TypeInv /\ AllNear /\ AllCareful /\ AllRacing /\ Lead

\* The inductive invariant holds from the first states on.
LEMMA Inductive == Spec => []IInv
<1>1. Init => IInv
  BY TypeInit, NearInit, CarefulInit, AllRacingInit, LeadInit DEF IInv
<1>2. IInv /\ [Next]_vars => IInv'
  BY TypeStep, NearStep, AllCarefulStep, AllRacingStep, LeadStep DEF IInv
<1> QED
  BY <1>1, <1>2, PTL DEF Spec

\* Every variable has its type, and no statement of any number of processes breaks
\* a constraint of the tables.
THEOREM TypeCorrect == Spec => []TypeOK
<1>1. IInv => TypeOK
  BY DEF IInv, TypeInv
<1> QED
  BY <1>1, Inductive, PTL

\* A set whose import has ended well is in the database as it was given, whatever
\* was left behind by imports that stopped half way, and whoever else imported the
\* same set at the same time.
THEOREM ImportsAreExact == Spec => []ImportedIsExact
<1>1. IInv => ImportedIsExact
  BY NearIsExact DEF IInv
<1> QED
  BY <1>1, Inductive, PTL

\* A process on its own is refused only for what is wrong with the set: no row of
\* an earlier call is in the way.
THEOREM OnlyBadOnesAreRefused == Spec => []OnlyBadSetsAreRefused
<1>1. IInv => OnlyBadSetsAreRefused
  BY DEF IInv, AllCareful, Careful, OnlyBadSetsAreRefused, At
<1> QED
  BY <1>1, Inductive, PTL

\* Processes that import at the same time, and agree on the sets they share, are not
\* all refused when their sets are good: whoever loses the race for a row, or for a
\* block, loses it to one that finds all it expects.
THEOREM NotAllAreRefused == Spec => []SomeoneGetsThrough
<1>1. IInv => SomeoneGetsThrough
  BY DEF IInv, Lead, Careful, SomeoneGetsThrough, At
<1> QED
  BY <1>1, Inductive, PTL
=============================================================================
