-------------------------- MODULE ImageImportProofs --------------------------
(***************************************************************************)
(* Proofs about ImageImport for any number of processes, cards, faces and  *)
(* pages, whatever Scryfall has.                                           *)
(***************************************************************************)
EXTENDS ImageImport, SliceOpsProofs

-----------------------------------------------------------------------------
(* The inductive invariant. *)

Busy == {"find", "get", "open", "copy", "decode", "add"}
Holding == {"copy", "decode", "add"}

\* A process that works on a face has one in hand, and only those that run work.
PlaceOf(p) ==
  /\ p \in setup.importers <=> pc[p] # "absent"
  /\ pc[p] \in Busy => todo[p] # << >>
  /\ pc[p] = "page" => todo[p] = << >>
  /\ pc[p] \in {"open", "copy", "decode"} => got[p] \in Langs \cup {"broken"}
  /\ pc[p] = "add" => got[p] \in Langs

Places == setup \in Setups /\ \A p \in Importers : PlaceOf(p)

\* Who has a file in hand has it alone, no row is about it yet, and what it
\* hashes is what it has written.
FilesAreApart ==
  Alone \/ ~ setup.replace =>
    \A p \in Importers : pc[p] \in Holding =>
      /\ file[Slot(p)] # "none"
      /\ ~ HasRow(Slot(p))
      /\ pc[p] \in {"decode", "add"} => file[Slot(p)] = got[p]
      /\ \A q \in Importers \ {p} : pc[q] \in Holding => Slot(q) # Slot(p)

\* What is worked on has no row, if nobody else can have added it.
NewOnes == Alone => \A p \in Importers : pc[p] \in Busy => ~ HasRow(Slot(p))

\* Another language is asked for only if there is nothing in the own one, and
\* what is no image is the best that there is.
Answers(p) ==
  /\ pc[p] \in {"find", "get"} =>
       \/ asked[p] = Slot(p)[2]
       \/ asked[p] = FallbackLang /\ setup.library[Slot(p)] \in {"missing", "lost"}
  /\ pc[p] \in {"open", "copy", "decode"} /\ got[p] = "broken" => ~ Obtainable(Slot(p))

Answering == \A p \in setup.importers : Slot(p) \notin hiccups[p] => Answers(p)

\* The last query had its cards in order, and all that are expected among them.
Ordering(p) ==
  /\ \A i, k \in DOMAIN order[p] :
       i < k => order[p][i] # order[p][k] /\ CodeOf[order[p][i]] <= CodeOf[order[p][k]]
  /\ \/ order[p] = << >> /\ page[p] = PagesBefore
     \/ known[p] \subseteq ToSet(order[p])

Ordered == \A p \in setup.importers : Ordering(p)

\* The cards that the last query had up to the end of the page that was read.
ReadUpTo(p) == {order[p][i] : i \in {k \in DOMAIN order[p] : k <= page[p] * setup.size}}

\* Those of them that are promised.
Passed(p) == Promised(p) \cap ReadUpTo(p)

SlotsOfAll(cards) == {s \in UNION {SlotsOf(c) : c \in cards} : s[1] \notin gone}

\* What was done of them.
Treated(p) == SlotsOfAll(Passed(p)) \ ToSet(todo[p])

Total(p) == report[p].imported + report[p].missing + report[p].skipped

AllTreated(p) == IF pc[p] = "done" THEN SlotsOfAll(Promised(p)) ELSE Treated(p)

\* What was done is counted, ...
Counts ==
  \A p \in setup.importers :
    pc[p] \notin {"failed", "stopped"} => Cardinality(AllTreated(p)) <= Total(p)

\* ... and has its row, if there is an image to be had and no request has failed.
HaveRows ==
  Alone \/ ~ setup.replace => \A p \in setup.importers :
    pc[p] \notin {"failed", "stopped"} =>
      \A s \in AllTreated(p) \ hiccups[p] : Obtainable(s) => HasRow(s)

TypeInv == TypeOK /\ Places

\* What holds of the files and the rows.
StoreInv ==
  TypeInv /\ FilesAreApart /\ NewOnes /\ RowsHaveTheirFile /\ ReplacingNeedsNoCleanup

\* What holds of the progress of an import.
IInv == StoreInv /\ Answering /\ Ordered /\ Counts /\ HaveRows

-----------------------------------------------------------------------------
(* The constants, and the lists of faces. *)

\* What the constants are assumed to be.
LEMMA ConstantFacts ==
  /\ IsFiniteSet(Importers) /\ IsFiniteSet(Cards)
  /\ \A c \in Cards : CodeOf[c] \in Nat
  /\ \A c \in Cards : FacesOf[c] \in Seq(Faces) /\ FacesOf[c] # << >>
  /\ \A s \in Setups :
       /\ s.importers \subseteq Importers /\ s.stored \subseteq Cards /\ s.coming \subseteq Cards
       /\ s.dropping \subseteq Faces /\ s.library \in [Slots -> Kinds] /\ s.first \in Nat
       /\ s.size \in Nat \ {0} /\ s.runs \in Nat \ {0} /\ s.hiccups \subseteq Slots
<1>1. /\ IsFiniteSet(Importers) /\ IsFiniteSet(Cards)
      /\ CodeOf \in [Cards -> Nat]
      /\ \A c \in Cards : FacesOf[c] \in Seq(Faces) \ {<< >>}
  BY ImageImportAssumption
<1>2. \A s \in Setups : IsSetup(s)
  BY ImageImportAssumption
<1>3. ASSUME NEW s \in Setups
      PROVE  /\ s.importers \subseteq Importers /\ s.stored \subseteq Cards
             /\ s.coming \subseteq Cards /\ s.dropping \subseteq Faces
             /\ s.library \in [Slots -> Kinds] /\ s.first \in Nat
             /\ s.size \in Nat \ {0} /\ s.runs \in Nat \ {0} /\ s.hiccups \subseteq Slots
  BY <1>2 DEF IsSetup
<1> QED
  BY <1>1, <1>3

\* A process that is alone is the only one.
LEMMA OnlyOne ==
  ASSUME setup \in Setups, Alone, NEW p \in setup.importers, NEW q \in setup.importers
  PROVE  p = q
<1>1. IsFiniteSet(setup.importers)
  BY ConstantFacts, FS_Subset
<1>2. \E x : setup.importers = {x}
  BY <1>1, FS_Singleton DEF Alone
<1> QED
  BY <1>2

\* The faces of a card in a language are its faces that are not gone.
LEMMA InLanguageFacts ==
  ASSUME NEW c \in Cards, NEW lang \in Langs
  PROVE  /\ InLanguage(c, lang) \in Seq(Slots)
         /\ ToSet(InLanguage(c, lang)) = {<<f, lang>> : f \in ToSet(FacesOf[c]) \ gone}
<1> DEFINE ff == FacesOf[c]
           one(f) == IF f \in gone THEN << >> ELSE << <<f, lang>> >>
           seqs == [i \in DOMAIN ff |-> one(ff[i])]
<1>1. ff \in Seq(Faces)
  BY ConstantFacts
<1>2. ASSUME NEW f \in Faces
      PROVE  one(f) \in Seq(Slots) /\ ToSet(one(f)) = IF f \in gone THEN {} ELSE {<<f, lang>>}
  <2>1. <<f, lang>> \in Slots /\ << >> \in Seq(Slots)
    BY DEF Slots
  <2>2. CASE f \in gone
    <3>1. one(f) = << >> /\ DOMAIN << >> = {}
      BY <2>2
    <3> QED
      BY <2>1, <2>2, <3>1 DEF ToSet
  <2>3. CASE f \notin gone
    <3> DEFINE slot == <<f, lang>>
    <3>1. one(f) = <<slot>> /\ slot \in Slots
      BY <2>1, <2>3
    <3> HIDE DEF slot
    <3>2. <<slot>> \in Seq(Slots) /\ ToSet(<<slot>>) = {slot}
      BY <3>1 DEF ToSet
    <3> HIDE DEF one
    <3> QED
      BY <2>3, <3>1, <3>2 DEF slot
  <2> QED
    BY <2>2, <2>3
<1> HIDE DEF one, ff
<1>3. seqs \in Seq(Seq(Slots)) /\ DOMAIN seqs = DOMAIN ff
  <2>1. DOMAIN ff = 1..Len(ff) /\ Len(ff) \in Nat /\ \A i \in 1..Len(ff) : ff[i] \in Faces
    BY <1>1
  <2>2. seqs \in [1..Len(ff) -> Seq(Slots)]
    BY <1>2, <2>1
  <2> HIDE DEF seqs
  <2> QED
    BY <2>1, <2>2
<1>4. InLanguage(c, lang) = FlattenSeq(seqs)
  BY DEF InLanguage, one, ff
<1>5. /\ FlattenSeq(seqs) \in Seq(Slots)
      /\ ToSet(FlattenSeq(seqs)) = UNION {ToSet(seqs[i]) : i \in DOMAIN seqs}
  BY <1>3, FlattenFacts
<1>6. UNION {ToSet(seqs[i]) : i \in DOMAIN seqs} = {<<f, lang>> : f \in ToSet(ff) \ gone}
  <2>1. ASSUME NEW i \in DOMAIN ff
        PROVE  ToSet(seqs[i]) = IF ff[i] \in gone THEN {} ELSE {<<ff[i], lang>>}
    BY <1>1, <1>2
  <2> HIDE DEF seqs
  <2> QED
    BY <1>3, <2>1 DEF ToSet
<1> QED
  BY <1>4, <1>5, <1>6 DEF ff

\* What is to be done on a page are the faces of its cards in all languages.
LEMMA JobsFacts ==
  ASSUME NEW cards \in Seq(Cards)
  PROVE  /\ Jobs(cards) \in Seq(Slots)
         /\ ToSet(Jobs(cards)) = SlotsOfAll(ToSet(cards))
<1> DEFINE card(c) == FlattenSeq([l \in DOMAIN LangOrder |-> InLanguage(c, LangOrder[l])])
           seqs == [i \in DOMAIN cards |-> card(cards[i])]
<1>1. ASSUME NEW c \in Cards
      PROVE  /\ card(c) \in Seq(Slots)
             /\ ToSet(card(c)) = {<<f, lang>> : f \in ToSet(FacesOf[c]) \ gone, lang \in Langs}
  <2> DEFINE langs == [l \in DOMAIN LangOrder |-> InLanguage(c, LangOrder[l])]
  <2>1. DOMAIN LangOrder = {1, 2} /\ Langs = {LangOrder[1], LangOrder[2]}
    BY DEF LangOrder, Langs
  <2>2. \A l \in {1, 2} :
          /\ InLanguage(c, LangOrder[l]) \in Seq(Slots)
          /\ ToSet(InLanguage(c, LangOrder[l])) = {<<f, LangOrder[l]>> : f \in ToSet(FacesOf[c]) \ gone}
    BY <2>1, InLanguageFacts
  <2>3. langs \in Seq(Seq(Slots)) /\ DOMAIN langs = {1, 2}
    <3>1. DOMAIN LangOrder = 1..2 /\ 1..2 = {1, 2}
      BY DEF LangOrder
    <3>2. langs \in [1..2 -> Seq(Slots)]
      BY <2>1, <2>2, <3>1
    <3> HIDE DEF langs
    <3>3. DOMAIN langs = 1..2
      BY <3>2
    <3>4. ASSUME NEW X, NEW n \in Nat, NEW g \in [1..n -> X] PROVE g \in Seq(X)
      OBVIOUS
    <3>5. langs \in Seq(Seq(Slots))
      <4>1. 2 \in Nat
        OBVIOUS
      <4> QED
        BY <3>2, <3>4, <4>1, Zenon
    <3> QED
      BY <3>1, <3>3, <3>5
  <2>4. /\ FlattenSeq(langs) \in Seq(Slots)
        /\ ToSet(FlattenSeq(langs)) = UNION {ToSet(langs[l]) : l \in DOMAIN langs}
    BY <2>3, FlattenFacts
  <2>5. \A l \in {1, 2} : ToSet(langs[l]) = {<<f, LangOrder[l]>> : f \in ToSet(FacesOf[c]) \ gone}
    BY <2>1, <2>2
  <2> HIDE DEF langs
  <2>6. UNION {ToSet(langs[l]) : l \in {1, 2}}
          = {<<f, lang>> : f \in ToSet(FacesOf[c]) \ gone, lang \in Langs}
    BY <2>1, <2>5
  <2> QED
    BY <2>3, <2>4, <2>6 DEF langs
<1> HIDE DEF card
<1>2. seqs \in Seq(Seq(Slots)) /\ DOMAIN seqs = DOMAIN cards
  <2>1. DOMAIN cards = 1..Len(cards) /\ Len(cards) \in Nat
    OBVIOUS
  <2>2. seqs \in [1..Len(cards) -> Seq(Slots)]
    BY <1>1, <2>1
  <2> HIDE DEF seqs
  <2> QED
    BY <2>1, <2>2
<1>3. /\ FlattenSeq(seqs) \in Seq(Slots)
      /\ ToSet(FlattenSeq(seqs)) = UNION {ToSet(seqs[i]) : i \in DOMAIN seqs}
  BY <1>2, FlattenFacts
<1>4. Jobs(cards) = FlattenSeq(seqs)
  BY DEF Jobs, card
<1>5. UNION {ToSet(seqs[i]) : i \in DOMAIN seqs} = SlotsOfAll(ToSet(cards))
  <2>1. \A i \in DOMAIN cards :
          ToSet(seqs[i]) = {<<f, lang>> : f \in ToSet(FacesOf[cards[i]]) \ gone, lang \in Langs}
    BY <1>1
  <2>2. \A c : {s \in SlotsOf(c) : s[1] \notin gone}
                 = {<<f, lang>> : f \in ToSet(FacesOf[c]) \ gone, lang \in Langs}
    BY DEF SlotsOf
  <2>3. \A i \in DOMAIN cards : ToSet(seqs[i]) = {s \in SlotsOf(cards[i]) : s[1] \notin gone}
    BY <2>1, <2>2
  <2> HIDE DEF seqs
  <2>4. UNION {ToSet(seqs[i]) : i \in DOMAIN cards} = SlotsOfAll(ToSet(cards))
    BY <2>3 DEF SlotsOfAll, ToSet
  <2> QED
    BY <1>2, <2>4
<1> QED
  BY <1>3, <1>4, <1>5

-----------------------------------------------------------------------------
(* The order of the cards, and the pages. *)

\* A result of the query has every card once, in the order of the set codes.
LEMMA OrderFacts ==
  ASSUME present \subseteq Cards, NEW s \in Orders
  PROVE  /\ s \in Seq(present) /\ ToSet(s) = present
         /\ \A i, k \in DOMAIN s : i < k => s[i] # s[k] /\ CodeOf[s[i]] <= CodeOf[s[k]]
<1> DEFINE N == Cardinality(present)
<1>1. IsFiniteSet(present) /\ N \in Nat
  BY ConstantFacts, FS_Subset, FS_CardinalityType
<1>2. /\ s \in [1..N -> present]
      /\ \A i, k \in 1..N : i # k => s[i] # s[k]
      /\ \A i, k \in 1..N : i < k => CodeOf[s[i]] <= CodeOf[s[k]]
  BY DEF Orders, SetToSeqs
<1> HIDE DEF N
<1>3. s \in Surjection(1..N, present)
  <2>1. s \in Injection(1..N, present)
    BY <1>2 DEF Injection, IsInjective
  <2>2. Cardinality(1..N) = N
    <3>1. 1 \in Int /\ N \in Int
      BY <1>1
    <3>2. Cardinality(1..N) = IF 1 > N THEN 0 ELSE N - 1 + 1
      BY <3>1, FS_Interval
    <3> QED
      BY <1>1, <3>2
  <2> QED
    BY <1>1, <2>1, <2>2, FS_Injection DEF N
<1>4. s \in Seq(present) /\ DOMAIN s = 1..N
  BY <1>1, <1>2
<1>5. ToSet(s) = present
  BY <1>2, <1>3, <1>4 DEF Surjection, ToSet
<1> QED
  BY <1>1, <1>2, <1>4, <1>5

\* What is among the first n of a list are n at most.
LEMMA AtMost ==
  ASSUME NEW S, NEW n \in Nat, NEW s, \A d \in S : \E i \in 1..n : s[i] = d
  PROVE  IsFiniteSet(S) /\ Cardinality(S) \in Nat /\ Cardinality(S) <= n
<1> DEFINE f == [d \in S |-> CHOOSE i \in 1..n : s[i] = d]
<1>1. \A d \in S : f[d] \in 1..n /\ s[f[d]] = d
  OBVIOUS
<1>2. f \in [S -> 1..n]
  BY <1>1
<1> HIDE DEF f
<1>3. f \in Injection(S, 1..n)
  BY <1>1, <1>2 DEF Injection, IsInjective
<1>4. IsFiniteSet(1..n) /\ Cardinality(1..n) = n
  <2>1. 1 \in Int /\ n \in Int
    OBVIOUS
  <2>2. IsFiniteSet(1..n) /\ Cardinality(1..n) = IF 1 > n THEN 0 ELSE n - 1 + 1
    BY <2>1, FS_Interval
  <2> QED
    BY <2>2
<1>5. IsFiniteSet(S) /\ Cardinality(S) <= Cardinality(1..n)
  BY <1>3, <1>4, FS_Injection
<1> QED
  BY <1>4, <1>5, FS_CardinalityType

\* The first j of a list, all different, are among the first n of another one.
AmongFirst(t, j, s, n) ==
  /\ \A i, k \in 1..j : i < k => t[i] # t[k]
  /\ \A k \in 1..j : \E i \in 1..n : s[i] = t[k]

\* Then j is n at most.
LEMMA NotMore ==
  ASSUME NEW t, NEW j \in Nat, NEW s, NEW n \in Nat, AmongFirst(t, j, s, n)
  PROVE  j <= n
<1> DEFINE S == {t[k] : k \in 1..j}
           f == [k \in 1..j |-> t[k]]
<1>1. Cardinality(S) \in Nat /\ Cardinality(S) <= n
  <2>1. \A d \in S : \E i \in 1..n : s[i] = d
    BY DEF AmongFirst
  <2> HIDE DEF S
  <2> QED
    BY <2>1, AtMost
<1>2. \A i, k \in 1..j : t[i] = t[k] => i = k
  <2>1. \A i, k \in 1..j : i = k \/ i < k \/ k < i
    OBVIOUS
  <2> QED
    BY <2>1 DEF AmongFirst
<1>3. f \in Surjection(1..j, S) /\ f \in Injection(1..j, S)
  BY <1>2 DEF Surjection, Injection, IsInjective
<1>4. IsFiniteSet(1..j) /\ Cardinality(1..j) = j
  <2>1. 1 \in Int /\ j \in Int
    OBVIOUS
  <2>2. IsFiniteSet(1..j) /\ Cardinality(1..j) = IF 1 > j THEN 0 ELSE j - 1 + 1
    BY <2>1, FS_Interval
  <2> QED
    BY <2>2
<1> HIDE DEF f, S
<1>5. Cardinality(S) = Cardinality(1..j)
  BY <1>3, <1>4, FS_Surjection
<1> QED
  BY <1>1, <1>4, <1>5

\* A page is a list of cards of the database.
LEMMA PageType ==
  ASSUME setup \in Setups, present \subseteq Cards, NEW s \in Orders, NEW n \in Nat
  PROVE  PageOf(s, n + 1) \in Seq(present)
<1> DEFINE o == (n + 1 - 1) * setup.size
           N == Cardinality(present)
           m == IF o + setup.size < N THEN o + setup.size ELSE N
<1>1. setup.size \in Nat \ {0} /\ o \in Nat
  <2>1. setup.size \in Nat \ {0}
    BY ConstantFacts
  <2> QED
    BY <2>1
<1>2. s \in Seq(present) /\ Len(s) = N /\ N \in Nat
  <2>1. N \in Nat
    BY ConstantFacts, FS_Subset, FS_CardinalityType
  <2>2. s \in [1..N -> present]
    BY DEF Orders, SetToSeqs
  <2> QED
    BY <2>1, <2>2
<1> HIDE DEF o, N
<1>3. PageOf(s, n + 1) = SubSeq(s, o + 1, m)
  <2>1. PageOf(s, n + 1) = Slice(s, o, setup.size)
    BY DEF PageOf, o
  <2> QED
    BY <1>2, <2>1 DEF Slice
<1>4. m \in Nat /\ m <= N
  BY <1>1, <1>2
<1> HIDE DEF m
<1>5. \A k \in (o + 1)..m : s[k] \in present
  BY <1>1, <1>2, <1>4
<1>6. SubSeq(s, o + 1, m) \in Seq(present)
  BY <1>1, <1>2, <1>4, <1>5
<1> QED
  BY <1>3, <1>6

\* The n-th page has the cards behind those before, and is empty only behind all.
LEMMA PageFacts ==
  ASSUME setup \in Setups, present \subseteq Cards, NEW s \in Orders, NEW n \in Nat
  PROVE  LET cards == PageOf(s, n + 1)
         IN  /\ cards \in Seq(present)
             /\ \A k \in DOMAIN s :
                  n * setup.size < k /\ k <= (n + 1) * setup.size => s[k] \in ToSet(cards)
             /\ cards = << >> => \A k \in DOMAIN s : k <= n * setup.size
<1> DEFINE o == n * setup.size
           z == setup.size
           N == Len(s)
           m == IF o + z < N THEN o + z ELSE N
           cards == PageOf(s, n + 1)
<1>1. z \in Nat \ {0} /\ o \in Nat /\ (n + 1) * z = o + z /\ (n + 1 - 1) * z = o
  <2>1. setup.size \in Nat \ {0}
    BY ConstantFacts
  <2> QED
    BY <2>1
<1>2. /\ s \in Seq(present) /\ N \in Nat /\ DOMAIN s = 1..N
  BY OrderFacts
<1>3. cards = SubSeq(s, o + 1, m)
  <2>1. cards = Slice(s, (n + 1 - 1) * z, z)
    BY DEF PageOf
  <2>2. cards = Slice(s, o, z)
    BY <1>1, <2>1
  <2> HIDE DEF o, z, cards
  <2> QED
    BY <1>2, <2>2 DEF Slice
<1> HIDE DEF o, z, N, cards
<1>4. /\ cards \in Seq(present)
      /\ \A k \in (o + 1)..m : k - o \in DOMAIN cards /\ cards[k - o] = s[k]
  <2>1. m \in Nat /\ m <= N
    BY <1>1, <1>2
  <2> HIDE DEF m
  <2>2. \A k \in (o + 1)..m : s[k] \in present
    BY <1>1, <1>2, <2>1
  <2>3. SubSeq(s, o + 1, m) \in Seq(present)
    BY <1>1, <1>2, <2>1, <2>2
  <2>4. \A k \in (o + 1)..m :
          k - o \in DOMAIN SubSeq(s, o + 1, m) /\ SubSeq(s, o + 1, m)[k - o] = s[k]
    BY <1>1, <1>2, <2>1
  <2> QED
    BY <1>3, <2>3, <2>4
<1>5. ASSUME NEW k \in DOMAIN s, o < k, k <= o + z PROVE s[k] \in ToSet(cards)
  <2>1. k \in (o + 1)..m
    BY <1>1, <1>2, <1>5
  <2> QED
    BY <1>4, <2>1 DEF ToSet
<1>6. ASSUME cards = << >>, NEW k \in DOMAIN s PROVE k <= o
  <2>1. m < o + 1
    <3>1. o + 1 \in (o + 1)..m => FALSE
      BY <1>4, <1>6
    <3> QED
      BY <1>1, <1>2, <3>1
  <2>2. N <= o
    BY <1>1, <1>2, <2>1
  <2> QED
    BY <1>1, <1>2, <2>2
<1> QED
  BY <1>1, <1>4, <1>5, <1>6 DEF o, z, cards

\* A card that the query has on an earlier page was there when that page was
\* read, if it was not hidden by the first page or by a torn set.
LEMMA NotBack ==
  ASSUME TypeOK, setup \in Setups, NEW p \in Importers, Ordering(p), NEW s \in Orders,
         NEW k \in DOMAIN s, k <= page[p] * setup.size,
         s[k] \in Expected(p), CodeOf[s[k]] \notin TornBy(s, p)
  PROVE  s[k] \in ReadUpTo(p)
<1> DEFINE t == order[p]
           c == s[k]
           o == page[p] * setup.size
           C(d) == CodeOf[d]
<1>1. /\ o \in Nat /\ PagesBefore \in Nat
  <2>1. page[p] \in Nat /\ setup.size \in Nat /\ setup.first \in Nat
    BY ConstantFacts DEF TypeOK
  <2> QED
    BY <2>1 DEF PagesBefore
<1>2. /\ s \in Seq(present) /\ ToSet(s) = present
      /\ \A i, m \in DOMAIN s : i < m => s[i] # s[m] /\ C(s[i]) <= C(s[m])
      /\ present \subseteq Cards
  BY OrderFacts DEF TypeOK
<1>3. /\ t \in Seq(present) /\ known[p] \subseteq present /\ c \in known[p]
  BY DEF TypeOK, Expected
<1>4. \A d \in present : C(d) \in Nat
  BY <1>2, ConstantFacts
<1>5. DOMAIN s = 1..Len(s) /\ Len(s) \in Nat /\ DOMAIN t = 1..Len(t) /\ Len(t) \in Nat
  BY <1>2, <1>3
<1>6. \A d \in present : \E i \in DOMAIN s : s[i] = d
  BY <1>2 DEF ToSet
<1>7. ASSUME t = << >>, page[p] = PagesBefore PROVE FALSE
  <2> DEFINE S == {d \in known[p] : CodeOf[d] < CodeOf[c]}
  <2>1. ASSUME NEW d \in S PROVE \E i \in 1..(k - 1) : s[i] = d
    <3>1. PICK i \in DOMAIN s : s[i] = d
      BY <1>3, <1>6
    <3>2. ~ (k <= i)
      BY <1>2, <1>3, <1>4, <1>5, <3>1
    <3> QED
      BY <1>5, <3>1, <3>2
  <2>2. k - 1 \in Nat /\ k <= o
    BY <1>5
  <2>3. Cardinality(S) \in Nat /\ Cardinality(S) <= k - 1
    <3> HIDE DEF S
    <3> QED
      BY <2>1, <2>2, AtMost
  <2>4. Cardinality(S) >= o
    BY <1>7 DEF Expected
  <2> HIDE DEF o, S
  <2> QED
    BY <1>1, <1>5, <2>2, <2>3, <2>4
<1>8. known[p] \subseteq ToSet(t) /\ \A i, m \in DOMAIN t : i < m => t[i] # t[m] /\ C(t[i]) <= C(t[m])
  BY <1>7 DEF Ordering
<1>9. PICK j \in DOMAIN t : t[j] = c
  BY <1>3, <1>8 DEF ToSet
<1> HIDE DEF o, t, c
<1>10. ASSUME NEW m \in 1..j PROVE \E i \in 1..o : s[i] = t[m]
  <2>1. m \in DOMAIN t /\ t[m] \in present /\ C(t[m]) <= C(c) /\ c \in present
    <3>1. m \in DOMAIN t /\ (m = j \/ m < j)
      BY <1>5, <1>9
    <3>2. C(t[m]) <= C(c)
      BY <1>3, <1>4, <1>8, <1>9, <3>1
    <3> QED
      BY <1>3, <3>1, <3>2
  <2>2. PICK i \in DOMAIN s : s[i] = t[m]
    BY <1>6, <2>1
  <2>3. k <= o /\ s[k] = c
    BY DEF o, c
  <2>4. ASSUME ~ (i <= o) PROVE FALSE
    <3>1. k < i /\ k <= o /\ o < i
      BY <1>1, <1>5, <2>3, <2>4
    <3>2. C(t[m]) = C(c)
      BY <1>2, <1>4, <2>1, <2>2, <2>3, <3>1
    <3>3. o \in DOMAIN s /\ o + 1 \in DOMAIN s /\ o < Len(s)
      BY <1>1, <1>5, <3>1
    <3>4. \A q \in DOMAIN s : k <= q /\ q <= i => C(s[q]) = C(c)
      <4> SUFFICES ASSUME NEW q \in DOMAIN s, k <= q, q <= i PROVE C(s[q]) = C(c)
        OBVIOUS
      <4>1. C(c) <= C(s[q]) /\ C(s[q]) <= C(c)
        <5>1. k = q \/ k < q
          BY <1>5
        <5>2. q = i \/ q < i
          BY <1>5
        <5>3. C(c) <= C(s[q])
          BY <1>2, <1>4, <2>1, <2>3, <5>1
        <5>4. C(s[q]) <= C(s[i])
          BY <1>2, <1>4, <2>1, <2>2, <5>2
        <5> QED
          BY <2>2, <3>2, <5>3, <5>4
      <4>2. C(s[q]) \in Nat /\ C(c) \in Nat
        BY <1>2, <1>4, <2>1
      <4> QED
        BY <4>1, <4>2
    <3>5. C(s[o]) = C(c) /\ C(s[o + 1]) = C(c)
      <4>1. k <= o /\ o <= i /\ k <= o + 1 /\ o + 1 <= i
        BY <1>1, <1>5, <3>1
      <4> QED
        BY <3>3, <3>4, <4>1
    <3>6. m < j
      <4>1. t[m] # c
        BY <1>2, <1>5, <2>2, <2>3, <3>1
      <4>2. m # j
        BY <1>9, <4>1
      <4> QED
        BY <1>5, <4>2
    <3>7. Before(t, t[m], c) /\ Before(s, c, t[m])
      BY <1>9, <2>1, <2>2, <2>3, <3>1, <3>6 DEF Before
    <3>8. t[m] \in ToSet(t) /\ c \in ToSet(t)
      BY <1>9, <2>1 DEF ToSet
    <3>9. CodeOf[s[o]] \in TornBy(s, p)
      BY <3>2, <3>3, <3>5, <3>7, <3>8 DEF TornBy, t, o
    <3> QED
      BY <3>5, <3>9 DEF c
  <2> QED
    BY <1>1, <1>5, <2>2, <2>4
<1>11. j <= o
  <2>1. j \in Nat /\ \A i, m \in 1..j : i < m => t[i] # t[m]
    BY <1>5, <1>8
  <2>2. AmongFirst(t, j, s, o)
    BY <1>10, <2>1 DEF AmongFirst
  <2> QED
    BY <1>1, <2>1, <2>2, NotMore
<1> QED
  BY <1>9, <1>11 DEF ReadUpTo, t, o, c
-----------------------------------------------------------------------------
(* Types, and where a process is. *)

\* Nothing else of a process is touched by the step of another one.
LEMMA OthersStay ==
  ASSUME TypeOK, NEW p \in Importers, Import(p) \/ Stop(p) \/ Restart(p),
         NEW q \in Importers, q # p
  PROVE  /\ pc'[q] = pc[q] /\ why'[q] = why[q] /\ page'[q] = page[q] /\ todo'[q] = todo[q]
         /\ asked'[q] = asked[q] /\ got'[q] = got[q] /\ known'[q] = known[q]
         /\ report'[q] = report[q] /\ runs'[q] = runs[q] /\ hiccups'[q] = hiccups[q]
         /\ order'[q] = order[q] /\ torn'[q] = torn[q]
<1>1. CASE ReadPage(p)
  BY <1>1 DEF TypeOK, ReadPage, Goto
<1>2. CASE PageDone(p)
  BY <1>2 DEF TypeOK, ghosts, PageDone, Goto
<1>3. CASE SkipImage(p)
  BY <1>3 DEF TypeOK, ghosts, SkipImage, Count, Goto
<1>4. CASE WantImage(p)
  BY <1>4 DEF TypeOK, ghosts, WantImage, Goto
<1> DEFINE Kept == /\ pc'[q] = pc[q] /\ asked'[q] = asked[q]
                   /\ todo'[q] = todo[q] /\ report'[q] = report[q]
<1>14. TryFallback(p) => Kept
  BY DEF TypeOK, TryFallback, Count, Goto
<1>5. CASE FindCard(p)
  <2>1. /\ why' = why /\ page' = page /\ got' = got /\ known' = known /\ runs' = runs
        /\ order' = order /\ torn' = torn /\ hiccups'[q] = hiccups[q]
        /\ TryFallback(p) \/ (Goto(p, "get") /\ UNCHANGED <<asked, todo, report>>)
    BY <1>5 DEF FindCard, TypeOK
  <2>2. (Goto(p, "get") /\ UNCHANGED <<asked, todo, report>>) => Kept
    BY DEF TypeOK, Goto
  <2> QED
    BY <1>14, <2>1, <2>2
<1>6. CASE GetImage(p)
  <2>1. /\ page' = page /\ known' = known /\ runs' = runs /\ UNCHANGED <<hiccups, order, torn>>
        /\ \/ TryFallback(p) /\ UNCHANGED <<got, why>>
           \/ Fail(p, "type") /\ UNCHANGED <<asked, got, todo, report>>
           \/ /\ \E x : got' = [got EXCEPT ![p] = x]
              /\ Goto(p, "open") /\ UNCHANGED <<asked, todo, report, why>>
    BY <1>6 DEF GetImage, ghosts
  <2>2. CASE TryFallback(p) /\ UNCHANGED <<got, why>>
    BY <1>14, <2>1, <2>2
  <2>3. CASE Fail(p, "type") /\ UNCHANGED <<asked, got, todo, report>>
    BY <2>1, <2>3 DEF TypeOK, Fail, Goto
  <2>4. CASE /\ \E x : got' = [got EXCEPT ![p] = x]
             /\ Goto(p, "open") /\ UNCHANGED <<asked, todo, report, why>>
    BY <2>1, <2>4 DEF TypeOK, Goto
  <2> QED
    BY <2>1, <2>2, <2>3, <2>4
<1>7. CASE OpenFile(p)
  BY <1>7 DEF TypeOK, ghosts, OpenFile, Goto, Fail
<1>8. CASE CopyFile(p)
  BY <1>8 DEF TypeOK, ghosts, CopyFile, Goto
<1>9. CASE DecodeImage(p)
  BY <1>9 DEF TypeOK, ghosts, DecodeImage, Count, Goto
<1>10. CASE AddImage(p)
  BY <1>10 DEF TypeOK, ghosts, AddImage, Count, Goto, Fail
<1>11. CASE Stop(p)
  BY <1>11 DEF TypeOK, ghosts, Stop, Goto
<1>12. CASE Restart(p)
  BY <1>12 DEF TypeOK, Restart, Goto
<1> QED
  BY <1>1, <1>2, <1>3, <1>4, <1>5, <1>6, <1>7, <1>8, <1>9, <1>10, <1>11, <1>12 DEF Import

\* The program begins with the types, and at the first page.
LEMMA TypeInit == Init => TypeInv
<1> SUFFICES ASSUME Init PROVE TypeOK /\ Places
  BY DEF TypeInv
<1>1. /\ setup.importers \subseteq Importers /\ setup.stored \subseteq Cards
      /\ setup.first \in Nat /\ setup.runs \in Nat \ {0}
  BY ConstantFacts DEF Init
<1>2. PagesBefore \in Nat
  BY <1>1 DEF PagesBefore
<1>3. TypeOK
  <2>1. << >> \in Seq(Slots)
    OBVIOUS
  <2>2. todo \in [Importers -> Seq(Slots)]
    BY <2>1 DEF Init
  <2>3. page \in [Importers -> Nat] /\ runs \in [Importers -> 1..setup.runs]
    <3>1. 1 \in 1..setup.runs
      BY <1>1
    <3>2. page \in [Importers -> Nat]
      BY <1>2 DEF Init
    <3>3. runs \in [Importers -> 1..setup.runs]
      BY <3>1 DEF Init
    <3> QED
      BY <3>2, <3>3
  <2>4. report \in [Importers -> [imported : Nat, missing : Nat, skipped : Nat]]
    BY DEF Init, NoReport
  <2>5. pc \in [Importers -> Labels] /\ why \in [Importers -> {"", "type", "exists", "duplicate"}]
    BY DEF Init, Labels
  <2>6. asked \in [Importers -> Langs] /\ got \in [Importers -> Contents]
    BY DEF Init, Langs, Contents
  <2>7. known \in [Importers -> SUBSET present] /\ file \in [Slots -> Contents]
    BY DEF Init, Contents
  <2>8. /\ present \subseteq Cards /\ gone \subseteq setup.dropping
        /\ rows \subseteq [slot : Slots, content : Langs]
        /\ \A r, q \in rows : r.slot = q.slot => r = q
    BY <1>1 DEF Init
  <2>9. /\ hiccups \in [Importers -> SUBSET setup.hiccups] /\ torn \in [Importers -> SUBSET Nat]
        /\ order \in [Importers -> Seq(present)]
    <3>1. << >> \in Seq(present) /\ {} \in SUBSET setup.hiccups /\ {} \in SUBSET Nat
      OBVIOUS
    <3>2. /\ hiccups = [p \in Importers |-> {}] /\ torn = [p \in Importers |-> {}]
          /\ order = [p \in Importers |-> << >>]
      BY DEF Init
    <3> QED
      BY <3>1, <3>2
  <2> QED
    BY <2>2, <2>3, <2>4, <2>5, <2>6, <2>7, <2>8, <2>9 DEF TypeOK
<1>4. Places
  BY <1>1 DEF Init, Places, PlaceOf, Busy
<1> QED
  BY <1>3, <1>4

\* Every step keeps them.
LEMMA TypeNext == TypeInv /\ [Next]_vars => TypeInv'
<1> SUFFICES ASSUME TypeOK, Places, [Next]_vars PROVE (TypeOK /\ Places)'
  BY DEF TypeInv
<1> DEFINE Reports == [imported : Nat, missing : Nat, skipped : Nat]
           Whys == {"", "type", "exists", "duplicate"}
           Rows == rows \subseteq [slot : Slots, content : Langs]
                     /\ \A r, q \in rows : r.slot = q.slot => r = q
           Cards1 == present \subseteq Cards /\ gone \subseteq setup.dropping
                       /\ known \in [Importers -> SUBSET present]
           Runs == runs \in [Importers -> 1..setup.runs]
           Ghosts == /\ hiccups \in [Importers -> SUBSET setup.hiccups]
                     /\ order \in [Importers -> Seq(present)]
                     /\ torn \in [Importers -> SUBSET Nat]
           Walk == /\ pc \in [Importers -> Labels] /\ why \in [Importers -> Whys]
                   /\ asked \in [Importers -> Langs] /\ got \in [Importers -> Contents]
           Lists == /\ page \in [Importers -> Nat] /\ todo \in [Importers -> Seq(Slots)]
                    /\ report \in [Importers -> Reports]
           Files == file \in [Slots -> Contents]
<1>1. setup \in Setups /\ IsFiniteSet(Importers)
  BY ConstantFacts DEF Places
<1>2. /\ setup.importers \subseteq Importers /\ setup.coming \subseteq Cards
      /\ setup.runs \in Nat \ {0} /\ setup.first \in Nat
      /\ setup.library \in [Slots -> Kinds] /\ setup.dropping \subseteq Faces
  BY <1>1, ConstantFacts
<1>3. Rows /\ Cards1 /\ Runs /\ Ghosts /\ Walk /\ Lists /\ Files
  BY DEF TypeOK
<1>4. ASSUME (Rows /\ Cards1 /\ Runs /\ Ghosts /\ Walk /\ Lists /\ Files)' PROVE TypeOK'
  BY <1>4 DEF TypeOK
<1>5. ASSUME NEW p \in Importers, Import(p) \/ Stop(p) \/ Restart(p), setup' = setup, PlaceOf(p)'
      PROVE  Places'
  <2>1. ASSUME NEW q \in Importers PROVE PlaceOf(q)'
    <3>1. CASE q = p
      BY <1>5, <3>1
    <3>2. CASE q # p
      <4>1. pc'[q] = pc[q] /\ todo'[q] = todo[q] /\ got'[q] = got[q]
        BY <1>5, <3>2, OthersStay
      <4> QED
        BY <1>5, <4>1 DEF Places, PlaceOf
    <3> QED
      BY <3>1, <3>2
  <2> QED
    BY <1>1, <1>5, <2>1 DEF Places
<1>6. ASSUME NEW p \in setup.importers, Import(p) \/ Stop(p) \/ Restart(p)
      PROVE  (TypeOK /\ Places)'
  <2>1. /\ p \in Importers /\ pc[p] \in Labels /\ todo[p] \in Seq(Slots) /\ PlaceOf(p)
        /\ todo[p] # << >> => Slot(p) \in Slots /\ Tail(todo[p]) \in Seq(Slots)
    <3>1. p \in Importers
      BY <1>2
    <3>2. pc[p] \in Labels /\ todo[p] \in Seq(Slots) /\ PlaceOf(p)
      BY <1>3, <3>1 DEF Places
    <3> QED
      BY <3>1, <3>2 DEF Slot
  <2>2. /\ \A s \in Slots : s[1] \in Faces /\ s[2] \in Langs
        /\ page[p] \in Nat /\ runs[p] \in 1..setup.runs
    <3>1. \A s \in Slots : s[1] \in Faces /\ s[2] \in Langs
      BY DEF Slots
    <3>2. page[p] \in Nat /\ runs[p] \in 1..setup.runs
      BY <1>3, <2>1
    <3> QED
      BY <3>1, <3>2
  <2>3. ASSUME NEW field \in {"imported", "missing", "skipped"}, Count(p, field), todo[p] # << >>
        PROVE  /\ report' \in [Importers -> Reports] /\ todo' \in [Importers -> Seq(Slots)]
               /\ pc' \in [Importers -> Labels] /\ pc'[p] = "check"
    <3>1. todo' \in [Importers -> Seq(Slots)]
      BY <1>3, <2>1, <2>3 DEF Count
    <3>2. pc' \in [Importers -> Labels] /\ pc'[p] = "check"
      BY <1>3, <2>1, <2>3 DEF Count, Goto, Labels
    <3>3. report' \in [Importers -> Reports]
      <4>1. [report[p] EXCEPT ![field] = @ + 1] \in Reports
        <5>1. report[p] \in Reports
          BY <1>3, <2>1
        <5> QED
          BY <2>3, <5>1
      <4>2. report' = [report EXCEPT ![p] = [report[p] EXCEPT ![field] = @ + 1]]
        BY <1>3, <2>1, <2>3 DEF Count
      <4> QED
        BY <1>3, <4>1, <4>2
    <3> QED
      BY <3>1, <3>2, <3>3
  <2>4. ASSUME TryFallback(p), todo[p] # << >>
        PROVE  /\ report' \in [Importers -> Reports] /\ todo' \in [Importers -> Seq(Slots)]
               /\ pc' \in [Importers -> Labels] /\ asked' \in [Importers -> Langs]
               /\ pc'[p] = "check" \/ (pc'[p] = "find" /\ todo'[p] # << >>)
    <3>1. CASE asked[p] # FallbackLang
      <4>1. asked' = [asked EXCEPT ![p] = "eng"] /\ pc' = [pc EXCEPT ![p] = "find"]
        BY <2>4, <3>1 DEF TryFallback, Goto, FallbackLang
      <4>2. report' = report /\ todo' = todo
        BY <2>4, <3>1 DEF TryFallback
      <4>3. report' \in [Importers -> Reports] /\ todo' \in [Importers -> Seq(Slots)]
        BY <1>3, <4>2
      <4>4. pc' \in [Importers -> Labels] /\ asked' \in [Importers -> Langs]
        BY <1>3, <2>1, <4>1 DEF Labels, Langs
      <4>5. pc'[p] = "find" /\ todo'[p] # << >>
        BY <1>3, <2>1, <2>4, <4>1, <4>2
      <4> QED
        BY <4>3, <4>4, <4>5
    <3>2. CASE ~ (asked[p] # FallbackLang)
      BY <1>3, <2>3, <2>4, <3>2 DEF TryFallback
    <3> QED
      BY <3>1, <3>2
  <2> SUFFICES TypeOK' /\ PlaceOf(p)' /\ setup' = setup
    BY <1>5, <1>6, <2>1
  <2> HIDE DEF Reports
  <2>5. CASE ReadPage(p)
    <3>1. PICK s \in Orders :
            LET cards == PageOf(s, page[p] + 1)
            IN  /\ todo' = [todo EXCEPT ![p] = Jobs(cards)]
                /\ Goto(p, IF cards = << >> THEN "done" ELSE "check")
                /\ order' = [order EXCEPT ![p] = s]
                /\ torn' = [torn EXCEPT ![p] = @ \cup TornBy(s, p)]
      BY <2>5 DEF ReadPage
    <3> DEFINE cards == PageOf(s, page[p] + 1)
    <3>2. cards \in Seq(Cards)
      <4>1. page[p] \in Nat /\ present \subseteq Cards
        BY <1>3, <2>1
      <4>2. cards \in Seq(present)
        BY <1>1, <4>1, PageType
      <4> HIDE DEF cards
      <4> QED
        BY <4>1, <4>2
    <3>3. Jobs(cards) \in Seq(Slots)
      BY <3>2, JobsFacts
    <3> HIDE DEF cards
    <3>4. (Rows /\ Cards1 /\ Runs /\ Files)' /\ setup' = setup
      BY <1>3, <2>5 DEF ReadPage
    <3>8. Ghosts'
      <4>1. UNCHANGED <<setup, present, hiccups>>
        BY <2>5 DEF ReadPage
      <4>2. s \in Seq(present) /\ TornBy(s, p) \subseteq Nat
        <5>1. present \subseteq Cards /\ s \in Seq(present)
          BY <1>3, OrderFacts
        <5>2. \A i \in DOMAIN s : CodeOf[s[i]] \in Nat
          BY <5>1, ConstantFacts
        <5> QED
          BY <5>1, <5>2 DEF TornBy
      <4>3. torn[p] \cup TornBy(s, p) \in SUBSET Nat
        BY <1>3, <2>1, <4>2
      <4>4. order' \in [Importers -> Seq(present)]
        BY <1>3, <3>1, <4>2
      <4>5. torn' \in [Importers -> SUBSET Nat]
        BY <1>3, <3>1, <4>3
      <4> QED
        BY <1>3, <4>1, <4>4, <4>5
    <3>5. Walk' /\ pc'[p] \in {"done", "check"}
      BY <1>3, <2>1, <2>5, <3>1 DEF ReadPage, Goto, Labels, cards
    <3>6. Lists'
      <4>1. todo' = [todo EXCEPT ![p] = Jobs(cards)]
        BY <3>1 DEF cards
      <4>2. page' = [page EXCEPT ![p] = page[p] + 1] /\ report' = report
        BY <2>5 DEF ReadPage
      <4>3. page[p] + 1 \in Nat
        BY <2>2
      <4>4. page' \in [Importers -> Nat]
        BY <1>3, <4>2, <4>3
      <4>5. todo' \in [Importers -> Seq(Slots)]
        BY <1>3, <3>3, <4>1
      <4> QED
        BY <1>3, <4>2, <4>4, <4>5
    <3>7. PlaceOf(p)'
      BY <1>6, <3>4, <3>5 DEF PlaceOf, Busy
    <3> QED
      BY <1>4, <3>4, <3>5, <3>6, <3>7, <3>8
  <2>6. CASE PageDone(p)
    <3>1. (Rows /\ Cards1 /\ Runs /\ Ghosts /\ Walk /\ Lists /\ Files)'
      BY <1>3, <2>6 DEF ghosts, PageDone, Goto, Labels
    <3>2. PlaceOf(p)'
      BY <1>3, <1>6, <2>1, <2>6 DEF PageDone, Goto, PlaceOf, Busy
    <3> QED
      BY <1>4, <2>6, <3>1, <3>2 DEF PageDone
  <2>7. CASE SkipImage(p)
    <3>1. (Rows /\ Cards1 /\ Runs /\ Ghosts /\ Walk /\ Lists /\ Files)'
      BY <1>3, <2>3, <2>7 DEF ghosts, SkipImage
    <3>2. PlaceOf(p)'
      BY <1>6, <2>3, <2>7 DEF SkipImage, PlaceOf, Busy
    <3> QED
      BY <1>4, <2>7, <3>1, <3>2 DEF SkipImage
  <2>8. CASE WantImage(p)
    <3>1. (Rows /\ Cards1 /\ Runs /\ Ghosts /\ Walk /\ Lists /\ Files)'
      BY <1>3, <2>1, <2>2, <2>8 DEF ghosts, WantImage, Goto, Labels
    <3>2. PlaceOf(p)'
      BY <1>3, <1>6, <2>1, <2>8 DEF WantImage, Goto, PlaceOf, Busy
    <3> QED
      BY <1>4, <2>8, <3>1, <3>2 DEF WantImage
  <2>9. CASE FindCard(p)
    <3>1. todo[p] # << >>
      BY <2>1, <2>9 DEF FindCard, At, PlaceOf, Busy
    <3>2. (Rows /\ Cards1 /\ Runs /\ Ghosts /\ Files)' /\ setup' = setup
      <4>1. /\ (Rows /\ Cards1 /\ Files)' /\ setup' = setup /\ runs' = runs /\ present' = present
            /\ order' = order /\ torn' = torn
        BY <1>3, <2>9 DEF FindCard
      <4>2. \/ hiccups' = hiccups
            \/ /\ Slot(p) \in setup.hiccups
               /\ hiccups' = [hiccups EXCEPT ![p] = hiccups[p] \cup {Slot(p)}]
        BY <2>9 DEF FindCard
      <4>3. hiccups' \in [Importers -> SUBSET setup.hiccups]
        <5>1. CASE hiccups' = hiccups
          BY <1>3, <5>1
        <5>2. CASE /\ Slot(p) \in setup.hiccups
                   /\ hiccups' = [hiccups EXCEPT ![p] = hiccups[p] \cup {Slot(p)}]
          <6>1. hiccups[p] \cup {Slot(p)} \in SUBSET setup.hiccups
            BY <1>3, <2>1, <5>2
          <6> QED
            BY <1>3, <5>2, <6>1
        <5> QED
          BY <4>2, <5>1, <5>2
      <4> QED
        BY <1>3, <4>1, <4>3
    <3>3. TryFallback(p) \/ (Goto(p, "get") /\ UNCHANGED <<asked, todo, report>>)
      BY <2>9 DEF FindCard
    <3>4. (Walk /\ Lists)'
      BY <1>3, <2>1, <2>4, <2>9, <3>1, <3>3 DEF FindCard, Goto, Labels
    <3>5. PlaceOf(p)'
      BY <1>3, <1>6, <2>1, <2>4, <3>1, <3>2, <3>3 DEF Goto, PlaceOf, Busy
    <3> QED
      BY <1>4, <3>2, <3>4, <3>5
  <2>10. CASE GetImage(p)
    <3>1. todo[p] # << >>
      BY <2>1, <2>10 DEF GetImage, At, PlaceOf, Busy
    <3>2. (Rows /\ Cards1 /\ Runs /\ Ghosts /\ Files)' /\ setup' = setup
      BY <1>3, <2>10 DEF ghosts, GetImage
    <3>3. CASE TryFallback(p) /\ UNCHANGED <<got, why>>
      <4>1. (Walk /\ Lists)'
        BY <1>3, <2>4, <2>10, <3>1, <3>3 DEF GetImage
      <4>2. PlaceOf(p)'
        BY <1>6, <2>4, <3>1, <3>2, <3>3 DEF PlaceOf, Busy
      <4> QED
        BY <1>4, <3>2, <4>1, <4>2
    <3>4. CASE Fail(p, "type") /\ UNCHANGED <<asked, got, todo, report>>
      <4>1. (Walk /\ Lists)'
        BY <1>3, <2>1, <2>10, <3>4 DEF GetImage, Fail, Goto, Labels
      <4>2. PlaceOf(p)'
        BY <1>3, <1>6, <2>1, <3>2, <3>4 DEF Fail, Goto, PlaceOf, Busy
      <4> QED
        BY <1>4, <3>2, <4>1, <4>2
    <3>5. CASE /\ got' = [got EXCEPT ![p] = IF Offer(p) = "image" THEN asked[p] ELSE "broken"]
               /\ Goto(p, "open")
               /\ UNCHANGED <<asked, todo, report, why>>
      <4>1. got'[p] \in Langs \cup {"broken"} /\ got' \in [Importers -> Contents]
        BY <1>3, <2>1, <3>5 DEF Contents
      <4>2. (Walk /\ Lists)'
        BY <1>3, <2>1, <2>10, <3>5, <4>1 DEF GetImage, Goto, Labels
      <4>3. PlaceOf(p)'
        BY <1>3, <1>6, <2>1, <3>1, <3>2, <3>5, <4>1 DEF Goto, PlaceOf, Busy
      <4> QED
        BY <1>4, <3>2, <4>2, <4>3
    <3> QED
      BY <2>10, <3>3, <3>4, <3>5 DEF GetImage
  <2>11. CASE OpenFile(p)
    <3>1. (Rows /\ Cards1 /\ Runs /\ Ghosts /\ Lists /\ Files)' /\ setup' = setup
      BY <1>3, <2>11 DEF ghosts, OpenFile, Contents
    <3>2. Walk'
      BY <1>3, <2>1, <2>11 DEF OpenFile, Goto, Fail, Labels
    <3>3. PlaceOf(p)'
      BY <1>3, <1>6, <2>1, <2>11 DEF OpenFile, At, Goto, Fail, PlaceOf, Busy
    <3> QED
      BY <1>4, <3>1, <3>2, <3>3
  <2>12. CASE CopyFile(p)
    <3>1. (Rows /\ Cards1 /\ Runs /\ Ghosts /\ Walk /\ Lists /\ Files)'
      BY <1>3, <2>1, <2>12 DEF ghosts, CopyFile, Goto, Labels
    <3>2. PlaceOf(p)'
      BY <1>3, <1>6, <2>1, <2>12 DEF CopyFile, At, Goto, PlaceOf, Busy
    <3> QED
      BY <1>4, <2>12, <3>1, <3>2 DEF CopyFile
  <2>13. CASE DecodeImage(p)
    <3>1. todo[p] # << >>
      BY <2>1, <2>13 DEF DecodeImage, At, PlaceOf, Busy
    <3>2. (Rows /\ Cards1 /\ Runs /\ Ghosts /\ Files)' /\ setup' = setup
      BY <1>3, <2>13 DEF ghosts, DecodeImage
    <3>3. CASE Count(p, "missing") /\ UNCHANGED got
      <4>1. (Walk /\ Lists)'
        BY <1>3, <2>3, <2>13, <3>1, <3>3 DEF DecodeImage
      <4>2. PlaceOf(p)'
        BY <1>6, <2>3, <3>1, <3>2, <3>3 DEF PlaceOf, Busy
      <4> QED
        BY <1>4, <3>2, <4>1, <4>2
    <3>4. CASE /\ Decodes(file[Slot(p)])
               /\ got' = [got EXCEPT ![p] = file[Slot(p)]] /\ Goto(p, "add")
               /\ UNCHANGED <<todo, report>>
      <4>1. (Walk /\ Lists)'
        BY <1>3, <2>1, <2>13, <3>1, <3>4 DEF DecodeImage, Goto, Labels
      <4>2. PlaceOf(p)'
        BY <1>3, <1>6, <2>1, <3>1, <3>2, <3>4 DEF Goto, PlaceOf, Busy, Decodes
      <4> QED
        BY <1>4, <3>2, <4>1, <4>2
    <3> QED
      BY <2>13, <3>3, <3>4 DEF DecodeImage
  <2>14. CASE AddImage(p)
    <3>1. todo[p] # << >> /\ got[p] \in Langs
      BY <2>1, <2>14 DEF AddImage, At, PlaceOf, Busy
    <3>2. (Cards1 /\ Runs /\ Ghosts /\ Files)' /\ setup' = setup
      BY <1>3, <2>14 DEF ghosts, AddImage
    <3>3. CASE Fail(p, "duplicate") /\ UNCHANGED <<rows, todo, report>>
      <4>1. (Rows /\ Walk /\ Lists)'
        BY <1>3, <2>1, <2>14, <3>3 DEF AddImage, Fail, Goto, Labels
      <4>2. PlaceOf(p)'
        BY <1>3, <1>6, <2>1, <3>2, <3>3 DEF Fail, Goto, PlaceOf, Busy
      <4> QED
        BY <1>4, <3>2, <4>1, <4>2
    <3>4. CASE /\ ~ HasRow(Slot(p))
               /\ rows' = rows \cup {[slot |-> Slot(p), content |-> got[p]]}
               /\ Count(p, "imported")
               /\ UNCHANGED why
      <4>1. Rows'
        <5> DEFINE row == [slot |-> Slot(p), content |-> got[p]]
        <5>1. row \in [slot : Slots, content : Langs] /\ row.slot = Slot(p)
          BY <2>1, <3>1
        <5>2. rows' = rows \cup {row}
          BY <3>4
        <5> HIDE DEF row
        <5>3. \A r \in rows : r.slot # row.slot
          BY <3>4, <5>1 DEF HasRow
        <5> QED
          BY <1>3, <5>1, <5>2, <5>3
      <4>2. (Walk /\ Lists)'
        BY <1>3, <2>3, <2>14, <3>1, <3>4 DEF AddImage
      <4>3. PlaceOf(p)'
        BY <1>6, <2>3, <3>1, <3>2, <3>4 DEF PlaceOf, Busy
      <4> QED
        BY <1>4, <3>2, <4>1, <4>2, <4>3
    <3> QED
      BY <2>14, <3>3, <3>4 DEF AddImage
  <2>15. CASE Stop(p)
    <3>1. (Rows /\ Cards1 /\ Runs /\ Ghosts /\ Walk /\ Lists /\ Files)'
      BY <1>3, <2>15 DEF ghosts, Stop, Goto, Labels
    <3>2. PlaceOf(p)'
      BY <1>3, <1>6, <2>1, <2>15 DEF Stop, Goto, PlaceOf, Busy
    <3> QED
      BY <1>4, <2>15, <3>1, <3>2 DEF Stop
  <2>16. CASE Restart(p)
    <3>1. << >> \in Seq(Slots) /\ NoReport \in Reports /\ PagesBefore \in Nat
      <4>1. << >> \in Seq(Slots)
        OBVIOUS
      <4>2. PagesBefore \in Nat
        BY <1>2 DEF PagesBefore
      <4> QED
        BY <4>1, <4>2 DEF NoReport, Reports
    <3>2. (Rows /\ Files)' /\ setup' = setup
      BY <1>3, <2>16 DEF Restart
    <3>3. Cards1'
      BY <1>3, <2>1, <2>16 DEF Restart
    <3>4. Runs'
      <4>1. runs' = [runs EXCEPT ![p] = runs[p] + 1] /\ setup' = setup
            /\ runs[p] < setup.runs
        BY <2>16 DEF Restart
      <4>2. runs[p] + 1 \in 1..setup.runs
        BY <1>2, <2>2, <4>1
      <4> QED
        BY <1>3, <4>1, <4>2
    <3>5. Walk'
      BY <1>3, <2>1, <2>16 DEF Restart, Goto, Labels, Contents
    <3>6. Lists'
      BY <1>3, <2>1, <2>16, <3>1 DEF Restart
    <3>7. PlaceOf(p)'
      BY <1>3, <1>6, <2>1, <2>16 DEF Restart, Goto, PlaceOf, Busy
    <3>8. Ghosts'
      <4>1. << >> \in Seq(present) /\ {} \in SUBSET setup.hiccups /\ {} \in SUBSET Nat
        OBVIOUS
      <4>2. /\ hiccups' = [hiccups EXCEPT ![p] = {}] /\ torn' = [torn EXCEPT ![p] = {}]
            /\ order' = [order EXCEPT ![p] = << >>] /\ UNCHANGED <<setup, present>>
        BY <2>16 DEF Restart
      <4> QED
        BY <1>3, <4>1, <4>2
    <3> QED
      BY <1>4, <3>2, <3>3, <3>4, <3>5, <3>6, <3>7, <3>8
  <2> QED
    BY <1>6, <2>5, <2>6, <2>7, <2>8, <2>9, <2>10, <2>11, <2>12, <2>13, <2>14, <2>15, <2>16
       DEF Import
<1>7. CASE CardAdded
  <2>1. Cards1'
    BY <1>2, <1>3, <1>7 DEF CardAdded
  <2>2. (Rows /\ Runs /\ Walk /\ Lists /\ Files)' /\ Places'
    BY <1>3, <1>7 DEF CardAdded, Places, PlaceOf
  <2>3. Ghosts'
    <3>1. UNCHANGED <<setup, hiccups, order, torn>> /\ present \subseteq present'
      BY <1>7 DEF CardAdded, ghosts
    <3>2. Seq(present) \subseteq Seq(present')
      BY <3>1
    <3> QED
      BY <1>3, <3>1, <3>2
  <2> QED
    BY <1>4, <2>1, <2>2, <2>3
<1>8. CASE FaceDeleted
  <2>1. Cards1'
    BY <1>2, <1>3, <1>8 DEF FaceDeleted
  <2>2. (Rows /\ Runs /\ Ghosts /\ Walk /\ Lists /\ Files)' /\ Places'
    BY <1>3, <1>8 DEF ghosts, FaceDeleted, Places, PlaceOf
  <2> QED
    BY <1>4, <2>1, <2>2
<1>9. CASE UNCHANGED vars
  BY <1>9 DEF vars, ghosts, TypeOK, Places, PlaceOf
<1> QED
  BY <1>6, <1>7, <1>8, <1>9 DEF Next, Ended

-----------------------------------------------------------------------------
(* Files and rows. *)

\* What holds of the files and the rows but for the types.
StoreParts == FilesAreApart /\ NewOnes /\ RowsHaveTheirFile /\ ReplacingNeedsNoCleanup

\* Those that work are among those that run.
LEMMA WorkersRun ==
  ASSUME TypeInv
  PROVE  /\ setup \in Setups /\ setup.importers \subseteq Importers
         /\ \A q \in Importers : pc[q] \in Busy => q \in setup.importers /\ Slot(q) \in Slots
         /\ Holding \subseteq Busy
<1>1. setup \in Setups /\ setup.importers \subseteq Importers
  BY ConstantFacts DEF TypeInv, Places
<1>2. ASSUME NEW q \in Importers, pc[q] \in Busy PROVE q \in setup.importers /\ Slot(q) \in Slots
  <2>1. todo[q] \in Seq(Slots) /\ todo[q] # << >> /\ q \in setup.importers
    BY <1>2 DEF TypeInv, TypeOK, Places, PlaceOf, Busy
  <2> QED
    BY <2>1 DEF Slot
<1> QED
  BY <1>1, <1>2 DEF Holding, Busy

\* A step that leaves files and rows alone and takes no file into its hands.
LEMMA QuietStep ==
  ASSUME StoreInv, NEW p \in setup.importers, Import(p) \/ Stop(p) \/ Restart(p),
         setup' = setup, rows' = rows, file' = file, pc'[p] \notin Holding,
         pc'[p] \in Busy => Slot(p)' = Slot(p) /\ (pc[p] \in Busy \/ ~ HasRow(Slot(p))),
         Alone /\ setup.replace => why'[p] \notin {"exists", "duplicate"}
  PROVE  StoreParts'
<1>1. TypeInv /\ TypeOK /\ FilesAreApart /\ NewOnes /\ RowsHaveTheirFile /\ ReplacingNeedsNoCleanup
  BY DEF StoreInv, TypeInv
<1>2. p \in Importers
  BY <1>1, WorkersRun
<1>3. \A q \in Importers \ {p} :
        pc'[q] = pc[q] /\ why'[q] = why[q] /\ got'[q] = got[q] /\ Slot(q)' = Slot(q)
  BY <1>1, <1>2, OthersStay DEF Slot
<1>4. FilesAreApart'
  BY <1>1, <1>3 DEF FilesAreApart, HasRow, Alone
<1>5. NewOnes'
  BY <1>1, <1>3 DEF NewOnes, HasRow, Alone
<1>6. RowsHaveTheirFile' /\ ReplacingNeedsNoCleanup'
  BY <1>1, <1>3 DEF RowsHaveTheirFile, ReplacingNeedsNoCleanup, Alone
<1> QED
  BY <1>4, <1>5, <1>6 DEF StoreParts

\* A step that writes the file of the face it works on, or takes its content.
LEMMA FileStep ==
  ASSUME StoreInv, NEW p \in setup.importers, Import(p),
         setup' = setup, rows' = rows, why' = why, NEW content \in Contents \ {"none"},
         file' = [file EXCEPT ![Slot(p)] = content],
         pc[p] \in Busy, pc'[p] \in Holding, Slot(p)' = Slot(p),
         pc'[p] \in {"decode", "add"} => content = got'[p],
         Alone \/ ~ setup.replace =>
           /\ ~ HasRow(Slot(p))
           /\ \A q \in Importers \ {p} : pc[q] \in Holding => Slot(q) # Slot(p)
  PROVE  StoreParts'
<1>1. TypeInv /\ TypeOK /\ FilesAreApart /\ NewOnes /\ RowsHaveTheirFile /\ ReplacingNeedsNoCleanup
  BY DEF StoreInv, TypeInv
<1>2. p \in Importers /\ Slot(p) \in Slots
  BY <1>1, WorkersRun
<1>3. \A q \in Importers \ {p} :
        pc'[q] = pc[q] /\ why'[q] = why[q] /\ got'[q] = got[q] /\ Slot(q)' = Slot(q)
  BY <1>1, <1>2, OthersStay DEF Slot
<1>4. \A s \in Slots : file'[s] = IF s = Slot(p) THEN content ELSE file[s]
  BY <1>1, <1>2 DEF TypeOK
<1>5. \A q \in Importers : pc[q] \in Holding => Slot(q) \in Slots
  BY <1>1, WorkersRun
<1>6. FilesAreApart'
  <2> SUFFICES ASSUME Alone \/ ~ setup.replace, NEW q \in Importers, pc'[q] \in Holding
               PROVE  /\ file'[Slot(q)'] # "none"
                      /\ ~ HasRow(Slot(q))'
                      /\ pc'[q] \in {"decode", "add"} => file'[Slot(q)'] = got'[q]
                      /\ \A r \in Importers \ {q} : pc'[r] \in Holding => Slot(r)' # Slot(q)'
    BY DEF FilesAreApart, Alone, HasRow
  <2>1. CASE q = p
    BY <1>2, <1>3, <1>4, <2>1 DEF HasRow
  <2>2. CASE q # p
    BY <1>1, <1>2, <1>3, <1>4, <1>5, <2>2 DEF FilesAreApart, HasRow
  <2> QED
    BY <2>1, <2>2
<1>7. NewOnes'
  BY <1>1, <1>3 DEF NewOnes, HasRow, Alone
<1>8. RowsHaveTheirFile'
  <2> SUFFICES ASSUME Alone \/ ~ setup.replace, NEW r \in rows PROVE file'[r.slot] = r.content
    BY DEF RowsHaveTheirFile, Alone
  <2>1. r.slot \in Slots /\ r.slot # Slot(p) /\ file[r.slot] = r.content
    BY <1>1 DEF RowsHaveTheirFile, HasRow, TypeOK
  <2> QED
    BY <1>4, <2>1
<1>9. ReplacingNeedsNoCleanup'
  BY <1>1 DEF ReplacingNeedsNoCleanup, Alone
<1> QED
  BY <1>6, <1>7, <1>8, <1>9 DEF StoreParts

\* No row is about what is worked on alone, nor about a file that is not there.
LEMMA NoRowYet ==
  ASSUME StoreInv, NEW p \in setup.importers, pc[p] = "open", MayOpen(Slot(p)),
         Alone \/ ~ setup.replace
  PROVE  /\ ~ HasRow(Slot(p))
         /\ \A q \in Importers \ {p} : pc[q] \in Holding => Slot(q) # Slot(p)
<1>1. TypeInv /\ TypeOK /\ FilesAreApart /\ NewOnes /\ RowsHaveTheirFile
  BY DEF StoreInv, TypeInv
<1>2. p \in Importers /\ pc[p] \in Busy /\ setup \in Setups
  BY <1>1, WorkersRun DEF Busy
<1>3. CASE Alone
  <2>1. ~ HasRow(Slot(p))
    BY <1>1, <1>2, <1>3 DEF NewOnes
  <2>2. \A q \in Importers : pc[q] \in Holding => q = p
    BY <1>1, <1>2, <1>3, WorkersRun, OnlyOne
  <2> QED
    BY <2>1, <2>2
<1>4. CASE ~ setup.replace
  <2>1. file[Slot(p)] = "none"
    BY <1>4 DEF MayOpen
  <2>2. ~ HasRow(Slot(p))
    BY <1>1, <1>4, <2>1 DEF RowsHaveTheirFile, HasRow, TypeOK, Langs
  <2> QED
    BY <1>1, <1>4, <2>1, <2>2 DEF FilesAreApart
<1> QED
  BY <1>3, <1>4

\* The step that adds the row of the file it has written.
LEMMA RowStep ==
  ASSUME StoreInv, NEW p \in setup.importers, AddImage(p), ~ HasRow(Slot(p))
  PROVE  StoreParts'
<1>1. TypeInv /\ TypeOK /\ FilesAreApart /\ NewOnes /\ RowsHaveTheirFile /\ ReplacingNeedsNoCleanup
  BY DEF StoreInv, TypeInv
<1> DEFINE row == [slot |-> Slot(p), content |-> got[p]]
<1>2. /\ pc[p] = "add" /\ setup' = setup /\ file' = file /\ why' = why
      /\ rows' = rows \cup {row} /\ Count(p, "imported")
  BY DEF AddImage, At
<1>3. p \in Importers /\ pc[p] \in Holding /\ setup \in Setups
  BY <1>1, <1>2, WorkersRun DEF Holding
<1>4. pc'[p] = "check"
  BY <1>1, <1>2, <1>3 DEF Count, Goto, TypeOK
<1>5. \A q \in Importers \ {p} :
        pc'[q] = pc[q] /\ got'[q] = got[q] /\ Slot(q)' = Slot(q)
  BY <1>1, <1>3, OthersStay DEF Slot, Import
<1>6. row.slot = Slot(p) /\ row.content = got[p]
  OBVIOUS
<1> HIDE DEF row
<1>7. FilesAreApart'
  <2> SUFFICES ASSUME Alone \/ ~ setup.replace, NEW q \in Importers, pc'[q] \in Holding
               PROVE  /\ file'[Slot(q)'] # "none"
                      /\ ~ HasRow(Slot(q))'
                      /\ pc'[q] \in {"decode", "add"} => file'[Slot(q)'] = got'[q]
                      /\ \A r \in Importers \ {q} : pc'[r] \in Holding => Slot(r)' # Slot(q)'
    BY <1>2 DEF FilesAreApart, Alone
  <2>1. q # p /\ pc[q] \in Holding
    BY <1>4, <1>5 DEF Holding
  <2>2. Slot(q) # Slot(p) /\ ~ HasRow(Slot(q))
    BY <1>1, <1>3, <2>1 DEF FilesAreApart
  <2>3. ~ HasRow(Slot(q))'
    BY <1>2, <1>5, <1>6, <2>1, <2>2 DEF HasRow
  <2> QED
    BY <1>1, <1>2, <1>4, <1>5, <2>1, <2>3 DEF FilesAreApart, Holding
<1>8. NewOnes'
  <2> SUFFICES ASSUME Alone, NEW q \in Importers, pc'[q] \in Busy PROVE FALSE
    BY <1>2 DEF NewOnes, Alone
  <2>1. q # p
    BY <1>4 DEF Busy
  <2>2. q \in setup.importers
    BY <1>1, <1>5, <2>1, WorkersRun
  <2> QED
    BY <1>3, <2>1, <2>2, OnlyOne
<1>9. RowsHaveTheirFile'
  <2>1. Alone \/ ~ setup.replace => file[row.slot] = row.content
    BY <1>1, <1>2, <1>3, <1>6 DEF FilesAreApart
  <2> QED
    BY <1>1, <1>2, <2>1 DEF RowsHaveTheirFile, Alone
<1>10. ReplacingNeedsNoCleanup'
  BY <1>1, <1>2 DEF ReplacingNeedsNoCleanup, Alone
<1> QED
  BY <1>7, <1>8, <1>9, <1>10 DEF StoreParts

\* Every step keeps what holds of the files and the rows.
LEMMA StoreNext == StoreInv /\ [Next]_vars => StoreInv'
<1> SUFFICES ASSUME StoreInv, [Next]_vars PROVE StoreInv'
  OBVIOUS
<1>1. TypeInv /\ TypeOK /\ Places
  BY DEF StoreInv, TypeInv
<1>2. TypeInv'
  BY <1>1, TypeNext
<1>3. ASSUME StoreParts' PROVE StoreInv'
  BY <1>2, <1>3 DEF StoreInv, StoreParts
<1>4. ASSUME NEW p \in setup.importers, Import(p) \/ Stop(p) \/ Restart(p) PROVE StoreParts'
  <2>1. /\ p \in Importers /\ setup \in Setups
        /\ pc[p] \in Busy => Slot(p) \in Slots
        /\ Holding = {"copy", "decode", "add"}
        /\ Busy = {"find", "get", "open", "copy", "decode", "add"}
    BY <1>1, WorkersRun DEF Holding, Busy
  <2>2. Alone /\ setup.replace => why[p] \notin {"exists", "duplicate"}
    BY <2>1 DEF StoreInv, ReplacingNeedsNoCleanup
  <2> DEFINE Quiet == /\ setup' = setup /\ rows' = rows /\ file' = file /\ pc'[p] \notin Holding
                      /\ pc'[p] \in Busy => /\ Slot(p)' = Slot(p)
                                            /\ pc[p] \in Busy \/ ~ HasRow(Slot(p))
                      /\ Alone /\ setup.replace => why'[p] \notin {"exists", "duplicate"}
  <2>3. ASSUME Quiet PROVE StoreParts'
    BY <1>4, <2>3, QuietStep
  <2>4. CASE ReadPage(p)
    <3>1. Quiet
      BY <1>1, <2>1, <2>2, <2>4 DEF ReadPage, Goto, TypeOK
    <3> QED
      BY <2>3, <3>1
  <2>5. CASE PageDone(p)
    <3>1. Quiet
      BY <1>1, <2>1, <2>2, <2>5 DEF PageDone, Goto, TypeOK
    <3> QED
      BY <2>3, <3>1
  <2>6. CASE SkipImage(p)
    <3>1. Quiet
      BY <1>1, <2>1, <2>2, <2>6 DEF SkipImage, Count, Goto, TypeOK
    <3> QED
      BY <2>3, <3>1
  <2>7. CASE WantImage(p)
    <3>1. Quiet
      BY <1>1, <2>1, <2>2, <2>7 DEF WantImage, IsImagePresent, Goto, TypeOK, Slot
    <3> QED
      BY <2>3, <3>1
  <2>8. CASE FindCard(p)
    <3>1. Quiet
      BY <1>1, <2>1, <2>2, <2>8 DEF FindCard, TryFallback, Count, At, Goto, TypeOK, Slot
    <3> QED
      BY <2>3, <3>1
  <2>9. CASE GetImage(p)
    <3>1. Quiet
      BY <1>1, <2>1, <2>2, <2>9 DEF GetImage, TryFallback, Count, Fail, At, Goto, TypeOK, Slot
    <3> QED
      BY <2>3, <3>1
  <2>10. CASE OpenFile(p)
    <3>1. CASE MayOpen(Slot(p))
      <4>1. /\ pc[p] = "open" /\ pc'[p] = "copy" /\ Slot(p)' = Slot(p)
            /\ file' = [file EXCEPT ![Slot(p)] = "partial"]
            /\ setup' = setup /\ rows' = rows /\ why' = why
        BY <1>1, <2>1, <2>10, <3>1 DEF OpenFile, At, Goto, TypeOK, Slot
      <4>2. "partial" \in Contents \ {"none"}
        BY DEF Contents
      <4>3. Alone \/ ~ setup.replace =>
              /\ ~ HasRow(Slot(p))
              /\ \A q \in Importers \ {p} : pc[q] \in Holding => Slot(q) # Slot(p)
        BY <3>1, <4>1, NoRowYet
      <4>4. Import(p)
        BY <2>10 DEF Import
      <4> QED
        BY <2>1, <4>1, <4>2, <4>3, <4>4, FileStep
    <3>2. CASE ~ MayOpen(Slot(p))
      <4>1. Quiet
        BY <1>1, <2>1, <2>10, <3>2 DEF OpenFile, MayOpen, Fail, Goto, TypeOK, Slot
      <4> QED
        BY <2>3, <4>1
    <3> QED
      BY <3>1, <3>2
  <2>11. CASE CopyFile(p)
    <3>1. /\ pc[p] = "copy" /\ pc'[p] = "decode" /\ Slot(p)' = Slot(p) /\ got'[p] = got[p]
          /\ file' = [file EXCEPT ![Slot(p)] = got[p]]
          /\ setup' = setup /\ rows' = rows /\ why' = why
      BY <1>1, <2>1, <2>11 DEF CopyFile, At, Goto, TypeOK, Slot
    <3>2. got[p] \in Contents \ {"none"}
      BY <1>1, <2>1, <3>1 DEF Places, PlaceOf, Contents, Langs
    <3>3. Alone \/ ~ setup.replace =>
            /\ ~ HasRow(Slot(p))
            /\ \A q \in Importers \ {p} : pc[q] \in Holding => Slot(q) # Slot(p)
      BY <2>1, <3>1 DEF StoreInv, FilesAreApart
    <3>4. Import(p)
      BY <2>11 DEF Import
    <3> QED
      BY <2>1, <3>1, <3>2, <3>3, <3>4, FileStep
  <2>12. CASE DecodeImage(p)
    <3>1. CASE Decodes(file[Slot(p)])
      <4>1. /\ pc[p] = "decode" /\ pc'[p] = "add" /\ Slot(p)' = Slot(p) /\ got'[p] = file[Slot(p)]
            /\ file' = [file EXCEPT ![Slot(p)] = file[Slot(p)]]
            /\ setup' = setup /\ rows' = rows /\ why' = why
        BY <1>1, <2>1, <2>12, <3>1 DEF DecodeImage, At, Goto, TypeOK, Slot
      <4>2. file[Slot(p)] \in Contents \ {"none"}
        BY <1>1, <2>1, <3>1, <4>1 DEF TypeOK, Decodes, Contents, Langs
      <4>3. Alone \/ ~ setup.replace =>
              /\ ~ HasRow(Slot(p))
              /\ \A q \in Importers \ {p} : pc[q] \in Holding => Slot(q) # Slot(p)
        BY <2>1, <4>1 DEF StoreInv, FilesAreApart
      <4>4. Import(p)
        BY <2>12 DEF Import
      <4> QED
        BY <2>1, <4>1, <4>2, <4>3, <4>4, FileStep
    <3>2. CASE ~ Decodes(file[Slot(p)])
      <4>1. Quiet
        BY <1>1, <2>1, <2>2, <2>12, <3>2 DEF DecodeImage, Count, Goto, TypeOK
      <4> QED
        BY <2>3, <4>1
    <3> QED
      BY <3>1, <3>2
  <2>13. CASE AddImage(p)
    <3>1. CASE HasRow(Slot(p))
      <4>1. pc[p] = "add"
        BY <2>13 DEF AddImage, At
      <4>2. ~ Alone
        BY <2>1, <3>1, <4>1 DEF StoreInv, NewOnes
      <4>3. Quiet
        BY <1>1, <2>1, <2>13, <3>1, <4>2 DEF AddImage, Fail, Goto, TypeOK
      <4> QED
        BY <2>3, <4>3
    <3>2. CASE ~ HasRow(Slot(p))
      BY <2>13, <3>2, RowStep
    <3> QED
      BY <3>1, <3>2
  <2>14. CASE Stop(p)
    <3>1. Quiet
      BY <1>1, <2>1, <2>2, <2>14 DEF Stop, Goto, TypeOK
    <3> QED
      BY <2>3, <3>1
  <2>15. CASE Restart(p)
    <3>1. Quiet
      BY <1>1, <2>1, <2>2, <2>15 DEF Restart, Goto, TypeOK
    <3> QED
      BY <2>3, <3>1
  <2> QED
    BY <1>4, <2>4, <2>5, <2>6, <2>7, <2>8, <2>9, <2>10, <2>11, <2>12, <2>13, <2>14, <2>15
       DEF Import
<1>5. ASSUME UNCHANGED <<setup, rows, file, pc, todo, got, why>> PROVE StoreParts'
  BY <1>5 DEF StoreInv, StoreParts, FilesAreApart, NewOnes, RowsHaveTheirFile,
     ReplacingNeedsNoCleanup, HasRow, Alone, Slot
<1>6. CASE CardAdded \/ FaceDeleted \/ UNCHANGED vars
  BY <1>3, <1>5, <1>6 DEF CardAdded, FaceDeleted, vars
<1> QED
  BY <1>3, <1>4, <1>6 DEF Next, Ended

\* What holds at the beginning, where there are neither.
LEMMA StoreInit == Init => StoreInv
<1> SUFFICES ASSUME Init PROVE StoreInv
  OBVIOUS
<1>1. TypeInv
  BY TypeInit
<1>2. \A p \in Importers : pc[p] \notin Busy /\ pc[p] \notin Holding /\ why[p] = ""
  BY DEF Init, Busy, Holding
<1> QED
  BY <1>1, <1>2 DEF Init, StoreInv, FilesAreApart, NewOnes, RowsHaveTheirFile,
     ReplacingNeedsNoCleanup

\* Every variable has its type; no face has two rows for a language.
THEOREM TypeCorrect == Spec => []TypeOK
<1>1. TypeInv /\ [Next]_vars => TypeInv'
  BY TypeNext
<1>2. TypeInv => TypeOK
  BY DEF TypeInv
<1> QED
  BY TypeInit, <1>1, <1>2, PTL DEF Spec

\* However often the import is interrupted and started again, every row has its
\* file, complete and the one that was hashed.
THEOREM RowsAreTrue == Spec => []RowsHaveTheirFile
<1>1. StoreInv => RowsHaveTheirFile
  BY DEF StoreInv
<1> QED
  BY StoreInit, StoreNext, <1>1, PTL DEF Spec

\* An import alone that replaces files fails over nothing that is left behind.
THEOREM NothingInTheWay == Spec => []ReplacingNeedsNoCleanup
<1>1. StoreInv => ReplacingNeedsNoCleanup
  BY DEF StoreInv
<1> QED
  BY StoreInit, StoreNext, <1>1, PTL DEF Spec
-----------------------------------------------------------------------------
(* Progress. *)

\* There are finitely many faces.
LEMMA FinitelyManySlots == IsFiniteSet(Slots)
<1> DEFINE faces == [c \in Cards |-> ToSet(FacesOf[c])]
           all == {ToSet(FacesOf[c]) : c \in Cards}
<1>1. faces \in Surjection(Cards, all)
  BY DEF Surjection
<1> HIDE DEF faces
<1>2. IsFiniteSet(all)
  BY <1>1, ConstantFacts, FS_Surjection
<1>3. \A c \in Cards : IsFiniteSet(ToSet(FacesOf[c]))
  BY ConstantFacts, LengthOfNoRepeat
<1>4. IsFiniteSet(Faces)
  BY <1>2, <1>3, FS_UNION DEF Faces
<1>5. IsFiniteSet(Langs)
  <2>1. IsFiniteSet({"deu"} \cup {"eng"})
    BY FS_EmptySet, FS_Singleton, FS_Union
  <2> QED
    BY <2>1 DEF Langs
<1> QED
  BY <1>4, <1>5, FS_Product DEF Slots

\* What is treated are faces.
LEMMA TreatedAreSlots ==
  ASSUME TypeInv, NEW q \in setup.importers
  PROVE  AllTreated(q) \subseteq Slots /\ q \in Importers
<1>1. q \in Importers
  BY WorkersRun
<1>2. Promised(q) \subseteq Cards /\ Passed(q) \subseteq Cards
  BY <1>1 DEF TypeInv, TypeOK, Promised, Expected, Passed
<1>3. \A c \in Cards : SlotsOf(c) \subseteq Slots
  BY DEF SlotsOf, Slots, Faces
<1>4. SlotsOfAll(Promised(q)) \subseteq Slots /\ SlotsOfAll(Passed(q)) \subseteq Slots
  BY <1>2, <1>3 DEF SlotsOfAll
<1> QED
  BY <1>1, <1>4 DEF AllTreated, Treated

\* Reading a page treats nothing: what is on it is to be done, and what is before
\* it, or before the end, was there earlier.
LEMMA ReadPageTreats ==
  ASSUME TypeInv, NEW p \in setup.importers, Ordering(p), ReadPage(p)
  PROVE  AllTreated(p)' \subseteq AllTreated(p) /\ Ordering(p)'
<1> DEFINE n == page[p]
           o == n * setup.size
<1>1. /\ TypeOK /\ p \in Importers /\ setup \in Setups /\ present \subseteq Cards /\ n \in Nat
      /\ todo[p] = << >> /\ known[p] \subseteq present /\ pc[p] = "page"
  BY WorkersRun DEF TypeInv, TypeOK, Places, PlaceOf, ReadPage, At
<1>2. PICK s \in Orders :
        LET cards == PageOf(s, n + 1)
        IN  /\ todo' = [todo EXCEPT ![p] = Jobs(cards)]
            /\ Goto(p, IF cards = << >> THEN "done" ELSE "check")
            /\ order' = [order EXCEPT ![p] = s]
            /\ torn' = [torn EXCEPT ![p] = @ \cup TornBy(s, p)]
  BY DEF ReadPage
<1> DEFINE cards == PageOf(s, n + 1)
<1>3. /\ cards \in Seq(present)
      /\ \A k \in DOMAIN s : o < k /\ k <= (n + 1) * setup.size => s[k] \in ToSet(cards)
      /\ cards = << >> => \A k \in DOMAIN s : k <= o
  BY <1>1, PageFacts
<1> HIDE DEF cards
<1>4. /\ todo'[p] = Jobs(cards) /\ page'[p] = n + 1
      /\ pc'[p] = IF cards = << >> THEN "done" ELSE "check"
      /\ order'[p] = s /\ torn'[p] = torn[p] \cup TornBy(s, p)
      /\ UNCHANGED <<setup, present, gone, known>>
  BY <1>1, <1>2 DEF TypeOK, ReadPage, Goto, cards
<1>5. ToSet(Jobs(cards)) = SlotsOfAll(ToSet(cards))
  BY <1>1, <1>3, JobsFacts
<1>6. Expected(p)' = Expected(p)
  BY <1>4 DEF Expected, PagesBefore
<1>7. /\ \A c : c \in Promised(p)' <=>
           c \in Expected(p) /\ CodeOf[c] \notin torn[p] /\ CodeOf[c] \notin TornBy(s, p)
      /\ Promised(p)' \subseteq Promised(p)
  BY <1>4, <1>6 DEF Promised
<1>8. \A X : SlotsOfAll(X)' = SlotsOfAll(X)
  BY <1>4 DEF SlotsOfAll
<1>9. /\ ToSet(s) = present /\ Expected(p) \subseteq present
      /\ \A i, k \in DOMAIN s : i < k => s[i] # s[k] /\ CodeOf[s[i]] <= CodeOf[s[k]]
  BY <1>1, OrderFacts DEF Expected
<1>10. AllTreated(p) = SlotsOfAll(Passed(p))
  BY <1>1 DEF AllTreated, Treated, ToSet
<1>11. Ordering(p)'
  BY <1>1, <1>4, <1>9 DEF Ordering
<1>12. ASSUME NEW k \in DOMAIN s, k <= o, s[k] \in Promised(p)' PROVE s[k] \in Passed(p)
  <2>1. s[k] \in ReadUpTo(p)
    BY <1>1, <1>7, <1>12, NotBack
  <2> QED
    BY <1>7, <1>12, <2>1 DEF Passed
<1>13. CASE cards = << >>
  <2>1. Promised(p)' \subseteq Passed(p)
    BY <1>3, <1>7, <1>9, <1>12, <1>13 DEF ToSet
  <2>2. AllTreated(p)' = SlotsOfAll(Promised(p)')
    BY <1>4, <1>8, <1>13 DEF AllTreated
  <2> QED
    BY <1>10, <1>11, <2>1, <2>2 DEF SlotsOfAll
<1>14. CASE cards # << >>
  <2>1. Passed(p)' \subseteq Passed(p) \cup ToSet(cards)
    <3> SUFFICES ASSUME NEW k \in DOMAIN s, k <= (n + 1) * setup.size, s[k] \in Promised(p)'
                 PROVE  s[k] \in Passed(p) \cup ToSet(cards)
      BY <1>4 DEF Passed, ReadUpTo
    <3>1. o \in Nat /\ k \in Nat
      <4>1. setup.size \in Nat /\ s \in Seq(present)
        BY <1>1, ConstantFacts, OrderFacts
      <4> QED
        BY <1>1, <4>1
    <3>2. CASE k <= o
      BY <1>12, <3>2
    <3>3. CASE ~ (k <= o)
      <4>1. o < k
        BY <3>1, <3>3
      <4> QED
        BY <1>3, <4>1
    <3> QED
      BY <3>2, <3>3
  <2>2. AllTreated(p)' = SlotsOfAll(Passed(p)') \ SlotsOfAll(ToSet(cards))
    BY <1>4, <1>5, <1>8, <1>14 DEF AllTreated, Treated
  <2> QED
    BY <1>10, <1>11, <2>1, <2>2 DEF SlotsOfAll
<1> QED
  BY <1>13, <1>14

\* Who does not move treats what it treated, less what is deleted.
LEMMA OthersTreat ==
  ASSUME NEW q \in setup.importers,
         setup' = setup, pc'[q] = pc[q], page'[q] = page[q], todo'[q] = todo[q], known'[q] = known[q],
         order'[q] = order[q], torn'[q] = torn[q], gone \subseteq gone'
  PROVE  /\ AllTreated(q)' \subseteq AllTreated(q)
         /\ Ordering(q) => Ordering(q)'
<1>1. Promised(q)' = Promised(q) /\ PagesBefore' = PagesBefore
  BY DEF Promised, Expected, PagesBefore
<1>2. Passed(q)' = Passed(q)
  BY <1>1 DEF Passed, ReadUpTo
<1>3. \A X : SlotsOfAll(X)' \subseteq SlotsOfAll(X)
  BY DEF SlotsOfAll
<1>4. /\ SlotsOfAll(Passed(q))' \subseteq SlotsOfAll(Passed(q))
      /\ SlotsOfAll(Promised(q))' \subseteq SlotsOfAll(Promised(q))
  BY <1>1, <1>2 DEF SlotsOfAll
<1>5. Ordering(q) => Ordering(q)'
  BY <1>1 DEF Ordering
<1> QED
  BY <1>4, <1>5 DEF AllTreated, Treated

\* A face that is counted is treated, and nothing else.
LEMMA CountTreats ==
  ASSUME TypeInv, NEW p \in setup.importers, NEW field, Count(p, field),
         pc[p] \in Busy \/ (pc[p] = "check" /\ todo[p] # << >>),
         UNCHANGED <<setup, present, gone, page, known, order, torn>>
  PROVE  AllTreated(p)' \subseteq AllTreated(p) \cup {Slot(p)}
<1>1. /\ p \in Importers /\ todo[p] \in Seq(Slots) /\ todo[p] # << >> /\ pc[p] # "done"
  BY WorkersRun DEF TypeInv, TypeOK, Places, PlaceOf, Busy
<1>2. todo'[p] = Tail(todo[p]) /\ pc'[p] = "check"
  BY <1>1 DEF TypeInv, TypeOK, Count, Goto
<1>3. ToSet(todo[p]) \subseteq ToSet(Tail(todo[p])) \cup {Slot(p)}
  BY <1>1, HeadAndTail DEF Slot
<1>4. Promised(p)' = Promised(p)
  BY DEF Promised, Expected, PagesBefore
<1>5. Passed(p)' = Passed(p)
  BY <1>4 DEF Passed, ReadUpTo
<1>6. SlotsOfAll(Passed(p))' = SlotsOfAll(Passed(p))
  BY <1>5 DEF SlotsOfAll
<1> QED
  BY <1>1, <1>2, <1>3, <1>6 DEF AllTreated, Treated

\* A process that begins again has read and treated nothing yet.
LEMMA RestartTreats ==
  ASSUME TypeInv, NEW p \in setup.importers, Restart(p)
  PROVE  AllTreated(p)' = {} /\ Total(p)' = 0 /\ Ordering(p)'
<1>1. /\ pc'[p] = "page" /\ page'[p] = PagesBefore /\ PagesBefore' = PagesBefore
      /\ order'[p] = << >> /\ report'[p] = NoReport
  BY WorkersRun DEF TypeInv, TypeOK, Restart, Goto, PagesBefore
<1>2. AllTreated(p)' = {}
  BY <1>1 DEF AllTreated, Treated, Passed, ReadUpTo, SlotsOfAll
<1>3. Total(p)' = 0
  BY <1>1 DEF Total, NoReport
<1> QED
  BY <1>1, <1>2, <1>3 DEF Ordering

\* What is left after a request for a face has failed, if no error was in passing.
LEMMA Fallback ==
  ASSUME StoreInv, NEW p \in setup.importers, Answers(p), pc[p] \in {"find", "get"},
         Offer(p) \in {"missing", "lost"}
  PROVE  /\ asked[p] # FallbackLang => setup.library[Slot(p)] \in {"missing", "lost"}
         /\ asked[p] = FallbackLang => ~ Obtainable(Slot(p))
<1>1. p \in Importers /\ Slot(p) \in Slots
  BY WorkersRun DEF StoreInv, Busy
<1>2. Slot(p) = <<Slot(p)[1], Slot(p)[2]>>
  BY <1>1 DEF Slots
<1>3. asked[p] = Slot(p)[2] \/ (asked[p] = FallbackLang /\ setup.library[Slot(p)] \in {"missing", "lost"})
  BY DEF Answers
<1>4. CASE asked[p] = Slot(p)[2]
  <2>1. Offer(p) = setup.library[Slot(p)]
    BY <1>2, <1>4 DEF Offer
  <2>2. asked[p] = FallbackLang => setup.library[<<Slot(p)[1], FallbackLang>>] = setup.library[Slot(p)]
    BY <1>2, <1>4
  <2> QED
    BY <2>1, <2>2 DEF Obtainable
<1>5. CASE asked[p] = FallbackLang /\ setup.library[Slot(p)] \in {"missing", "lost"}
  <2>1. setup.library[<<Slot(p)[1], FallbackLang>>] # "image"
    BY <1>5 DEF Offer
  <2> QED
    BY <1>5, <2>1 DEF Obtainable
<1> QED
  BY <1>3, <1>4, <1>5

\* What is no image is not to be had.
LEMMA BrokenIsNone ==
  ASSUME StoreInv, NEW p \in setup.importers, Answers(p), pc[p] = "get", Offer(p) = "broken"
  PROVE  ~ Obtainable(Slot(p))
<1>1. p \in Importers /\ Slot(p) \in Slots
  BY WorkersRun DEF StoreInv, Busy
<1>2. Slot(p) = <<Slot(p)[1], Slot(p)[2]>>
  BY <1>1 DEF Slots
<1>3. asked[p] = Slot(p)[2] \/ (asked[p] = FallbackLang /\ setup.library[Slot(p)] \in {"missing", "lost"})
  BY DEF Answers
<1>4. CASE asked[p] = Slot(p)[2]
  <2>1. setup.library[Slot(p)] = "broken"
    BY <1>2, <1>4 DEF Offer
  <2> QED
    BY <2>1 DEF Obtainable
<1>5. CASE asked[p] = FallbackLang /\ setup.library[Slot(p)] \in {"missing", "lost"}
  <2>1. setup.library[<<Slot(p)[1], FallbackLang>>] # "image"
    BY <1>5 DEF Offer
  <2> QED
    BY <1>5, <2>1 DEF Obtainable
<1> QED
  BY <1>3, <1>4, <1>5

\* Every step keeps the right language asked for.
LEMMA AnswersNext ==
  ASSUME StoreInv, NEW p \in setup.importers, Import(p) \/ Stop(p) \/ Restart(p),
         Slot(p) \notin hiccups[p] => Answers(p), Slot(p)' \notin hiccups'[p]
  PROVE  Answers(p)'
<1>1. /\ TypeOK /\ p \in Importers /\ PlaceOf(p)
      /\ pc[p] \in Busy => Slot(p) \in Slots
      /\ Busy = {"find", "get", "open", "copy", "decode", "add"}
  BY WorkersRun DEF StoreInv, TypeInv, Places, Busy
<1>2. setup' = setup
  BY DEF Import, ReadPage, PageDone, SkipImage, WantImage, FindCard, GetImage, OpenFile, CopyFile,
     DecodeImage, AddImage, Stop, Restart
<1>3. ASSUME pc'[p] \notin {"find", "get", "open", "copy", "decode"} PROVE Answers(p)'
  BY <1>3 DEF Answers
<1>4. ASSUME pc'[p] \in {"open", "copy", "decode"}, pc[p] \in {"open", "copy", "decode"},
             got'[p] = got[p], Slot(p)' = Slot(p), hiccups' = hiccups
      PROVE  Answers(p)'
  BY <1>2, <1>4 DEF Answers, Obtainable
<1>5. ASSUME TryFallback(p), Offer(p) \in {"missing", "lost"}, pc[p] \in {"find", "get"},
             hiccups' = hiccups
      PROVE  Answers(p)'
  <2>1. CASE asked[p] # FallbackLang
    <3>1. asked'[p] = FallbackLang /\ pc'[p] = "find" /\ Slot(p)' = Slot(p)
      BY <1>1, <1>5, <2>1 DEF TypeOK, TryFallback, Goto, Slot
    <3>2. setup.library[Slot(p)] \in {"missing", "lost"}
      BY <1>5, <2>1, <3>1, Fallback
    <3> QED
      BY <1>2, <3>1, <3>2 DEF Answers
  <2>2. CASE asked[p] = FallbackLang
    BY <1>1, <1>3, <1>5, <2>2 DEF TypeOK, TryFallback, Count, Goto
  <2> QED
    BY <2>1, <2>2
<1>6. CASE ReadPage(p)
  BY <1>1, <1>3, <1>6 DEF TypeOK, ReadPage, Goto
<1>7. CASE PageDone(p)
  BY <1>1, <1>3, <1>7 DEF TypeOK, PageDone, Goto
<1>8. CASE SkipImage(p)
  BY <1>1, <1>3, <1>8 DEF TypeOK, SkipImage, Count, Goto
<1>9. CASE WantImage(p)
  <2>1. asked'[p] = Slot(p)[2] /\ pc'[p] = "find" /\ Slot(p)' = Slot(p)
    BY <1>1, <1>9 DEF TypeOK, WantImage, Goto, Slot
  <2> QED
    BY <2>1 DEF Answers
<1>10. CASE FindCard(p)
  <2>1. pc[p] = "find"
    BY <1>10 DEF FindCard, At
  <2>2. CASE Goto(p, "get") /\ UNCHANGED <<asked, todo, hiccups>>
    <3>1. asked'[p] = asked[p] /\ pc'[p] = "get" /\ Slot(p)' = Slot(p)
      BY <1>1, <2>2 DEF TypeOK, Goto, Slot
    <3> QED
      BY <1>2, <2>1, <2>2, <3>1 DEF Answers
  <2>3. CASE Offer(p) = "missing" /\ TryFallback(p) /\ hiccups' = hiccups
    BY <1>5, <2>1, <2>3
  <2>4. CASE TryFallback(p) /\ hiccups' = [hiccups EXCEPT ![p] = hiccups[p] \cup {Slot(p)}]
    <3>1. CASE asked[p] # FallbackLang
      <4>1. Slot(p)' = Slot(p) /\ Slot(p) \in hiccups'[p]
        BY <1>1, <2>4, <3>1 DEF TypeOK, TryFallback, Slot
      <4> QED
        BY <4>1
    <3>2. CASE asked[p] = FallbackLang
      BY <1>1, <1>3, <2>4, <3>2 DEF TypeOK, TryFallback, Count, Goto
    <3> QED
      BY <3>1, <3>2
  <2> QED
    BY <1>10, <2>2, <2>3, <2>4 DEF FindCard
<1>11. CASE GetImage(p)
  <2>1. pc[p] = "get" /\ hiccups' = hiccups
    BY <1>11 DEF GetImage, At, ghosts
  <2>2. CASE Offer(p) = "lost" /\ TryFallback(p)
    BY <1>5, <2>1, <2>2
  <2>3. CASE Fail(p, "type")
    BY <1>1, <1>3, <2>3 DEF TypeOK, Fail, Goto
  <2>4. CASE /\ Offer(p) \in {"image", "broken"}
             /\ got' = [got EXCEPT ![p] = IF Offer(p) = "image" THEN asked[p] ELSE "broken"]
             /\ Goto(p, "open")
             /\ UNCHANGED todo
    <3>1. pc'[p] = "open" /\ Slot(p)' = Slot(p) /\ asked[p] # "broken"
      BY <1>1, <2>4 DEF TypeOK, Goto, Slot, Langs
    <3>2. got'[p] = "broken" => Offer(p) = "broken"
      BY <1>1, <2>4, <3>1 DEF TypeOK
    <3>3. got'[p] = "broken" => ~ Obtainable(Slot(p))
      BY <2>1, <3>1, <3>2, BrokenIsNone
    <3> QED
      BY <1>2, <3>1, <3>3 DEF Answers, Obtainable
  <2> QED
    BY <1>11, <2>2, <2>3, <2>4 DEF GetImage
<1>12. CASE OpenFile(p)
  BY <1>1, <1>3, <1>4, <1>12 DEF TypeOK, ghosts, OpenFile, At, Fail, Goto, Slot
<1>13. CASE CopyFile(p)
  BY <1>1, <1>3, <1>4, <1>13 DEF TypeOK, ghosts, CopyFile, At, Goto, Slot
<1>14. CASE DecodeImage(p)
  BY <1>1, <1>3, <1>14 DEF TypeOK, DecodeImage, Count, Goto
<1>15. CASE AddImage(p)
  BY <1>1, <1>3, <1>15 DEF TypeOK, AddImage, Count, Fail, Goto
<1>16. CASE Stop(p)
  BY <1>1, <1>3, <1>16 DEF TypeOK, Stop, Goto
<1>17. CASE Restart(p)
  BY <1>1, <1>3, <1>17 DEF TypeOK, Restart, Goto
<1> QED
  BY <1>6, <1>7, <1>8, <1>9, <1>10, <1>11, <1>12, <1>13, <1>14, <1>15, <1>16, <1>17 DEF Import

\* A step that counts the face in hand; it has its row then, if there is an image
\* to be had.
Counted(p) ==
  /\ pc[p] \in Busy \/ (pc[p] = "check" /\ todo[p] # << >>)
  /\ \E field \in {"imported", "missing", "skipped"} : Count(p, field)
  /\ UNCHANGED <<setup, present, gone, page, known, order, torn>> /\ hiccups[p] \subseteq hiccups'[p]
  /\ (Alone \/ ~ setup.replace) /\ Slot(p) \notin hiccups'[p] /\ Answers(p) =>
       (Obtainable(Slot(p)) => \E r \in rows' : r.slot = Slot(p))

\* A step that treats and counts nothing.
Untreated(p) ==
  /\ pc[p] \notin {"failed", "stopped"} /\ pc'[p] \notin {"failed", "stopped"}
  /\ (pc'[p] = "done") = (pc[p] = "done")
  /\ todo'[p] = todo[p] /\ report'[p] = report[p]
  /\ UNCHANGED <<setup, present, gone, page, known, order, torn>> /\ hiccups[p] \subseteq hiccups'[p]

\* Every step of a process is of one of these kinds, or ends its import.
LEMMA KindsOfSteps ==
  ASSUME StoreInv, NEW p \in setup.importers, Import(p) \/ Stop(p) \/ Restart(p)
  PROVE  \/ ReadPage(p) \/ Restart(p) \/ Counted(p) \/ Untreated(p)
         \/ pc'[p] \in {"failed", "stopped"}
<1>1. /\ TypeOK /\ p \in Importers /\ PlaceOf(p) /\ setup \in Setups
      /\ pc[p] \in Busy => Slot(p) \in Slots
      /\ Busy = {"find", "get", "open", "copy", "decode", "add"}
  BY WorkersRun DEF StoreInv, TypeInv, Places, Busy
<1>3. ASSUME TryFallback(p), pc[p] \in {"find", "get"},
             UNCHANGED <<setup, present, gone, page, known, order, torn>>, hiccups[p] \subseteq hiccups'[p],
             Slot(p) \notin hiccups'[p] => Offer(p) \in {"missing", "lost"}
      PROVE  Counted(p) \/ Untreated(p)
  <2>1. CASE asked[p] # FallbackLang
    BY <1>1, <1>3, <2>1 DEF TypeOK, TryFallback, Goto, Untreated
  <2>2. CASE asked[p] = FallbackLang
    <3>1. Count(p, "missing")
      BY <1>3, <2>2 DEF TryFallback
    <3>2. Slot(p) \notin hiccups'[p] /\ Answers(p) => ~ Obtainable(Slot(p))
      BY <1>3, <2>2, Fallback
    <3> QED
      BY <1>1, <1>3, <3>1, <3>2 DEF Counted
  <2> QED
    BY <2>1, <2>2
<1>4. CASE PageDone(p)
  BY <1>1, <1>4 DEF TypeOK, ghosts, PageDone, At, Goto, Untreated
<1>5. CASE SkipImage(p)
  BY <1>5 DEF ghosts, SkipImage, At, IsImagePresent, HasRow, Counted
<1>6. CASE WantImage(p)
  BY <1>1, <1>6 DEF TypeOK, ghosts, WantImage, At, Goto, Untreated
<1>7. CASE FindCard(p)
  <2>1. pc[p] = "find" /\ UNCHANGED <<setup, present, gone, page, known, order, torn>>
    BY <1>7 DEF FindCard, At
  <2>2. CASE Goto(p, "get") /\ UNCHANGED <<todo, report, hiccups>>
    BY <1>1, <2>1, <2>2 DEF TypeOK, Goto, Untreated
  <2>3. CASE Offer(p) = "missing" /\ TryFallback(p) /\ hiccups' = hiccups
    BY <1>3, <2>1, <2>3
  <2>4. CASE TryFallback(p) /\ hiccups' = [hiccups EXCEPT ![p] = hiccups[p] \cup {Slot(p)}]
    <3>1. hiccups'[p] = hiccups[p] \cup {Slot(p)}
      BY <1>1, <2>4 DEF TypeOK
    <3> QED
      BY <1>3, <2>1, <2>4, <3>1
  <2> QED
    BY <1>7, <2>2, <2>3, <2>4 DEF FindCard
<1>8. CASE GetImage(p)
  <2>1. pc[p] = "get" /\ UNCHANGED <<setup, present, gone, page, known, order, torn, hiccups>>
    BY <1>8 DEF ghosts, GetImage, At
  <2>2. CASE Offer(p) = "lost" /\ TryFallback(p)
    BY <1>3, <2>1, <2>2
  <2>3. CASE Fail(p, "type")
    BY <1>1, <2>3 DEF TypeOK, Fail, Goto
  <2>4. CASE Goto(p, "open") /\ UNCHANGED <<todo, report>>
    BY <1>1, <2>1, <2>4 DEF TypeOK, Goto, Untreated
  <2> QED
    BY <1>8, <2>2, <2>3, <2>4 DEF GetImage
<1>9. CASE OpenFile(p)
  BY <1>1, <1>9 DEF TypeOK, ghosts, OpenFile, At, Goto, Fail, Untreated
<1>10. CASE CopyFile(p)
  BY <1>1, <1>10 DEF TypeOK, ghosts, CopyFile, At, Goto, Untreated
<1>11. CASE DecodeImage(p)
  <2>1. /\ pc[p] = "decode" /\ UNCHANGED <<setup, present, gone, page, known, order, torn, hiccups>>
        /\ got[p] \in Langs \cup {"broken"}
    BY <1>1, <1>11 DEF ghosts, DecodeImage, At, PlaceOf
  <2>2. CASE ~ Decodes(file[Slot(p)])
    <3>1. Count(p, "missing")
      BY <1>11, <2>2 DEF DecodeImage
    <3>2. Alone \/ ~ setup.replace => file[Slot(p)] = got[p]
      BY <1>1, <2>1 DEF StoreInv, FilesAreApart, Holding
    <3>3. (Alone \/ ~ setup.replace) /\ Answers(p) => ~ Obtainable(Slot(p))
      BY <2>1, <2>2, <3>2 DEF Answers, Decodes
    <3> QED
      BY <1>1, <2>1, <3>1, <3>3 DEF Counted
  <2>3. CASE Decodes(file[Slot(p)])
    BY <1>1, <1>11, <2>1, <2>3 DEF TypeOK, DecodeImage, Goto, Untreated
  <2> QED
    BY <2>2, <2>3
<1>12. CASE AddImage(p)
  <2>1. pc[p] = "add" /\ UNCHANGED <<setup, present, gone, page, known, order, torn, hiccups>>
    BY <1>12 DEF ghosts, AddImage, At
  <2>2. CASE Fail(p, "duplicate")
    BY <1>1, <2>2 DEF TypeOK, Fail, Goto
  <2>3. CASE Count(p, "imported") /\ rows' = rows \cup {[slot |-> Slot(p), content |-> got[p]]}
    <3>1. \E r \in rows' : r.slot = Slot(p)
      <4> DEFINE row == [slot |-> Slot(p), content |-> got[p]]
      <4>1. row \in rows' /\ row.slot = Slot(p)
        BY <2>3
      <4> QED
        BY <4>1
    <3> QED
      BY <1>1, <2>1, <2>3, <3>1 DEF Counted
  <2> QED
    BY <1>12, <2>2, <2>3 DEF AddImage
<1>13. CASE Stop(p)
  BY <1>1, <1>13 DEF TypeOK, Stop, Goto
<1> QED
  BY <1>4, <1>5, <1>6, <1>7, <1>8, <1>9, <1>10, <1>11, <1>12, <1>13 DEF Import

\* How what a process has treated and counted changes with a step of anybody.
StaysTreated(q) ==
  /\ pc[q] \notin {"failed", "stopped"} /\ hiccups[q] \subseteq hiccups'[q]
  /\ AllTreated(q)' \subseteq AllTreated(q) /\ Total(q)' = Total(q)

OneMoreTreated(q) ==
  /\ pc[q] \notin {"failed", "stopped"} /\ hiccups[q] \subseteq hiccups'[q]
  /\ AllTreated(q)' \subseteq AllTreated(q) \cup {Slot(q)} /\ Total(q)' = Total(q) + 1
  /\ (Alone \/ ~ setup.replace) /\ Slot(q) \notin hiccups'[q] /\ Answers(q) =>
       (Obtainable(Slot(q)) => \E r \in rows' : r.slot = Slot(q))

NoneTreated(q) == AllTreated(q)' = {} /\ Total(q)' = 0

\* With every step of anybody a process that goes on does one of these.
LEMMA TreatedFaces ==
  ASSUME StoreInv, Ordered, [Next]_vars, NEW q \in setup.importers,
         pc'[q] \notin {"failed", "stopped"}
  PROVE  StaysTreated(q) \/ OneMoreTreated(q) \/ NoneTreated(q)
<1>1. /\ TypeInv /\ TypeOK /\ q \in Importers /\ PlaceOf(q)
      /\ setup.importers \subseteq Importers
  BY WorkersRun DEF StoreInv, TypeInv, Places
<1>2. ASSUME UNCHANGED <<setup, pc, page, todo, known, report, ghosts>>, gone \subseteq gone'
      PROVE  StaysTreated(q)
  BY <1>1, <1>2, OthersTreat DEF StaysTreated, Total, ghosts
<1>3. ASSUME NEW p \in setup.importers, Import(p) \/ Stop(p) \/ Restart(p)
      PROVE  StaysTreated(q) \/ OneMoreTreated(q) \/ NoneTreated(q)
  <2>1. UNCHANGED <<setup, present, gone>>
    BY <1>3 DEF Import, ReadPage, PageDone, SkipImage, WantImage, FindCard, GetImage, OpenFile,
       CopyFile, DecodeImage, AddImage, Stop, Restart
  <2>2. CASE q # p
    <3>1. /\ pc'[q] = pc[q] /\ page'[q] = page[q] /\ todo'[q] = todo[q] /\ known'[q] = known[q]
          /\ report'[q] = report[q] /\ hiccups'[q] = hiccups[q]
          /\ order'[q] = order[q] /\ torn'[q] = torn[q]
      BY <1>1, <1>3, <2>2, OthersStay
    <3> QED
      BY <1>1, <2>1, <3>1, OthersTreat DEF StaysTreated, Total
  <2>3. CASE q = p
    <3>1. \/ ReadPage(q) \/ Restart(q) \/ Counted(q) \/ Untreated(q)
      BY <1>3, <2>3, KindsOfSteps
    <3>2. CASE ReadPage(q)
      <4>1. report' = report /\ hiccups' = hiccups /\ pc[q] = "page" /\ Ordering(q)
        BY <3>2 DEF ReadPage, At, Ordered
      <4> QED
        BY <1>1, <3>2, <4>1, ReadPageTreats DEF StaysTreated, Total
    <3>3. CASE Restart(q)
      BY <1>1, <3>3, RestartTreats DEF NoneTreated
    <3>4. CASE Counted(q)
      <4>1. PICK field \in {"imported", "missing", "skipped"} : Count(q, field)
        BY <3>4 DEF Counted
      <4>2. AllTreated(q)' \subseteq AllTreated(q) \cup {Slot(q)}
        BY <1>1, <3>4, <4>1, CountTreats DEF Counted
      <4>3. Total(q)' = Total(q) + 1
        <5>1. report[q] \in [imported : Nat, missing : Nat, skipped : Nat]
          BY <1>1 DEF TypeOK
        <5>2. report'[q] = [report[q] EXCEPT ![field] = @ + 1]
          BY <1>1, <4>1 DEF TypeOK, Count
        <5>3. CASE field = "imported"
          BY <5>1, <5>2, <5>3 DEF Total
        <5>4. CASE field = "missing"
          BY <5>1, <5>2, <5>4 DEF Total
        <5>5. CASE field = "skipped"
          BY <5>1, <5>2, <5>5 DEF Total
        <5> QED
          BY <4>1, <5>3, <5>4, <5>5
      <4>4. pc[q] \notin {"failed", "stopped"}
        BY <3>4 DEF Counted, Busy
      <4> QED
        BY <3>4, <4>2, <4>3, <4>4 DEF OneMoreTreated, Counted
    <3>5. CASE Untreated(q)
      <4>1. Promised(q)' = Promised(q)
        BY <3>5 DEF Untreated, Promised, Expected, PagesBefore
      <4>2. SlotsOfAll(Promised(q))' = SlotsOfAll(Promised(q))
        BY <3>5, <4>1 DEF Untreated, SlotsOfAll
      <4>3. Passed(q)' = Passed(q)
        BY <3>5, <4>1 DEF Untreated, Passed, ReadUpTo
      <4>4. Treated(q)' = Treated(q)
        BY <3>5, <4>3 DEF Untreated, Treated, SlotsOfAll
      <4>5. AllTreated(q)' = AllTreated(q)
        BY <3>5, <4>2, <4>4 DEF Untreated, AllTreated
      <4> QED
        BY <3>5, <4>5 DEF Untreated, StaysTreated, Total
    <3> QED
      BY <3>1, <3>2, <3>3, <3>4, <3>5
  <2> QED
    BY <2>2, <2>3
<1>4. CASE CardAdded \/ FaceDeleted \/ UNCHANGED vars
  BY <1>2, <1>4 DEF CardAdded, FaceDeleted, vars
<1> QED
  BY <1>3, <1>4 DEF Next, Ended

\* Rows stay.
LEMMA WhatStays ==
  ASSUME [Next]_vars
  PROVE  setup' = setup /\ rows \subseteq rows'
<1>1. ASSUME NEW p \in setup.importers, Import(p) \/ Stop(p) \/ Restart(p)
      PROVE  setup' = setup /\ rows \subseteq rows'
  BY <1>1 DEF Import, ReadPage, PageDone, SkipImage, WantImage, FindCard, GetImage, OpenFile,
     CopyFile, DecodeImage, AddImage, Stop, Restart
<1>2. CASE CardAdded \/ FaceDeleted \/ UNCHANGED vars
  BY <1>2 DEF CardAdded, FaceDeleted, vars
<1> QED
  BY <1>1, <1>2 DEF Next, Ended

\* Every step keeps the order of what was read.
LEMMA OrderedNext == StoreInv /\ Ordered /\ [Next]_vars => Ordered'
<1> SUFFICES ASSUME StoreInv, Ordered, [Next]_vars, NEW q \in setup.importers PROVE Ordering(q)'
  BY WhatStays DEF Ordered
<1>1. /\ TypeInv /\ TypeOK /\ q \in Importers /\ setup.importers \subseteq Importers
      /\ Ordering(q) /\ setup' = setup
  BY WorkersRun, WhatStays DEF StoreInv, TypeInv, Ordered
<1>2. ASSUME order'[q] = order[q], page'[q] = page[q], known'[q] = known[q] PROVE Ordering(q)'
  BY <1>1, <1>2 DEF Ordering, PagesBefore
<1>3. ASSUME NEW p \in setup.importers, Import(p) \/ Stop(p) \/ Restart(p) PROVE Ordering(q)'
  <2>1. CASE q # p
    BY <1>1, <1>2, <1>3, <2>1, OthersStay
  <2>2. CASE q = p
    <3>1. CASE ReadPage(q)
      BY <1>1, <3>1, ReadPageTreats
    <3>2. CASE Restart(q)
      BY <1>1, <3>2, RestartTreats
    <3>3. CASE ~ ReadPage(q) /\ ~ Restart(q)
      BY <1>2, <1>3, <2>2, <3>3 DEF Import, PageDone, SkipImage, WantImage, FindCard, GetImage,
         OpenFile, CopyFile, DecodeImage, AddImage, Stop, ghosts
    <3> QED
      BY <3>1, <3>2, <3>3
  <2> QED
    BY <2>1, <2>2
<1>4. CASE CardAdded \/ FaceDeleted \/ UNCHANGED vars
  BY <1>2, <1>4 DEF CardAdded, FaceDeleted, vars, ghosts
<1> QED
  BY <1>3, <1>4 DEF Next, Ended

\* Every step keeps the invariant.
LEMMA InductiveNext == IInv /\ [Next]_vars => IInv'
<1> SUFFICES ASSUME StoreInv, Answering, Ordered, Counts, HaveRows, [Next]_vars
             PROVE  IInv'
  BY DEF IInv
<1>1. StoreInv'
  BY StoreNext
<1>2. /\ TypeInv /\ TypeInv' /\ TypeOK
      /\ setup \in Setups /\ setup.importers \subseteq Importers
  BY <1>1, WorkersRun DEF StoreInv, TypeInv
<1>3. setup' = setup /\ rows \subseteq rows'
  BY WhatStays
<1>4. Answering'
  <2> SUFFICES ASSUME NEW q \in setup.importers, Slot(q)' \notin hiccups'[q] PROVE Answers(q)'
    BY <1>3 DEF Answering
  <2>1. (Slot(q) \notin hiccups[q] => Answers(q)) /\ q \in Importers
    BY <1>2 DEF Answering
  <2>2. ASSUME pc'[q] = pc[q], asked'[q] = asked[q], got'[q] = got[q], todo'[q] = todo[q],
               hiccups'[q] = hiccups[q]
        PROVE  Answers(q)'
    <3>1. Slot(q)' = Slot(q)
      BY <2>2 DEF Slot
    <3> QED
      BY <1>3, <2>1, <2>2, <3>1 DEF Answers, Obtainable
  <2>3. ASSUME NEW p \in setup.importers, Import(p) \/ Stop(p) \/ Restart(p) PROVE Answers(q)'
    <3>1. CASE q = p
      BY <2>1, <2>3, <3>1, AnswersNext
    <3>2. CASE q # p
      <4>1. p \in Importers
        BY <1>2
      <4> QED
        BY <1>2, <2>1, <2>2, <2>3, <3>2, <4>1, OthersStay
    <3> QED
      BY <3>1, <3>2
  <2>4. CASE CardAdded \/ FaceDeleted \/ UNCHANGED vars
    BY <2>2, <2>4 DEF CardAdded, FaceDeleted, vars, ghosts
  <2> QED
    BY <2>3, <2>4 DEF Next, Ended
<1>5. Counts'
  <2> SUFFICES ASSUME NEW q \in setup.importers, pc'[q] \notin {"failed", "stopped"}
               PROVE  Cardinality(AllTreated(q)') <= Total(q)'
    BY <1>3 DEF Counts
  <2> DEFINE A == AllTreated(q)
             B == AllTreated(q)'
  <2>1. IsFiniteSet(A) /\ Cardinality(A) \in Nat /\ q \in Importers
    BY <1>2, TreatedAreSlots, FinitelyManySlots, FS_Subset, FS_CardinalityType
  <2>2. Total(q) \in Nat
    <3>1. report[q] \in [imported : Nat, missing : Nat, skipped : Nat]
      BY <1>2, <2>1 DEF TypeOK
    <3>2. report[q].imported \in Nat /\ report[q].missing \in Nat /\ report[q].skipped \in Nat
      BY <3>1
    <3> QED
      BY <3>2 DEF Total
  <2>3. CASE StaysTreated(q)
    <3>1. B \subseteq A /\ Total(q)' = Total(q) /\ Cardinality(A) <= Total(q)
      BY <2>3 DEF StaysTreated, Counts
    <3> HIDE DEF A, B
    <3>2. Cardinality(B) <= Cardinality(A) /\ Cardinality(B) \in Nat
      BY <2>1, <3>1, FS_Subset, FS_CardinalityType
    <3> QED
      BY <2>1, <2>2, <3>1, <3>2 DEF B
  <2>4. CASE OneMoreTreated(q)
    <3>1. B \subseteq A \cup {Slot(q)} /\ Total(q)' = Total(q) + 1 /\ Cardinality(A) <= Total(q)
      BY <2>4 DEF OneMoreTreated, Counts
    <3> HIDE DEF A, B
    <3> DEFINE C == A \cup {Slot(q)}
    <3>2. IsFiniteSet(C) /\ Cardinality(C) \in Nat /\ Cardinality(C) <= Cardinality(A) + 1
      <4>1. /\ IsFiniteSet(C)
            /\ Cardinality(C) = IF Slot(q) \in A THEN Cardinality(A) ELSE Cardinality(A) + 1
        BY <2>1, FS_AddElement
      <4> QED
        BY <2>1, <4>1
    <3> HIDE DEF C
    <3>3. Cardinality(B) <= Cardinality(C) /\ Cardinality(B) \in Nat
      BY <3>1, <3>2, FS_Subset, FS_CardinalityType DEF C
    <3> QED
      BY <2>1, <2>2, <3>1, <3>2, <3>3 DEF B
  <2>5. CASE NoneTreated(q)
    <3>1. B = {} /\ Total(q)' = 0 /\ Cardinality({}) = 0
      BY <2>5, FS_EmptySet DEF NoneTreated
    <3> QED
      BY <3>1
  <2> QED
    BY <1>1, <2>3, <2>4, <2>5, TreatedFaces
<1>6. HaveRows'
  <2> SUFFICES ASSUME Alone \/ ~ setup.replace,
                      NEW q \in setup.importers, pc'[q] \notin {"failed", "stopped"},
                      NEW s \in AllTreated(q)', s \notin hiccups'[q], Obtainable(s)
               PROVE  \E r \in rows' : r.slot = s
    BY <1>3 DEF HaveRows, Alone, Obtainable, HasRow
  <2>1. Slot(q) \notin hiccups[q] => Answers(q)
    BY DEF Answering
  <2>2. ASSUME s \in AllTreated(q), s \notin hiccups[q], pc[q] \notin {"failed", "stopped"}
        PROVE  \E r \in rows' : r.slot = s
    <3>1. HasRow(s)
      BY <2>2 DEF HaveRows
    <3> QED
      BY <1>3, <3>1 DEF HasRow
  <2>3. CASE StaysTreated(q)
    BY <2>2, <2>3 DEF StaysTreated
  <2>4. CASE OneMoreTreated(q)
    BY <2>1, <2>2, <2>4 DEF OneMoreTreated
  <2>5. CASE NoneTreated(q)
    BY <2>5 DEF NoneTreated
  <2> QED
    BY <1>1, <2>3, <2>4, <2>5, TreatedFaces
<1> QED
  BY <1>1, <1>4, <1>5, <1>6, OrderedNext DEF IInv

\* It holds at the beginning, where nothing is treated.
LEMMA InductiveInit == Init => IInv
<1> SUFFICES ASSUME Init PROVE IInv
  OBVIOUS
<1>1. StoreInv /\ TypeInv /\ setup \in Setups /\ present \subseteq Cards
  BY StoreInit, WorkersRun DEF StoreInv, TypeInv, TypeOK
<1>2. Answering
  <2>1. \A q \in setup.importers : pc[q] = "page"
    BY <1>1, WorkersRun DEF Init
  <2> QED
    BY <2>1 DEF Answering, Answers
<1>3. ASSUME NEW q \in setup.importers PROVE AllTreated(q) = {} /\ Total(q) = 0
  <2>1. q \in Importers /\ pc[q] # "done" /\ order[q] = << >> /\ report[q] = NoReport
    BY <1>1, WorkersRun DEF Init
  <2>2. AllTreated(q) = {}
    BY <2>1 DEF AllTreated, Treated, Passed, ReadUpTo, SlotsOfAll
  <2> QED
    BY <2>1, <2>2 DEF Total, NoReport
<1>4. Counts
  BY <1>3, FS_EmptySet DEF Counts
<1>5. HaveRows
  BY <1>3 DEF HaveRows
<1>6. Ordered
  <2>1. \A q \in setup.importers : order[q] = << >> /\ page[q] = PagesBefore
    BY <1>1, WorkersRun DEF Init
  <2> QED
    BY <2>1 DEF Ordered, Ordering
<1> QED
  BY <1>1, <1>2, <1>4, <1>5, <1>6 DEF IInv

\* An import that is done has every image to be had of the cards that were there
\* when it began, although cards are added while it turns pages; it may lack those
\* of a set within which a page ended and which the next query had in another
\* order, and those whose card request failed.
THEOREM DoneIsSettled == Spec => []DoneMeansSettled
<1>1. ASSUME IInv PROVE DoneMeansSettled
  <2> SUFFICES ASSUME Alone \/ ~ setup.replace,
                      NEW p \in Importers, pc[p] = "done"
               PROVE  Settled(p, Promised(p))
    BY DEF DoneMeansSettled, At
  <2>1. p \in setup.importers
    BY <1>1 DEF IInv, StoreInv, TypeInv, Places, PlaceOf
  <2>2. \A s \in SlotsOfAll(Promised(p)) \ hiccups[p] : Obtainable(s) => HasRow(s)
    BY <1>1, <2>1 DEF IInv, HaveRows, AllTreated
  <2> QED
    BY <2>2 DEF Settled, SlotsOfAll
<1> QED
  BY InductiveInit, InductiveNext, <1>1, PTL DEF Spec

\* The report of such an import counts every face and language of those cards.
THEOREM ReportIsWhole == Spec => []ReportAddsUp
<1>1. ASSUME IInv PROVE ReportAddsUp
  <2> SUFFICES ASSUME NEW p \in Importers, pc[p] = "done"
               PROVE  report[p].imported + report[p].missing + report[p].skipped
                        >= Cardinality((UNION {SlotsOf(c) : c \in Promised(p)}) \ (gone \X Langs))
    BY DEF ReportAddsUp, At
  <2>1. p \in setup.importers /\ TypeInv
    BY <1>1 DEF IInv, StoreInv, TypeInv, Places, PlaceOf
  <2>2. SlotsOfAll(Promised(p)) = (UNION {SlotsOf(c) : c \in Promised(p)}) \ (gone \X Langs)
    <3>1. \A c : \A s \in SlotsOf(c) : s[1] \in gone <=> s \in gone \X Langs
      BY DEF SlotsOf
    <3> QED
      BY <3>1 DEF SlotsOfAll
  <2>3. Cardinality(SlotsOfAll(Promised(p))) <= Total(p)
    BY <1>1, <2>1 DEF IInv, Counts, AllTreated
  <2>4. Cardinality(SlotsOfAll(Promised(p))) \in Nat
    <3>1. AllTreated(p) = SlotsOfAll(Promised(p))
      BY DEF AllTreated
    <3> QED
      BY <2>1, <3>1, TreatedAreSlots, FinitelyManySlots, FS_Subset, FS_CardinalityType
  <2>5. report[p] \in [imported : Nat, missing : Nat, skipped : Nat]
    BY <2>1 DEF TypeInv, TypeOK
  <2>6. Total(p) = report[p].imported + report[p].missing + report[p].skipped /\ Total(p) \in Nat
    <3>1. report[p].imported \in Nat /\ report[p].missing \in Nat /\ report[p].skipped \in Nat
      BY <2>5
    <3> QED
      BY <3>1 DEF Total
  <2> QED
    BY <2>2, <2>3, <2>4, <2>6
<1> QED
  BY InductiveInit, InductiveNext, <1>1, PTL DEF Spec
=============================================================================
