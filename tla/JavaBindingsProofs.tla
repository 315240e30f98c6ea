-------------------------- MODULE JavaBindingsProofs --------------------------
(***************************************************************************)
(* The Java bindings, for any number of threads: what is reachable is      *)
(* alive, and a manager has its library.  The suggestions of a reader, for *)
(* any archive and any number of variants of a prefix: they are in order,  *)
(* or what the index finds.                                                *)
(***************************************************************************)
EXTENDS JavaBindings, FoldTheorems

-----------------------------------------------------------------------------
(***************************************************************************)
(* Inserting into a list that is in order.                                 *)
(***************************************************************************)

InOrder(list) ==
    \A i, j \in 1 .. Len(list) :
        i < j => list[i].norm <= list[j].norm /\ list[i] # list[j]

(* The lists that a search may have made so far.                           *)
Ordered == {list \in Seq(Item) : InOrder(list)}

(* What InsertAt of SequencesExt returns.                                  *)
LEMMA Inserted ==
    ASSUME NEW list \in Seq(Item), NEW item \in Item, NEW p \in 1 .. Len(list) + 1
    PROVE  /\ InsertAt(list, p, item) \in Seq(Item)
           /\ Len(InsertAt(list, p, item)) = Len(list) + 1
           /\ \A k \in 1 .. Len(list) + 1 :
                 InsertAt(list, p, item)[k] = IF k < p THEN list[k]
                                              ELSE IF k = p THEN item ELSE list[k - 1]
<1> DEFINE n == Len(list)
           before == SubSeq(list, 1, p - 1)
           after == SubSeq(list, p, n)
           first == before \o <<item>>
<1>1. n \in Nat /\ p \in Nat \ {0} /\ \A i \in 1 .. n : list[i] \in Item
    BY LenProperties, ElementOfSeq
<1>2. /\ before \in Seq(Item) /\ Len(before) = p - 1
      /\ \A i \in 1 .. p - 1 : before[i] = list[i]
  <2>1. \A i \in 1 .. p - 1 : list[i] \in Item
      BY <1>1
  <2>2. 1 \in Int /\ p - 1 \in Int
      BY <1>1
  <2>3. /\ before \in Seq(Item) /\ Len(before) = IF 1 <= p - 1 THEN (p - 1) - 1 + 1 ELSE 0
        /\ \A i \in 1 .. (p - 1) - 1 + 1 : before[i] = list[1 + i - 1]
      BY <2>1, <2>2, SubSeqProperties
  <2> HIDE DEF before
  <2> QED BY <1>1, <2>3
<1>3. /\ after \in Seq(Item) /\ Len(after) = n - p + 1
      /\ \A i \in 1 .. n - p + 1 : after[i] = list[p + i - 1]
  <2>1. \A i \in p .. n : list[i] \in Item
      BY <1>1
  <2>2. p \in Int /\ n \in Int
      BY <1>1
  <2>3. /\ after \in Seq(Item) /\ Len(after) = IF p <= n THEN n - p + 1 ELSE 0
        /\ \A i \in 1 .. n - p + 1 : after[i] = list[p + i - 1]
      BY <2>1, <2>2, SubSeqProperties
  <2> HIDE DEF after
  <2> QED BY <1>1, <2>3
<1>4. <<item>> \in Seq(Item) /\ Len(<<item>>) = 1 /\ <<item>>[1] = item
    OBVIOUS
<1> HIDE DEF before, after
<1>5. /\ first \in Seq(Item) /\ Len(first) = p
      /\ \A i \in 1 .. p : first[i] = IF i <= p - 1 THEN list[i] ELSE item
  <2>1. /\ first \in Seq(Item) /\ Len(first) = Len(before) + 1
        /\ \A i \in 1 .. Len(before) + 1 :
              first[i] = IF i <= Len(before) THEN before[i] ELSE <<item>>[i - Len(before)]
      BY <1>2, <1>4, ConcatProperties
  <2> HIDE DEF first
  <2>2. \A i \in 1 .. p : i <= p - 1 \/ i - (p - 1) = 1
      BY <1>1
  <2> QED BY <1>1, <1>2, <1>4, <2>1, <2>2
<1> HIDE DEF first
<1>6. /\ first \o after \in Seq(Item) /\ Len(first \o after) = n + 1
      /\ \A k \in 1 .. n + 1 : (first \o after)[k] = IF k <= p THEN first[k] ELSE after[k - p]
  <2>1. /\ first \o after \in Seq(Item) /\ Len(first \o after) = Len(first) + Len(after)
        /\ \A k \in 1 .. Len(first) + Len(after) : (first \o after)[k] =
              IF k <= Len(first) THEN first[k] ELSE after[k - Len(first)]
      BY <1>3, <1>5, ConcatProperties
  <2> QED BY <1>1, <1>3, <1>5, <2>1
<1>7. InsertAt(list, p, item) = first \o after
    BY DEF InsertAt, first, before, after
<1>8. ASSUME NEW k \in 1 .. n + 1
      PROVE  (first \o after)[k] = IF k < p THEN list[k]
                                   ELSE IF k = p THEN item ELSE list[k - 1]
  <2>1. CASE k <= p
      BY <1>1, <1>5, <1>6, <2>1
  <2>2. CASE k > p
    <3>1. k - p \in 1 .. n - p + 1 /\ p + (k - p) - 1 = k - 1
        BY <1>1, <2>2
    <3>2. after[k - p] = list[k - 1]
        BY <1>3, <3>1
    <3> QED BY <1>1, <1>6, <2>2, <3>2
  <2>3. k <= p \/ k > p
      BY <1>1
  <2> QED BY <2>1, <2>2, <2>3, Zenon
<1> DEFINE whole == first \o after
<1> HIDE DEF whole
<1>9. InsertAt(list, p, item) = whole
    BY <1>7 DEF whole
<1>10. whole \in Seq(Item) /\ Len(whole) = n + 1
    BY <1>6 DEF whole
<1>11. \A k \in 1 .. n + 1 : whole[k] = IF k < p THEN list[k]
                                        ELSE IF k = p THEN item ELSE list[k - 1]
    BY <1>8 DEF whole
<1> QED BY <1>9, <1>10, <1>11

(* The scan stops behind all that is not larger.                           *)
LEMMA PlaceIs ==
    ASSUME NEW list \in Ordered, NEW item \in Item
    PROVE  /\ Place(list, item) \in 1 .. Len(list) + 1
           /\ \A i \in 1 .. Len(list) : IF i < Place(list, item) THEN list[i].norm <= item.norm
                                        ELSE item.norm < list[i].norm
<1> DEFINE Larger == {i \in 1 .. Len(list) : item.norm < list[i].norm}
           s == Larger \cup {Len(list) + 1}
           p == Place(list, item)
<1>1. list \in Seq(Item) /\ InOrder(list) /\ Len(list) \in Nat /\ item.norm \in Nat
    BY SuggestionsAssumption, LenProperties DEF Ordered
<1>2. \A i \in 1 .. Len(list) : list[i].norm \in Nat
    BY <1>1, SuggestionsAssumption, ElementOfSeq
<1>3. p = Min(s)
    BY DEF Place
<1>4. s \subseteq 1 .. Len(list) + 1 /\ s \subseteq Nat /\ s # {}
  <2>1. Larger \subseteq 1 .. Len(list) + 1 /\ 1 .. Len(list) + 1 \subseteq Nat
      BY <1>1
  <2> HIDE DEF Larger
  <2>2. Len(list) + 1 \in 1 .. Len(list) + 1
      BY <1>1
  <2> QED BY <2>1, <2>2
<1>5. Min(s) \in s /\ \A x \in s : Min(s) <= x
    BY <1>4, SmallestNumber
<1>6. p \in 1 .. Len(list) + 1 /\ p \in s /\ \A x \in s : p <= x
    BY <1>3, <1>4, <1>5
<1> HIDE DEF p
<1>7. ASSUME NEW i \in 1 .. Len(list), i < p PROVE list[i].norm <= item.norm
  <2>1. i \notin Larger
      BY <1>1, <1>6, <1>7
  <2> QED BY <1>1, <1>2, <2>1
<1>8. ASSUME NEW i \in 1 .. Len(list), ~(i < p) PROVE item.norm < list[i].norm
  <2>1. p \in 1 .. Len(list) /\ p <= i
      BY <1>1, <1>6, <1>8
  <2>2. item.norm < list[p].norm
      BY <1>1, <1>6, <2>1
  <2>3. p = i \/ list[p].norm <= list[i].norm
      BY <1>1, <2>1 DEF InOrder
  <2> QED BY <1>1, <1>2, <2>1, <2>2, <2>3
<1> QED BY <1>6, <1>7, <1>8 DEF p

LEMMA InsertKeepsOrder ==
    ASSUME NEW list \in Ordered, NEW item \in Item
    PROVE  Insert(list, item) \in Ordered /\ Len(Insert(list, item)) \in {Len(list), Len(list) + 1}
<1> DEFINE p == Place(list, item)
           r == InsertAt(list, p, item)
<1>1. CASE \E i \in 1 .. p - 1 : list[i] = item
    BY <1>1 DEF Insert
<1>2. CASE \A i \in 1 .. p - 1 : list[i] # item
  <2>1. list \in Seq(Item) /\ InOrder(list) /\ Len(list) \in Nat /\ item.norm \in Nat
      BY SuggestionsAssumption, LenProperties DEF Ordered
  <2>2. \A i \in 1 .. Len(list) : list[i].norm \in Nat
      BY <2>1, SuggestionsAssumption, ElementOfSeq
  <2>3. /\ p \in 1 .. Len(list) + 1
        /\ \A i \in 1 .. Len(list) : IF i < p THEN list[i].norm <= item.norm
                                     ELSE item.norm < list[i].norm
      BY PlaceIs
  <2> HIDE DEF p
  <2>4. /\ r \in Seq(Item) /\ Len(r) = Len(list) + 1
        /\ \A k \in 1 .. Len(list) + 1 : r[k] = IF k < p THEN list[k]
                                                ELSE IF k = p THEN item ELSE list[k - 1]
      BY <2>1, <2>3, Inserted
  <2>5. Insert(list, item) = r
      BY <1>2 DEF Insert, p
  <2> HIDE DEF r
  <2>6. ASSUME NEW i \in 1 .. Len(list) + 1, NEW j \in 1 .. Len(list) + 1, i < j
        PROVE  r[i].norm <= r[j].norm /\ r[i] # r[j]
    <3>1. CASE j < p
      <4>1. i \in 1 .. Len(list) /\ j \in 1 .. Len(list) /\ r[i] = list[i] /\ r[j] = list[j]
          BY <2>1, <2>3, <2>4, <2>6, <3>1
      <4> QED BY <2>1, <2>6, <4>1 DEF InOrder
    <3>2. CASE j = p
      <4>1. i \in 1 .. Len(list) /\ i \in 1 .. p - 1 /\ r[i] = list[i] /\ r[j] = item
          BY <2>1, <2>3, <2>4, <2>6, <3>2
      <4> QED BY <1>2, <2>3, <4>1 DEF p
    <3>3. CASE j > p /\ i < p
      <4>1. /\ i \in 1 .. Len(list) /\ j - 1 \in 1 .. Len(list) /\ i < j - 1
            /\ r[i] = list[i] /\ r[j] = list[j - 1]
          BY <2>1, <2>3, <2>4, <2>6, <3>3
      <4> QED BY <2>1, <4>1 DEF InOrder
    <3>4. CASE j > p /\ i = p
      <4>1. j - 1 \in 1 .. Len(list) /\ ~(j - 1 < p) /\ r[i] = item /\ r[j] = list[j - 1]
        <5>1. j - 1 \in 1 .. Len(list) /\ ~(j - 1 < p)
            BY <2>1, <2>3, <3>4
        <5>2. r[i] = item
            BY <2>4, <3>4
        <5>3. r[j] = list[j - 1]
            BY <2>3, <2>4, <3>4
        <5> QED BY <5>1, <5>2, <5>3
      <4>2. item.norm < list[j - 1].norm
          BY <2>3, <4>1
      <4> QED BY <2>1, <2>2, <4>1, <4>2
    <3>5. CASE i > p
      <4>1. /\ i - 1 \in 1 .. Len(list) /\ j - 1 \in 1 .. Len(list) /\ i - 1 < j - 1
            /\ r[i] = list[i - 1] /\ r[j] = list[j - 1]
          BY <2>1, <2>3, <2>4, <2>6, <3>5
      <4> QED BY <2>1, <4>1 DEF InOrder
    <3> QED BY <2>1, <2>3, <2>6, <3>1, <3>2, <3>3, <3>4, <3>5
  <2> QED BY <2>4, <2>5, <2>6 DEF InOrder, Ordered
<1> QED BY <1>1, <1>2

-----------------------------------------------------------------------------
(***************************************************************************)
(* The loops of a search.                                                  *)
(***************************************************************************)

(* Those that are not longer than somebody asked for.                      *)
UpTo(count) == {list \in Ordered : Len(list) <= count}

LEMMA AddFoundKeepsOrder ==
    ASSUME NEW count \in Nat, NEW list \in UpTo(count), NEW found \in Seq(Item)
    PROVE  AddFound(list, found, count) \in UpTo(count)
<1> DEFINE Op(l, item) == IF Len(l) >= count THEN l ELSE Insert(l, item)
           N == Len(found)
           Eqn(iter) == iter = [s \in SUBSET (DOMAIN found) |->
                           IF s = {} THEN list ELSE Op(iter[s \ {Max(s)}], found[Max(s)])]
           it == CHOOSE iter : Eqn(iter)
           step == [i \in 1 .. N |-> [l \in UpTo(count) |-> Op(l, found[i])]]
<1>1. AddFound(list, found, count) = it[DOMAIN found]
    BY DEF AddFound, FoldLeft, MapThenFoldSet
<1>2. N \in Nat /\ DOMAIN found = 1 .. N /\ \A i \in 1 .. N : found[i] \in Item
    BY LenProperties, ElementOfSeq
<1>3. \A l \in UpTo(count), i \in 1 .. N : Op(l, found[i]) \in UpTo(count)
  <2> SUFFICES ASSUME NEW l \in UpTo(count), NEW i \in 1 .. N PROVE Op(l, found[i]) \in UpTo(count)
      OBVIOUS
  <2>1. l \in Ordered /\ Len(l) \in Nat /\ found[i] \in Item
      BY <1>2, LenProperties DEF UpTo, Ordered
  <2>2. /\ Insert(l, found[i]) \in Ordered
        /\ Len(Insert(l, found[i])) \in {Len(l), Len(l) + 1}
      BY <2>1, InsertKeepsOrder
  <2> QED BY <2>1, <2>2 DEF UpTo
<1> HIDE DEF Op
<1>4. step \in [1 .. N -> [UpTo(count) -> UpTo(count)]]
    BY <1>3
<1>5. \A l \in UpTo(count), i \in 1 .. N : step[i][l] = Op(l, found[i])
    OBVIOUS
<1> HIDE DEF step, N
<1>6. PICK iter \in [SUBSET (1 .. N) -> UpTo(count)] : Iterates(iter, N, list, step)
    BY <1>2, <1>4, IterationExists
<1>7. Eqn(iter)
  <2>1. ASSUME NEW s \in SUBSET (1 .. N), s # {}
        PROVE  step[Max(s)][iter[s \ {Max(s)}]] = Op(iter[s \ {Max(s)}], found[Max(s)])
    <3>1. Max(s) \in 1 .. N
        BY <1>2, <2>1, LargestNumber
    <3> QED BY <1>5, <1>6, <3>1
  <2> QED BY <1>2, <1>6, <2>1 DEF Iterates
<1>8. Eqn(it)
    BY <1>7
<1> HIDE DEF it
<1>9. it[{}] = list
    BY <1>8
<1>10. ASSUME NEW k \in 1 .. N, it[1 .. k - 1] \in UpTo(count)
       PROVE  it[1 .. k] \in UpTo(count)
  <2>1. 1 .. k # {} /\ Max(1 .. k) = k /\ (1 .. k) \ {k} = 1 .. k - 1
      BY NumbersUpTo
  <2>2. 1 .. k \in SUBSET (DOMAIN found)
      BY <1>2
  <2>3. it[1 .. k] = Op(it[1 .. k - 1], found[k])
      BY <1>8, <2>1, <2>2
  <2> QED BY <1>3, <1>10, <2>3
<1> DEFINE P == [k \in 0 .. N |-> UpTo(count)]
<1>11. it[1 .. N] \in P[N]
  <2>1. it[{}] \in P[0]
      BY <1>2, <1>9
  <2>2. \A k \in 1 .. N : it[1 .. k - 1] \in P[k - 1] => it[1 .. k] \in P[k]
      BY <1>2, <1>10
  <2> HIDE DEF P
  <2> QED BY <1>2, <2>1, <2>2, IterationStays
<1> QED BY <1>1, <1>2, <1>11

(* A string of the user is looked up, unless it is empty.                  *)
LEMMA SearchTitlesKeepsOrder ==
    ASSUME NEW count \in Nat, NEW list \in UpTo(count), NEW prefix \in Prefix
    PROVE  SearchTitles(prefix, count, list) \in UpTo(count)
<1>1. ByTitle[prefix] \in Seq(Item)
    BY SuggestionsAssumption
<1> QED BY <1>1, AddFoundKeepsOrder DEF SearchTitles

LEMMA SearchVariantsKeepsOrder ==
    ASSUME NEW count \in Nat, NEW list \in UpTo(count), NEW prefixes \in Seq(Prefix)
    PROVE  SearchVariants(prefixes, count, list) \in UpTo(count)
<1> DEFINE Op(l, p) == SearchTitles(p, count, l)
           N == Len(prefixes)
           Eqn(iter) == iter = [s \in SUBSET (DOMAIN prefixes) |->
                           IF s = {} THEN list ELSE Op(iter[s \ {Max(s)}], prefixes[Max(s)])]
           it == CHOOSE iter : Eqn(iter)
           step == [i \in 1 .. N |-> [l \in UpTo(count) |-> Op(l, prefixes[i])]]
<1>1. SearchVariants(prefixes, count, list) = it[DOMAIN prefixes]
    BY DEF SearchVariants, FoldLeft, MapThenFoldSet
<1>2. N \in Nat /\ DOMAIN prefixes = 1 .. N /\ \A i \in 1 .. N : prefixes[i] \in Prefix
    BY LenProperties, ElementOfSeq
<1>3. \A l \in UpTo(count), i \in 1 .. N : Op(l, prefixes[i]) \in UpTo(count)
    BY <1>2, SearchTitlesKeepsOrder
<1> HIDE DEF Op
<1>4. step \in [1 .. N -> [UpTo(count) -> UpTo(count)]]
    BY <1>3
<1>5. \A l \in UpTo(count), i \in 1 .. N : step[i][l] = Op(l, prefixes[i])
    OBVIOUS
<1> HIDE DEF step, N
<1>6. PICK iter \in [SUBSET (1 .. N) -> UpTo(count)] : Iterates(iter, N, list, step)
    BY <1>2, <1>4, IterationExists
<1>7. Eqn(iter)
  <2>1. ASSUME NEW s \in SUBSET (1 .. N), s # {}
        PROVE  step[Max(s)][iter[s \ {Max(s)}]] = Op(iter[s \ {Max(s)}], prefixes[Max(s)])
    <3>1. Max(s) \in 1 .. N
        BY <1>2, <2>1, LargestNumber
    <3> QED BY <1>5, <1>6, <3>1
  <2> QED BY <1>2, <1>6, <2>1 DEF Iterates
<1>8. Eqn(it)
    BY <1>7
<1> HIDE DEF it
<1>9. it[{}] = list
    BY <1>8
<1>10. ASSUME NEW k \in 1 .. N, it[1 .. k - 1] \in UpTo(count)
       PROVE  it[1 .. k] \in UpTo(count)
  <2>1. 1 .. k # {} /\ Max(1 .. k) = k /\ (1 .. k) \ {k} = 1 .. k - 1
      BY NumbersUpTo
  <2>2. 1 .. k \in SUBSET (DOMAIN prefixes)
      BY <1>2
  <2>3. it[1 .. k] = Op(it[1 .. k - 1], prefixes[k])
      BY <1>8, <2>1, <2>2
  <2> QED BY <1>3, <1>10, <2>3
<1> DEFINE P == [k \in 0 .. N |-> UpTo(count)]
<1>11. it[1 .. N] \in P[N]
  <2>1. it[{}] \in P[0]
      BY <1>2, <1>9
  <2>2. \A k \in 1 .. N : it[1 .. k - 1] \in P[k - 1] => it[1 .. k] \in P[k]
      BY <1>2, <1>10
  <2> HIDE DEF P
  <2> QED BY <1>2, <2>1, <2>2, IterationStays
<1> QED BY <1>1, <1>2, <1>11

LEMMA EmptyIsOrdered == <<>> \in Ordered /\ \A count \in Nat : <<>> \in UpTo(count)
BY EmptySeq DEF Ordered, UpTo, InOrder

(* A search that throws leaves a list that is in order as well, and not    *)
(* longer.                                                                 *)
LEMMA CutShortIsOrdered ==
    ASSUME NEW prefix \in Prefix, NEW count \in Nat
    PROVE  CutShort(prefix, count) \subseteq UpTo(count)
<1> DEFINE variants == Variants[prefix]
<1>1. variants \in Seq(Prefix) /\ Len(variants) \in Nat /\ DOMAIN variants = 1 .. Len(variants)
  <2>1. variants \in Seq(Prefix)
      BY SuggestionsAssumption
  <2> QED BY <2>1, LenProperties
<1>2. ASSUME NEW n \in DOMAIN variants, NEW k \in 0 .. Len(ByTitle[variants[n]])
      PROVE  AddFound(SearchVariants(SubSeq(variants, 1, n - 1), count, <<>>),
                      SubSeq(ByTitle[variants[n]], 1, k), count) \in UpTo(count)
  <2>1. variants[n] \in Prefix
      BY <1>1, ElementOfSeq
  <2>2. ByTitle[variants[n]] \in Seq(Item)
      BY <2>1, SuggestionsAssumption
  <2>3. SubSeq(ByTitle[variants[n]], 1, k) \in Seq(Item)
    <3>1. k \in Int /\ 1 \in Int /\ \A i \in 1 .. k : ByTitle[variants[n]][i] \in Item
        BY <2>2, LenProperties, ElementOfSeq
    <3> QED BY <3>1, SubSeqProperties
  <2>4. SubSeq(variants, 1, n - 1) \in Seq(Prefix)
    <3>1. n - 1 \in Int /\ 1 \in Int /\ \A i \in 1 .. n - 1 : variants[i] \in Prefix
        BY <1>1, ElementOfSeq
    <3> QED BY <3>1, SubSeqProperties
  <2> HIDE DEF variants
  <2>5. SearchVariants(SubSeq(variants, 1, n - 1), count, <<>>) \in UpTo(count)
      BY <2>4, EmptyIsOrdered, SearchVariantsKeepsOrder
  <2> QED BY <2>3, <2>5, AddFoundKeepsOrder
<1> SUFFICES ASSUME NEW list \in CutShort(prefix, count) PROVE list \in UpTo(count)
    OBVIOUS
<1>3. PICK n \in {m \in DOMAIN variants : variants[m] # NoPrefix} :
          list \in {AddFound(SearchVariants(SubSeq(variants, 1, n - 1), count, <<>>),
                             SubSeq(ByTitle[variants[n]], 1, k), count) :
                        k \in 0 .. Len(ByTitle[variants[n]])}
    BY DEF CutShort
<1>4. PICK k \in 0 .. Len(ByTitle[variants[n]]) :
          list = AddFound(SearchVariants(SubSeq(variants, 1, n - 1), count, <<>>),
                          SubSeq(ByTitle[variants[n]], 1, k), count)
    BY <1>3
<1> QED BY <1>2, <1>3, <1>4

-----------------------------------------------------------------------------
(***************************************************************************)
(* The suggestions that a reader has.                                      *)
(***************************************************************************)

SuggestionsInv ==
    /\ SuggestionsTypeOK
    /\ byTitle => suggestions \in Ordered
    /\ ~byTitle => \E prefix \in Prefix : IsPrefix(suggestions, FullText[prefix])
    /\ suggestions # <<>> => \E count \in Count : Len(suggestions) <= count

LEMMA InvIsInOrder == SuggestionsInv => SuggestionsAreInOrder
<1> SUFFICES ASSUME SuggestionsInv PROVE SuggestionsAreInOrder
    OBVIOUS
<1>1. ASSUME byTitle, NEW i \in DOMAIN suggestions, NEW j \in DOMAIN suggestions, i < j
      PROVE  suggestions[i].norm <= suggestions[j].norm /\ suggestions[i] # suggestions[j]
  <2>1. DOMAIN suggestions = 1 .. Len(suggestions) /\ InOrder(suggestions)
      BY <1>1, LenProperties DEF SuggestionsInv, SuggestionsTypeOK, Ordered
  <2> QED BY <1>1, <2>1 DEF InOrder
<1> QED BY <1>1 DEF SuggestionsInv, SuggestionsAreInOrder

(* What the index finds, from the first on.                                *)
LEMMA BeginningIs ==
    ASSUME NEW prefix \in Prefix, NEW k \in 0 .. Len(FullText[prefix])
    PROVE  /\ SubSeq(FullText[prefix], 1, k) \in Seq(Item)
           /\ Len(SubSeq(FullText[prefix], 1, k)) = k
           /\ IsPrefix(SubSeq(FullText[prefix], 1, k), FullText[prefix])
<1> DEFINE found == FullText[prefix]
           list == SubSeq(found, 1, k)
<1>1. found \in Seq(Item)
    BY SuggestionsAssumption
<1>2. Len(found) \in Nat /\ \A i \in 1 .. Len(found) : found[i] \in Item
    BY <1>1, LenProperties, ElementOfSeq
<1> HIDE DEF found
<1>3. k \in Nat /\ k <= Len(found) /\ 1 \in Int /\ \A i \in 1 .. k : found[i] \in Item
    BY <1>2 DEF found
<1>4. list \in Seq(Item) /\ Len(list) = IF 1 <= k THEN k - 1 + 1 ELSE 0
    BY <1>3, SubSeqProperties
<1>5. Len(list) = k
    BY <1>3, <1>4
<1>6. SubSeq(list, 1, Len(list)) = list
    BY <1>4, SubSeqFull
<1>7. IsPrefix(list, found)
    BY <1>3, <1>5, <1>6 DEF IsPrefix
<1> QED BY <1>4, <1>5, <1>7 DEF found

LEMMA NoSuggestions ==
    ASSUME suggestions' = <<>>, offset' = 0, byTitle' = TRUE PROVE SuggestionsInv'
<1>1. Len(<<>>) = 0 /\ <<>> \in Seq(Item)
    BY EmptySeq
<1> QED BY <1>1, EmptyIsOrdered DEF SuggestionsInv, SuggestionsTypeOK

(* What a search may make, from the titles or from the index.              *)
LEMMA MadeFromTitles ==
    ASSUME NEW count \in Count, suggestions' \in UpTo(count), byTitle' = TRUE,
           offset' \in {0, Dangling}
    PROVE  SuggestionsInv'
<1>1. suggestions' \in Ordered /\ suggestions' \in Seq(Item) /\ Len(suggestions') <= count
    BY DEF UpTo, Ordered
<1>2. Len(suggestions') \in Nat
    BY <1>1, LenProperties
<1>3. offset' \in 0 .. Len(suggestions') \cup {Dangling}
    BY <1>2
<1> QED BY <1>1, <1>3 DEF SuggestionsInv, SuggestionsTypeOK

LEMMA MadeFromIndex ==
    ASSUME NEW count \in Count, NEW prefix \in Prefix,
           NEW k \in 0 .. Min({count, Len(FullText[prefix])}),
           suggestions' = SubSeq(FullText[prefix], 1, k), byTitle' = FALSE,
           offset' \in {0, Dangling}
    PROVE  SuggestionsInv'
<1> DEFINE length == Len(FullText[prefix])
           least == Min({count, length})
<1>1. count \in Nat /\ length \in Nat
    BY SuggestionsAssumption, LenProperties
<1>2. least \in Nat /\ least <= count /\ least <= length
  <2>1. {count, length} \subseteq Nat /\ {count, length} # {}
      BY <1>1
  <2>2. least \in {count, length} /\ \A x \in {count, length} : least <= x
      BY <2>1, SmallestNumber
  <2> HIDE DEF least
  <2> QED BY <1>1, <2>2
<1>3. k \in 0 .. least
    OBVIOUS
<1> HIDE DEF least, length
<1>4. k \in 0 .. length /\ k \in Nat /\ k <= count
    BY <1>1, <1>2, <1>3
<1>5. suggestions' \in Seq(Item) /\ Len(suggestions') = k
      /\ IsPrefix(suggestions', FullText[prefix])
    BY <1>4, BeginningIs DEF length
<1>6. offset' \in 0 .. Len(suggestions') \cup {Dangling}
    BY <1>4, <1>5
<1>7. SuggestionsTypeOK'
    BY <1>5, <1>6, Zenon DEF SuggestionsTypeOK
<1>8. \E c \in Count : Len(suggestions') <= c
    BY <1>4, <1>5
<1>9. \E p \in Prefix : IsPrefix(suggestions', FullText[p])
    BY <1>5
<1> QED BY <1>7, <1>8, <1>9, Zenon DEF SuggestionsInv

LEMMA SmartKeeps ==
    ASSUME NEW prefix \in Prefix, NEW count \in Count, SearchSuggestionsSmart(prefix, count)
    PROVE  SuggestionsInv'
<1>1. count \in Nat /\ Len(FullText[prefix]) \in Nat /\ Variants[prefix] \in Seq(Prefix)
  <2>1. FullText[prefix] \in Seq(Item)
      BY SuggestionsAssumption
  <2> QED BY <2>1, SuggestionsAssumption, LenProperties
<1>2. CASE FullText[prefix] = <<>>
  <2>1. suggestions' \in UpTo(count) /\ offset' = 0 /\ byTitle' = TRUE
      BY <1>1, <1>2, EmptyIsOrdered, SearchVariantsKeepsOrder DEF SearchSuggestionsSmart
  <2> QED BY <2>1, MadeFromTitles
<1>3. CASE FullText[prefix] # <<>>
  <2> DEFINE least == Min({count, Len(FullText[prefix])})
  <2>1. least \in 0 .. least
    <3>1. {count, Len(FullText[prefix])} \subseteq Nat
        BY <1>1
    <3>2. least \in {count, Len(FullText[prefix])}
        BY <3>1, SmallestNumber
    <3>3. least \in Nat
        BY <3>1, <3>2
    <3> HIDE DEF least
    <3> QED BY <3>3
  <2>2. /\ suggestions' = SubSeq(FullText[prefix], 1, least)
        /\ offset' = 0 /\ byTitle' = FALSE
      BY <1>3 DEF SearchSuggestionsSmart
  <2> QED BY <2>1, <2>2, MadeFromIndex
<1> QED BY <1>2, <1>3

LEMMA ThrowKeeps ==
    ASSUME NEW prefix \in Prefix, NEW count \in Count, SearchThrows(prefix, count)
    PROVE  SuggestionsInv'
<1>1. offset' \in {0, Dangling} /\ byTitle' = (FullText[prefix] = <<>>)
    BY DEF SearchThrows
<1>2. CASE FullText[prefix] = <<>>
  <2>1. byTitle' = TRUE
      BY <1>1, <1>2
  <2>2. suggestions' \in {<<>>} \cup CutShort(prefix, count)
      BY <2>1 DEF SearchThrows
  <2>3. suggestions' \in UpTo(count)
      BY <2>2, SuggestionsAssumption, EmptyIsOrdered, CutShortIsOrdered
  <2> QED BY <1>1, <2>1, <2>3, MadeFromTitles
<1>3. CASE FullText[prefix] # <<>>
  <2>1. byTitle' = FALSE
      BY <1>1, <1>3
  <2>2. PICK k \in 0 .. Min({count, Len(FullText[prefix])}) :
            suggestions' = SubSeq(FullText[prefix], 1, k)
      BY <2>1 DEF SearchThrows
  <2> QED BY <1>1, <2>1, <2>2, MadeFromIndex
<1> QED BY <1>2, <1>3

LEMMA NextSuggestionKeeps ==
    ASSUME SuggestionsInv, GetNextSuggestion PROVE SuggestionsInv'
<1>1. Len(suggestions) \in Nat
    BY LenProperties DEF SuggestionsInv, SuggestionsTypeOK
<1>2. offset \in 0 .. Len(suggestions)
    BY DEF GetNextSuggestion, SuggestionsInv, SuggestionsTypeOK
<1>3. offset' \in 0 .. Len(suggestions) /\ UNCHANGED <<suggestions, byTitle>>
    BY <1>1, <1>2 DEF GetNextSuggestion
<1> QED BY <1>3 DEF SuggestionsInv, SuggestionsTypeOK

LEMMA SuggestionsAlone ==
    ASSUME SuggestionsInv, UNCHANGED suggestionsVars PROVE SuggestionsInv'
BY DEF SuggestionsInv, SuggestionsTypeOK, suggestionsVars

LEMMA NextKeepsSuggestions ==
    ASSUME SuggestionsInv, [Next]_bindingsVars PROVE SuggestionsInv'
<1>1. ASSUME NEW t \in Thread, DisposeReader(t) PROVE SuggestionsInv'
    BY <1>1, NoSuggestions DEF DisposeReader
<1>2. ASSUME NEW t \in Thread, NEW prefix \in Prefix, NEW count \in Count,
             SearchSuggestions(t, prefix, count)
      PROVE  SuggestionsInv'
    BY <1>2, SmartKeeps, ThrowKeeps DEF SearchSuggestions
<1>3. ASSUME NEW t \in Thread, NextSuggestion(t) PROVE SuggestionsInv'
    BY <1>3, NextSuggestionKeeps, SuggestionsAlone DEF NextSuggestion
<1>4. CASE UNCHANGED suggestionsVars
    BY <1>4, SuggestionsAlone
<1>5. ASSUME NEW t \in Thread, Step(t)
      PROVE  \/ DisposeReader(t) \/ NextSuggestion(t) \/ UNCHANGED suggestionsVars
             \/ \E prefix \in Prefix, count \in Count : SearchSuggestions(t, prefix, count)
    BY <1>5 DEF Step, TakeLock, Construct, OpenFails, HandleEnds, ReadMetadata, ReadPart,
                StartServer, StopServer, ReadBooks
<1>6. Next => \/ \E t \in Thread : Step(t)
              \/ UNCHANGED suggestionsVars
    BY DEF Next, Enter, Forget, Finalize, ServeFreedLibrary, Race
<1>7. UNCHANGED bindingsVars => UNCHANGED suggestionsVars
    BY DEF bindingsVars, suggestionsVars
<1> QED BY <1>1, <1>2, <1>3, <1>4, <1>5, <1>6, <1>7

THEOREM SuggestionsInvariant == Spec => []SuggestionsInv
<1>1. Init => SuggestionsInv
  <2>1. Len(<<>>) = 0 /\ <<>> \in Seq(Item)
      BY EmptySeq
  <2> QED BY <2>1, EmptyIsOrdered DEF Init, SuggestionsInit, SuggestionsInv, SuggestionsTypeOK
<1>2. SuggestionsInv /\ [Next]_bindingsVars => SuggestionsInv'
    BY NextKeepsSuggestions
<1> QED BY <1>1, <1>2, PTL DEF Spec

(* For every archive, every prefix and every number of its variants, be    *)
(* the search complete or cut short by an exception: what the titles give  *)
(* is in their order and has no title with the same article twice, what    *)
(* the index gives is what it finds, from the first on, and neither is     *)
(* longer than somebody asked for.                                         *)
THEOREM SuggestionsCorrect == Spec => []SuggestionsAreInOrder
<1> QED BY InvIsInOrder, SuggestionsInvariant, PTL

-----------------------------------------------------------------------------
(***************************************************************************)
(* The objects, the threads and the collector.                             *)
(***************************************************************************)

(* A running call has the objects that it needs; what the application or a *)
(* call has is alive; whoever makes an object is the only one, and whoever *)
(* disposes of the reader has it alone.                                    *)
CallsHaveNeeds == \A t \in Thread : thread[t].on = Needs(thread[t].call)

InUseIsLive ==
    /\ \A o \in roots : native[o] = "live"
    /\ \A t \in Thread : \A o \in thread[t].on : native[o] = "live"

MakersAreAlone ==
    \A t \in Thread : \A o \in Makes(thread[t].call) :
        /\ native[o] = "none"
        /\ \A u \in Thread \ {t} : o \notin Makes(thread[u].call)

DisposerIsAlone ==
    \A t \in Thread : thread[t].call = "dispose reader" =>
        "reader" \notin roots /\ \A u \in Thread \ {t} : "reader" \notin thread[u].on

ObjectsTyped ==
    /\ native \in [Object -> {"none", "live", "freed"}]
    /\ roots \subseteq Object
    /\ thread \in [Thread -> [call : Call \cup {"none"}, locks : 0 .. 2, on : SUBSET Object]]

ObjectsInv ==
    /\ ObjectsTyped
    /\ CallsHaveNeeds /\ InUseIsLive /\ MakersAreAlone /\ DisposerIsAlone
    /\ ManagerHasItsLibrary

LEMMA CallsNeedObjects ==
    ASSUME NEW call \in Call \cup {"none"}
    PROVE  /\ Needs(call) \subseteq Object /\ Makes(call) \subseteq Object
           /\ Locks(call) \in 0 .. 2
<1>1. Needs(call) \subseteq Object
    BY DEF Needs, Object, Call
<1>2. Makes(call) \subseteq Object
    BY DEF Makes, Object, Call
<1>3. Locks(call) \in {0, 1, 2}
    BY DEF Locks, Call
<1> QED BY <1>1, <1>2, <1>3

LEMMA IdleNeedsNothing == Needs("none") = {} /\ Makes("none") = {}
BY DEF Needs, Makes

(* One thread's record changes.                                            *)
LEMMA OneThread ==
    ASSUME ObjectsTyped, NEW t \in Thread, NEW it, thread' = [thread EXCEPT ![t] = it]
    PROVE  thread'[t] = it /\ \A u \in Thread \ {t} : thread'[u] = thread[u]
BY DEF ObjectsTyped

(* The objects in use become fewer, and are what they were.                *)
LEMMA LessInUse ==
    ASSUME ManagerHasItsLibrary, UNCHANGED native, roots' \subseteq roots,
           \A u \in Thread : thread'[u].on \subseteq thread[u].on \cup roots
    PROVE  ManagerHasItsLibrary'
<1>1. InUse' = roots' \cup UNION {thread'[u].on : u \in Thread}
    BY DEF InUse
<1>2. roots \subseteq InUse /\ \A u \in Thread : thread[u].on \subseteq InUse
    BY DEF InUse
<1>3. \A u \in Thread : thread'[u].on \subseteq InUse
    BY <1>2
<1>4. InUse' \subseteq InUse
    BY ONLY <1>1, <1>2, <1>3, roots' \subseteq roots
<1> QED BY ONLY <1>4, ManagerHasItsLibrary, native' = native DEF ManagerHasItsLibrary

LEMMA EnterKeeps ==
    ASSUME ObjectsInv, NEW t \in Thread, NEW call \in Call, Enter(t, call)
    PROVE  ObjectsInv'
<1> DEFINE it == [call |-> call, locks |-> Locks(call), on |-> Needs(call)]
<1>1. ObjectsTyped /\ CallsHaveNeeds /\ InUseIsLive /\ MakersAreAlone /\ DisposerIsAlone
    BY DEF ObjectsInv
<1>2. /\ thread' = [thread EXCEPT ![t] = it] /\ UNCHANGED native
      /\ thread[t].call = "none"
      /\ Needs(call) \subseteq roots
      /\ \A o \in Makes(call) : native[o] = "none"
                                /\ \A u \in Thread : o \notin Makes(thread[u].call)
      /\ call = "dispose reader" => \A u \in Thread : "reader" \notin thread[u].on
      /\ roots' = IF call = "dispose reader" THEN roots \ {"reader"} ELSE roots
    BY DEF Enter, Busy
<1>3. thread'[t] = it /\ \A u \in Thread \ {t} : thread'[u] = thread[u]
    BY <1>1, <1>2, OneThread
<1>4. it.call = call /\ it.on = Needs(call)
    OBVIOUS
<1>5. ObjectsTyped'
  <2>1. it \in [call : Call \cup {"none"}, locks : 0 .. 2, on : SUBSET Object]
      BY CallsNeedObjects
  <2> HIDE DEF it
  <2> QED BY <1>1, <1>2, <2>1 DEF ObjectsTyped
<1> HIDE DEF it
<1>6. CallsHaveNeeds'
    BY <1>1, <1>3, <1>4 DEF CallsHaveNeeds
<1>7. InUseIsLive'
  <2>1. roots' \subseteq roots /\ \A o \in roots : native[o] = "live"
      BY <1>1, <1>2 DEF InUseIsLive
  <2>2. \A o \in Needs(call) : native[o] = "live"
      BY <1>2, <2>1
  <2>3. \A u \in Thread \ {t} : \A o \in thread[u].on : native[o] = "live"
      BY <1>1 DEF InUseIsLive
  <2>4. \A u \in Thread : \A o \in thread'[u].on : native[o] = "live"
      BY <1>3, <1>4, <2>2, <2>3
  <2> QED BY <1>2, <2>1, <2>4 DEF InUseIsLive
<1>8. MakersAreAlone'
  <2> SUFFICES ASSUME NEW u \in Thread, NEW o \in Makes(thread'[u].call)
               PROVE  native[o] = "none"
                      /\ \A v \in Thread \ {u} : o \notin Makes(thread'[v].call)
      BY <1>2 DEF MakersAreAlone
  <2>1. CASE u = t
      BY <1>2, <1>3, <1>4, <2>1
  <2>2. CASE u # t
    <3>1. o \in Makes(thread[u].call)
        BY <1>3, <2>2
    <3>2. native[o] = "none" /\ \A v \in Thread \ {u} : o \notin Makes(thread[v].call)
        BY <1>1, <3>1 DEF MakersAreAlone
    <3>3. o \notin Makes(call)
        BY <1>2, <3>1
    <3> QED BY <1>3, <1>4, <3>2, <3>3
  <2> QED BY <2>1, <2>2
<1>9. DisposerIsAlone'
  <2> SUFFICES ASSUME NEW u \in Thread, thread'[u].call = "dispose reader"
               PROVE  "reader" \notin roots'
                      /\ \A v \in Thread \ {u} : "reader" \notin thread'[v].on
      BY DEF DisposerIsAlone
  <2>1. CASE u = t
      BY <1>2, <1>3, <1>4, <2>1
  <2>2. CASE u # t
    <3>1. "reader" \notin roots /\ \A v \in Thread \ {u} : "reader" \notin thread[v].on
        BY <1>1, <1>3, <2>2 DEF DisposerIsAlone
    <3>2. "reader" \notin Needs(call)
        BY <1>2, <3>1
    <3>3. roots' \subseteq roots
        BY <1>2
    <3>4. \A v \in Thread \ {u} : "reader" \notin thread'[v].on
        BY ONLY <1>3, <1>4, <3>1, <3>2
    <3> QED BY ONLY <3>1, <3>3, <3>4
  <2> QED BY <2>1, <2>2
<1>10. ManagerHasItsLibrary'
  <2>1. ManagerHasItsLibrary /\ UNCHANGED native /\ roots' \subseteq roots
      BY <1>2 DEF ObjectsInv
  <2>2. \A u \in Thread : thread'[u].on \subseteq thread[u].on \cup roots
      BY <1>2, <1>3, <1>4
  <2> QED BY ONLY <2>1, <2>2, LessInUse
<1> QED BY <1>5, <1>6, <1>7, <1>8, <1>9, <1>10 DEF ObjectsInv

(* Calls end, or stay as they are, and the objects as well.                *)
LEMMA CallsEndOrStay ==
    ASSUME ObjectsInv, UNCHANGED <<native, roots>>,
           \A u \in Thread :
               \/ thread'[u].call = thread[u].call /\ thread'[u].on = thread[u].on
               \/ thread'[u].call = "none" /\ thread'[u].on = {}
    PROVE  /\ CallsHaveNeeds' /\ InUseIsLive' /\ MakersAreAlone' /\ DisposerIsAlone'
           /\ ManagerHasItsLibrary'
<1>1. /\ CallsHaveNeeds /\ InUseIsLive /\ MakersAreAlone /\ DisposerIsAlone
      /\ ManagerHasItsLibrary
    BY DEF ObjectsInv
<1>2. Needs("none") = {} /\ Makes("none") = {}
    BY IdleNeedsNothing DEF Idle
<1>3. \A u \in Thread : /\ thread'[u].on \subseteq thread[u].on
                         /\ Makes(thread'[u].call) \subseteq Makes(thread[u].call)
    BY <1>2
<1>4. CallsHaveNeeds'
    BY <1>1, <1>2 DEF CallsHaveNeeds
<1>5. InUseIsLive'
    BY <1>1, <1>3 DEF InUseIsLive
<1>6. MakersAreAlone'
    BY <1>1, <1>3 DEF MakersAreAlone
<1>7. DisposerIsAlone'
  <2> SUFFICES ASSUME NEW u \in Thread, thread'[u].call = "dispose reader"
               PROVE  "reader" \notin roots'
                      /\ \A v \in Thread \ {u} : "reader" \notin thread'[v].on
      BY DEF DisposerIsAlone
  <2>1. thread[u].call = "dispose reader"
      OBVIOUS
  <2> QED BY <1>1, <1>3, <2>1 DEF DisposerIsAlone
<1>8. ManagerHasItsLibrary'
  <2>1. \A u \in Thread : thread'[u].on \subseteq thread[u].on \cup roots
      BY <1>3
  <2> QED BY ONLY <1>1, <2>1, UNCHANGED <<native, roots>>, LessInUse
<1> QED BY <1>4, <1>5, <1>6, <1>7, <1>8

(* A call ends and leaves the objects as they are.                         *)
LEMMA ReturnKeeps ==
    ASSUME ObjectsInv, NEW t \in Thread, Return(t), UNCHANGED <<native, roots>>
    PROVE  ObjectsInv'
<1>1. ObjectsTyped /\ thread' = [thread EXCEPT ![t] = Idle]
    BY DEF ObjectsInv, Return
<1>2. thread'[t] = Idle /\ \A u \in Thread \ {t} : thread'[u] = thread[u]
    BY <1>1, OneThread
<1>3. Idle.call = "none" /\ Idle.on = {}
    BY DEF Idle
<1>4. ObjectsTyped'
    BY <1>1 DEF ObjectsTyped, Idle
<1> QED BY <1>2, <1>3, <1>4, CallsEndOrStay DEF ObjectsInv

(* Taking a lock changes neither the call nor its objects.                 *)
LEMMA TakeLockKeeps ==
    ASSUME ObjectsInv, NEW t \in Thread, TakeLock(t) PROVE ObjectsInv'
<1>1. /\ ObjectsTyped /\ thread' = [thread EXCEPT ![t].locks = @ - 1]
      /\ thread[t].locks > 0 /\ UNCHANGED <<native, roots>>
    BY DEF ObjectsInv, TakeLock
<1>2. \A u \in Thread : thread'[u].call = thread[u].call /\ thread'[u].on = thread[u].on
    BY <1>1 DEF ObjectsTyped
<1>3. ObjectsTyped'
  <2>1. thread[t].locks \in 0 .. 2 /\ thread[t].locks - 1 \in 0 .. 2
      BY <1>1 DEF ObjectsTyped
  <2> QED BY <1>1, <2>1 DEF ObjectsTyped
<1> QED BY <1>1, <1>2, <1>3, CallsEndOrStay DEF ObjectsInv

LEMMA ConstructKeeps ==
    ASSUME ObjectsInv, NEW t \in Thread, NEW call \in Call, Construct(t, call)
    PROVE  ObjectsInv'
<1>1. /\ ObjectsTyped /\ CallsHaveNeeds /\ InUseIsLive /\ MakersAreAlone /\ DisposerIsAlone
      /\ thread' = [thread EXCEPT ![t] = Idle] /\ thread[t].call = call
      /\ native' = [o \in Object |-> IF o \in Makes(call) THEN "live" ELSE native[o]]
      /\ roots' = roots \cup Makes(call)
    BY DEF ObjectsInv, Construct, Return, Runs
<1>2. thread'[t] = Idle /\ \A u \in Thread \ {t} : thread'[u] = thread[u]
    BY <1>1, OneThread
<1>3. Idle.call = "none" /\ Idle.on = {} /\ Needs(Idle.call) = {} /\ Makes(Idle.call) = {}
    BY IdleNeedsNothing DEF Idle
<1>4. Makes(call) \subseteq Object
    BY CallsNeedObjects
<1>5. \A o \in Makes(call) : native[o] = "none" /\ native'[o] = "live"
    BY <1>1, <1>4 DEF MakersAreAlone
<1>6. \A o \in Object : native[o] = "live" => native'[o] = "live"
    BY <1>1
<1>7. ObjectsTyped'
    BY <1>1, <1>4 DEF ObjectsTyped, Idle
<1>8. CallsHaveNeeds'
    BY <1>1, <1>2, <1>3 DEF CallsHaveNeeds
<1>9. InUseIsLive'
  <2>1. \A o \in roots' : native'[o] = "live"
      BY <1>1, <1>5, <1>6 DEF InUseIsLive, ObjectsTyped
  <2>2. \A u \in Thread \ {t} : \A o \in thread[u].on : o \in Object /\ native[o] = "live"
      BY <1>1 DEF InUseIsLive, ObjectsTyped
  <2>3. \A u \in Thread : \A o \in thread'[u].on : native'[o] = "live"
      BY <1>2, <1>3, <1>6, <2>2
  <2> QED BY <2>1, <2>3 DEF InUseIsLive
<1>10. MakersAreAlone'
  <2> SUFFICES ASSUME NEW u \in Thread, NEW o \in Makes(thread'[u].call)
               PROVE  native'[o] = "none"
                      /\ \A v \in Thread \ {u} : o \notin Makes(thread'[v].call)
      BY DEF MakersAreAlone
  <2>1. u # t /\ o \in Makes(thread[u].call)
      BY <1>2, <1>3
  <2>2. native[o] = "none" /\ \A v \in Thread \ {u} : o \notin Makes(thread[v].call)
      BY <1>1, <2>1 DEF MakersAreAlone
  <2>3. o \notin Makes(call) /\ o \in Object
    <3>1. thread[u].call \in Call \cup {"none"}
        BY <1>1 DEF ObjectsTyped
    <3> QED BY <1>1, <2>1, <2>2, <3>1, CallsNeedObjects
  <2> QED BY <1>1, <1>2, <1>3, <2>2, <2>3
<1>11. DisposerIsAlone'
  <2> SUFFICES ASSUME NEW u \in Thread, thread'[u].call = "dispose reader"
               PROVE  "reader" \notin roots'
                      /\ \A v \in Thread \ {u} : "reader" \notin thread'[v].on
      BY DEF DisposerIsAlone
  <2>1. u # t /\ thread[u].call = "dispose reader"
      BY <1>2, <1>3
  <2>2. "reader" \notin roots /\ \A v \in Thread \ {u} : "reader" \notin thread[v].on
      BY <1>1, <2>1 DEF DisposerIsAlone
  <2>3. "reader" \notin Makes(call)
    <3>1. "reader" \in Needs("dispose reader")
        BY DEF Needs
    <3>2. native["reader"] = "live"
        BY <1>1, <2>1, <3>1 DEF CallsHaveNeeds, InUseIsLive
    <3> QED BY <1>5, <3>2
  <2> QED BY <1>1, <1>2, <1>3, <2>2, <2>3
<1>12. ManagerHasItsLibrary'
  <2> SUFFICES ASSUME native'["manager"] = "live", "manager" \in InUse'
               PROVE  native'["library"] = "live"
      BY DEF ManagerHasItsLibrary
  <2>1. "library" \in Object /\ "manager" \in Object
      BY DEF Object
  <2>2. CASE "manager" \in Makes(call)
    <3>1. "library" \in Needs(call)
        BY <2>2 DEF Makes, Needs, Call
    <3>2. native["library"] = "live"
        BY <1>1, <3>1 DEF CallsHaveNeeds, InUseIsLive
    <3> QED BY <1>6, <2>1, <3>2
  <2>3. CASE "manager" \notin Makes(call)
    <3>1. native["manager"] = "live"
        BY <1>1, <2>1, <2>3
    <3>2. "manager" \in InUse
        BY <1>1, <1>2, <1>3, <2>3 DEF InUse
    <3>3. native["library"] = "live"
        BY <3>1, <3>2 DEF ObjectsInv, ManagerHasItsLibrary
    <3> QED BY <1>6, <2>1, <3>3
  <2> QED BY <2>2, <2>3
<1> QED BY <1>7, <1>8, <1>9, <1>10, <1>11, <1>12 DEF ObjectsInv

LEMMA DisposeKeeps ==
    ASSUME ObjectsInv, NEW t \in Thread, DisposeReader(t) PROVE ObjectsInv'
<1>1. /\ ObjectsTyped /\ CallsHaveNeeds /\ InUseIsLive /\ MakersAreAlone /\ DisposerIsAlone
      /\ thread' = [thread EXCEPT ![t] = Idle] /\ thread[t].call = "dispose reader"
      /\ native' = [native EXCEPT !["reader"] = "freed"] /\ UNCHANGED roots
    BY DEF ObjectsInv, DisposeReader, Return, Runs
<1>2. thread'[t] = Idle /\ \A u \in Thread \ {t} : thread'[u] = thread[u]
    BY <1>1, OneThread
<1>3. Idle.call = "none" /\ Idle.on = {} /\ Needs(Idle.call) = {} /\ Makes(Idle.call) = {}
    BY IdleNeedsNothing DEF Idle
<1>4. \A o \in Object : o # "reader" => native'[o] = native[o]
    BY <1>1 DEF ObjectsTyped
<1>5. "reader" \notin roots /\ \A u \in Thread \ {t} : "reader" \notin thread[u].on
    BY <1>1 DEF DisposerIsAlone
<1>6. native["reader"] = "live"
  <2>1. "reader" \in Needs("dispose reader")
      BY DEF Needs
  <2> QED BY <1>1, <2>1 DEF CallsHaveNeeds, InUseIsLive
<1>7. ObjectsTyped' /\ CallsHaveNeeds'
  <2>1. CallsHaveNeeds'
      BY <1>1, <1>2, <1>3 DEF CallsHaveNeeds
  <2>2. native' \in [Object -> {"none", "live", "freed"}]
      BY <1>1 DEF ObjectsTyped
  <2>3. Idle \in [call : Call \cup {"none"}, locks : 0 .. 2, on : SUBSET Object]
      BY DEF Idle
  <2>4. thread' \in [Thread -> [call : Call \cup {"none"}, locks : 0 .. 2, on : SUBSET Object]]
      BY <1>1, <2>3 DEF ObjectsTyped
  <2> QED BY <1>1, <2>1, <2>2, <2>4 DEF ObjectsTyped
<1>8. InUseIsLive'
  <2>1. \A o \in roots : o \in Object /\ o # "reader" /\ native[o] = "live"
      BY <1>1, <1>5 DEF InUseIsLive, ObjectsTyped
  <2>2. \A u \in Thread \ {t} : \A o \in thread[u].on :
            o \in Object /\ o # "reader" /\ native[o] = "live"
    <3>1. \A u \in Thread : thread[u].on \subseteq Object
        BY <1>1 DEF ObjectsTyped
    <3>2. \A u \in Thread : \A o \in thread[u].on : native[o] = "live"
        BY <1>1 DEF InUseIsLive
    <3> QED BY <1>5, <3>1, <3>2
  <2>3. \A u \in Thread : \A o \in thread'[u].on : native'[o] = "live"
      BY <1>2, <1>3, <1>4, <2>2
  <2> QED BY <1>1, <1>4, <2>1, <2>3 DEF InUseIsLive
<1>9. MakersAreAlone'
  <2> SUFFICES ASSUME NEW u \in Thread, NEW o \in Makes(thread'[u].call)
               PROVE  native'[o] = "none"
                      /\ \A v \in Thread \ {u} : o \notin Makes(thread'[v].call)
      BY DEF MakersAreAlone
  <2>1. u # t /\ o \in Makes(thread[u].call)
      BY <1>2, <1>3
  <2>2. native[o] = "none" /\ \A v \in Thread \ {u} : o \notin Makes(thread[v].call)
      BY <1>1, <2>1 DEF MakersAreAlone
  <2>3. o \in Object /\ o # "reader"
    <3>1. thread[u].call \in Call \cup {"none"}
        BY <1>1 DEF ObjectsTyped
    <3> QED BY <1>6, <2>1, <2>2, <3>1, CallsNeedObjects
  <2> QED BY <1>2, <1>3, <1>4, <2>2, <2>3
<1>10. DisposerIsAlone'
    BY <1>1, <1>2, <1>3, <1>5 DEF DisposerIsAlone
<1>11. ManagerHasItsLibrary'
  <2>1. "library" \in Object /\ "manager" \in Object
      BY DEF Object
  <2>2. "manager" \in InUse' => "manager" \in InUse
    <3>1. \A u \in Thread : thread'[u].on \subseteq thread[u].on
        BY <1>2, <1>3
    <3> QED BY <1>1, <3>1 DEF InUse
  <2> QED BY <1>4, <2>1, <2>2 DEF ObjectsInv, ManagerHasItsLibrary
<1> QED BY <1>7, <1>8, <1>9, <1>10, <1>11 DEF ObjectsInv

(* The collector takes nothing that is in use, and no library whose        *)
(* manager is: the field of the Java object holds it.                      *)
LEMMA FinalizeKeeps ==
    ASSUME ObjectsInv, NEW o \in Finalizable, Finalize(o) PROVE ObjectsInv'
<1>1. /\ ObjectsTyped /\ CallsHaveNeeds /\ InUseIsLive /\ MakersAreAlone /\ DisposerIsAlone
      /\ native' = [native EXCEPT ![o] = "freed"] /\ native[o] = "live"
      /\ UNCHANGED <<roots, thread>> /\ o \notin Reachable /\ o \in Object
    BY DEF ObjectsInv, Finalize, Finalizable, Object
<1>2. native'[o] = "freed" /\ \A other \in Object : other # o => native'[other] = native[other]
    BY <1>1 DEF ObjectsTyped
<1>3. o \notin roots /\ \A t \in Thread : o \notin thread[t].on
    BY <1>1 DEF Reachable, InUse
<1>4. ObjectsTyped' /\ CallsHaveNeeds' /\ DisposerIsAlone'
    BY <1>1 DEF ObjectsTyped, CallsHaveNeeds, DisposerIsAlone
<1>5. InUseIsLive'
    BY <1>1, <1>2, <1>3 DEF InUseIsLive, ObjectsTyped
<1>6. MakersAreAlone'
  <2> SUFFICES ASSUME NEW u \in Thread, NEW made \in Makes(thread[u].call)
               PROVE  native'[made] = "none"
                      /\ \A v \in Thread \ {u} : made \notin Makes(thread[v].call)
      BY <1>1 DEF MakersAreAlone
  <2>1. native[made] = "none" /\ \A v \in Thread \ {u} : made \notin Makes(thread[v].call)
      BY <1>1 DEF MakersAreAlone
  <2>2. made \in Object /\ made # o
    <3>1. thread[u].call \in Call \cup {"none"}
        BY <1>1 DEF ObjectsTyped
    <3> QED BY <1>1, <2>1, <3>1, CallsNeedObjects
  <2> QED BY <1>2, <2>1, <2>2
<1>7. ManagerHasItsLibrary'
  <2> SUFFICES ASSUME native'["manager"] = "live", "manager" \in InUse
               PROVE  native'["library"] = "live"
      BY <1>1 DEF ManagerHasItsLibrary, InUse
  <2>1. "library" \in Object /\ "manager" \in Object
      BY DEF Object
  <2>2. o # "library"
      BY <1>1 DEF Reachable
  <2>3. native["manager"] = "live"
      BY <1>2, <2>1
  <2> QED BY <1>2, <2>1, <2>2, <2>3 DEF ObjectsInv, ManagerHasItsLibrary
<1> QED BY <1>4, <1>5, <1>6, <1>7 DEF ObjectsInv

LEMMA ObjectsAlone ==
    ASSUME ObjectsInv, UNCHANGED <<native, thread>>, roots' \subseteq roots
    PROVE  ObjectsInv'
<1>1. InUse' \subseteq InUse
    BY DEF InUse
<1> QED BY <1>1 DEF ObjectsInv, ObjectsTyped, CallsHaveNeeds, InUseIsLive, MakersAreAlone,
                    DisposerIsAlone, ManagerHasItsLibrary

LEMMA NextKeepsObjects ==
    ASSUME ObjectsInv, [Next]_bindingsVars PROVE ObjectsInv'
<1>1. ASSUME NEW t \in Thread, Step(t) PROVE ObjectsInv'
  <2>1. CASE TakeLock(t)
      BY <2>1, TakeLockKeeps
  <2>2. CASE \E call \in Call : Construct(t, call)
      BY <2>2, ConstructKeeps
  <2>3. CASE DisposeReader(t)
      BY <2>3, DisposeKeeps
  <2>4. CASE \/ OpenFails(t) \/ ReadMetadata(t) \/ StartServer(t) \/ StopServer(t)
             \/ \E url \in Url, from, len \in 0..MaxInt : ReadPart(t, url, from, len)
             \/ \E prefix \in Prefix, count \in Count : SearchSuggestions(t, prefix, count)
    <3>1. Return(t) /\ UNCHANGED <<native, roots>>
        BY <2>4 DEF OpenFails, ReadMetadata, StartServer, StopServer, ReadPart, SearchSuggestions
    <3> QED BY <3>1, ReturnKeeps
  <2>5. CASE NextSuggestion(t) \/ ReadBooks(t)
    <3>1. UNCHANGED <<native, roots>> /\ (Return(t) \/ UNCHANGED thread)
        BY <2>5 DEF NextSuggestion, ReadBooks
    <3> QED BY <3>1, ReturnKeeps, ObjectsAlone
  <2>6. CASE HandleEnds(t)
      BY <2>6, ObjectsAlone DEF HandleEnds
  <2> QED BY <1>1, <2>1, <2>2, <2>3, <2>4, <2>5, <2>6 DEF Step
<1>2. ASSUME NEW t \in Thread, NEW call \in Call, Enter(t, call) PROVE ObjectsInv'
    BY <1>2, EnterKeeps
<1>3. ASSUME NEW o \in Finalizable, Forget(o) PROVE ObjectsInv'
    BY <1>3, ObjectsAlone DEF Forget
<1>4. ASSUME NEW o \in Finalizable, Finalize(o) PROVE ObjectsInv'
    BY <1>4, FinalizeKeeps
<1>5. CASE ServeFreedLibrary \/ (\E t, u \in Thread : Race(t, u)) \/ UNCHANGED bindingsVars
    BY <1>5, ObjectsAlone DEF ServeFreedLibrary, Race, bindingsVars
<1> QED BY <1>1, <1>2, <1>3, <1>4, <1>5 DEF Next

THEOREM ObjectsInvariant == Spec => []ObjectsInv
<1>1. Init => ObjectsInv
  <2> SUFFICES ASSUME Init PROVE ObjectsInv
      OBVIOUS
  <2>1. /\ native = [o \in Object |-> "none"] /\ roots = {}
        /\ \A t \in Thread : thread[t].call = "none" /\ thread[t].on = {}
      BY DEF Init, Idle
  <2>2. ObjectsTyped
    <3>1. Idle \in [call : Call \cup {"none"}, locks : 0 .. 2, on : SUBSET Object]
        BY DEF Idle
    <3> QED BY <2>1, <3>1 DEF Init, ObjectsTyped
  <2>3. native["manager"] # "live"
      BY <2>1 DEF Object
  <2> QED BY <2>1, <2>2, <2>3, IdleNeedsNothing
          DEF ObjectsInv, CallsHaveNeeds, InUseIsLive, MakersAreAlone, DisposerIsAlone,
              ManagerHasItsLibrary
<1>2. ObjectsInv /\ [Next]_bindingsVars => ObjectsInv'
    BY NextKeepsObjects
<1> QED BY <1>1, <1>2, PTL DEF Spec

(* For any number of threads, however the collector and the calls          *)
(* interleave: the Java field that a manager keeps is enough for its C++   *)
(* object never to have a library that is gone.                            *)
THEOREM ManagerCorrect == Spec => []ManagerHasItsLibrary
<1>1. ObjectsInv => ManagerHasItsLibrary
    BY DEF ObjectsInv
<1> QED BY <1>1, ObjectsInvariant, PTL

(* The rest of the types: a thread that has or awaits the lock is in a     *)
(* call.                                                                   *)
LockInv ==
    /\ globalLock \in {t \in Thread : Busy(t)} \cup {NoThread}
    /\ \A t \in Thread : thread[t].locks > 0 => Busy(t)

AnswersTyped ==
    /\ serving \in BOOLEAN
    /\ part.url \in Url => part.size \in Nat
    /\ crashed \in {"no", "server", "manager", "iterator", "race"}

LEMMA SizeIsReported ==
    ASSUME NEW url, NEW from \in Nat, NEW len \in Nat PROVE ReportedSize(url, from, len) \in Nat
<1> DEFINE entry == FinalEntry(url)
<1> HIDE DEF entry
<1>1. entry \in DOMAIN Size => Size[entry] \in Nat
    BY BindingsAssumption
<1> QED BY <1>1 DEF ReportedSize, entry

LEMMA NextKeepsAnswers ==
    ASSUME AnswersTyped, [Next]_bindingsVars PROVE AnswersTyped'
<1>1. ASSUME NEW t \in Thread, NEW url \in Url, NEW from \in 0 .. MaxInt, NEW len \in 0 .. MaxInt,
             ReadPart(t, url, from, len)
      PROVE  AnswersTyped'
  <2>1. ReportedSize(url, from, len) \in Nat
      BY BindingsAssumption, SizeIsReported
  <2> QED BY <1>1, <2>1 DEF ReadPart, AnswersTyped
<1>2. ASSUME NEW t \in Thread, NEW call \in Call, Enter(t, call) PROVE AnswersTyped'
    BY <1>2 DEF Enter, NoPart, AnswersTyped
<1>3. ASSUME NEW t \in Thread, StartServer(t) \/ StopServer(t) PROVE AnswersTyped'
    BY <1>3 DEF StartServer, StopServer, AnswersTyped
<1>4. ASSUME NEW t \in Thread, NextSuggestion(t) \/ ReadBooks(t) PROVE AnswersTyped'
    BY <1>4 DEF NextSuggestion, ReadBooks, AnswersTyped
<1>5. CASE ServeFreedLibrary \/ \E t, u \in Thread : Race(t, u)
    BY <1>5 DEF ServeFreedLibrary, Race, AnswersTyped
<1>6. CASE UNCHANGED <<serving, part, crashed>>
    BY <1>6 DEF AnswersTyped
<1>7. UNCHANGED bindingsVars => UNCHANGED <<serving, part, crashed>>
    BY DEF bindingsVars
<1>8. ASSUME NEW t \in Thread, Step(t)
      PROVE  \/ UNCHANGED <<serving, part, crashed>>
             \/ StartServer(t) \/ StopServer(t) \/ NextSuggestion(t) \/ ReadBooks(t)
             \/ \E url \in Url, from, len \in 0 .. MaxInt : ReadPart(t, url, from, len)
    BY <1>8 DEF Step, TakeLock, Construct, OpenFails, DisposeReader, HandleEnds, ReadMetadata,
                SearchSuggestions
<1>9. ASSUME NEW o \in Finalizable, Forget(o) \/ Finalize(o)
      PROVE  UNCHANGED <<serving, part, crashed>>
    BY <1>9 DEF Forget, Finalize
<1> QED BY <1>1, <1>2, <1>3, <1>4, <1>5, <1>6, <1>7, <1>8, <1>9 DEF Next

LEMMA NextKeepsLock ==
    ASSUME ObjectsTyped, LockInv, [Next]_bindingsVars PROVE LockInv'
<1>1. ASSUME NEW t \in Thread, NEW it, thread' = [thread EXCEPT ![t] = it],
             globalLock' = globalLock \/ (globalLock = t /\ globalLock' = NoThread),
             it.call # "none" \/ (it.locks = 0 /\ globalLock' # t)
      PROVE  LockInv'
  <2>1. thread'[t] = it /\ \A u \in Thread \ {t} : thread'[u] = thread[u]
      BY <1>1, OneThread
  <2>2. \A u \in Thread \ {t} : Busy(u) = Busy(u)'
      BY <2>1 DEF Busy
  <2>3. \A u \in Thread : thread'[u].locks > 0 => Busy(u)'
    <3>1. CASE it.call # "none"
        BY <2>1, <2>2, <3>1 DEF LockInv, Busy
    <3>2. CASE it.locks = 0
        BY <2>1, <2>2, <3>2 DEF LockInv, Busy
    <3> QED BY <1>1, <3>1, <3>2
  <2>4. globalLock' \in {u \in Thread : Busy(u)'} \cup {NoThread}
    <3>1. globalLock' \in {u \in Thread : Busy(u)} \cup {NoThread}
        BY <1>1 DEF LockInv
    <3>2. globalLock' = t => it.call # "none"
        BY <1>1
    <3> QED BY <2>1, <2>2, <3>1, <3>2 DEF Busy
  <2> QED BY <2>3, <2>4 DEF LockInv, Busy
<1>2. CASE UNCHANGED <<thread, globalLock>>
    BY <1>2 DEF LockInv, Busy
<1>3. ASSUME NEW t \in Thread, Return(t) PROVE LockInv'
  <2>1. Idle.locks = 0
      BY DEF Idle
  <2>2. /\ thread' = [thread EXCEPT ![t] = Idle]
        /\ globalLock' = IF globalLock = t THEN NoThread ELSE globalLock
      BY <1>3 DEF Return
  <2>3. t # NoThread
      BY BindingsAssumption
  <2>4. /\ globalLock' = globalLock \/ (globalLock = t /\ globalLock' = NoThread)
        /\ globalLock' # t
      BY <2>2, <2>3
  <2> QED BY <1>1, <2>1, <2>2, <2>4
<1>4. ASSUME NEW t \in Thread, NEW call \in Call, Enter(t, call) PROVE LockInv'
  <2> DEFINE it == [call |-> call, locks |-> Locks(call), on |-> Needs(call)]
  <2>1. thread' = [thread EXCEPT ![t] = it] /\ globalLock' = globalLock /\ it.call = call
      BY <1>4 DEF Enter
  <2>2. call # "none"
      BY DEF Call
  <2> HIDE DEF it
  <2> QED BY <1>1, <2>1, <2>2
<1>5. ASSUME NEW t \in Thread, TakeLock(t) PROVE LockInv'
  <2>1. /\ thread[t].locks > 0 /\ globalLock' = t
        /\ thread' = [thread EXCEPT ![t].locks = @ - 1]
      BY <1>5 DEF TakeLock
  <2>2. \A u \in Thread : thread'[u].call = thread[u].call
      BY <2>1 DEF ObjectsTyped
  <2>3. \A u \in Thread \ {t} : thread'[u].locks = thread[u].locks
      BY <2>1 DEF ObjectsTyped
  <2>4. Busy(t)
      BY <2>1 DEF LockInv
  <2> QED BY <2>1, <2>2, <2>3, <2>4 DEF LockInv, Busy
<1>6. ASSUME NEW t \in Thread, Step(t)
      PROVE  \/ TakeLock(t) \/ Return(t) \/ UNCHANGED <<thread, globalLock>>
             \/ UNCHANGED thread /\ globalLock' = NoThread
    BY <1>6 DEF Step, Construct, OpenFails, DisposeReader, HandleEnds, ReadMetadata, ReadPart,
                SearchSuggestions, NextSuggestion, StartServer, StopServer, ReadBooks
<1>7. CASE \/ \E o \in Finalizable : Forget(o) \/ Finalize(o)
           \/ ServeFreedLibrary \/ (\E t, u \in Thread : Race(t, u))
           \/ UNCHANGED bindingsVars
    BY <1>2, <1>7 DEF Forget, Finalize, ServeFreedLibrary, Race, bindingsVars
<1>8. CASE UNCHANGED thread /\ globalLock' = NoThread
    BY <1>8 DEF LockInv, Busy
<1> QED BY <1>2, <1>3, <1>4, <1>5, <1>6, <1>7, <1>8 DEF Next

(* Threads, objects, the lock, the answers and the suggestions.            *)
THEOREM TypeCorrect == Spec => []TypeOK
<1>1. Init => LockInv /\ AnswersTyped
  <2>1. Init => \A t \in Thread : thread[t].locks = 0
      BY DEF Init, Idle
  <2>2. Init => LockInv
    <3>1. Init => globalLock = NoThread
        BY DEF Init
    <3> QED BY <2>1, <3>1 DEF LockInv
  <2>3. Init => part.size = 0
      BY DEF Init, NoPart
  <2>4. Init => serving \in BOOLEAN
      BY DEF Init
  <2>5. Init => AnswersTyped
    <3>1. Init => crashed = "no"
        BY DEF Init
    <3> QED BY <2>3, <2>4, <3>1 DEF AnswersTyped
  <2> QED BY <2>2, <2>5
<1>2. LockInv /\ AnswersTyped /\ ObjectsInv /\ [Next]_bindingsVars => (LockInv /\ AnswersTyped)'
    BY NextKeepsLock, NextKeepsAnswers DEF ObjectsInv
<1>3. SuggestionsInv /\ ObjectsInv /\ LockInv /\ AnswersTyped => TypeOK
  <2> SUFFICES ASSUME SuggestionsInv, ObjectsInv, LockInv, AnswersTyped PROVE TypeOK
      OBVIOUS
  <2>1. roots \subseteq {o \in Object : native[o] = "live"}
      BY DEF ObjectsInv, ObjectsTyped, InUseIsLive
  <2>2. \A t \in Thread : "reader" \in thread[t].on => native["reader"] = "live"
      BY DEF ObjectsInv, InUseIsLive
  <2> QED BY <2>1, <2>2 DEF SuggestionsInv, ObjectsInv, ObjectsTyped, LockInv, AnswersTyped, TypeOK
<1> QED BY <1>1, <1>2, <1>3, SuggestionsInvariant, ObjectsInvariant, PTL DEF Spec

=============================================================================
