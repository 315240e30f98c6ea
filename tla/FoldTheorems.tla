----------------------------- MODULE FoldTheorems -----------------------------
(***************************************************************************)
(* What the proofs about folds over sequences rest on: induction over the  *)
(* natural numbers, stated of a set instead of a predicate, so that it can *)
(* be cited, and the function that FoldLeft of SequencesExt chooses.       *)
(***************************************************************************)
EXTENDS Sublists, SequencesExt, FiniteSetTheorems, SequenceTheorems, WellFoundedInduction, TLAPS

(* A set that has 0 and the successors of its numbers has all numbers: the *)
(* smallest one that it lacks would have a predecessor in it.              *)
LEMMA Induction ==
    ASSUME NEW T, 0 \in T, \A n \in Nat : n \in T => n + 1 \in T
    PROVE  \A n \in Nat : n \in T
<1> DEFINE Bad == {n \in Nat : n \notin T}
           Smaller == OpToRel(<, Nat)
<1>1. SUFFICES ASSUME Bad # {} PROVE FALSE
    OBVIOUS
<1>2. IsWellFoundedOn(Smaller, Nat)
    BY NatLessThanWellFounded
<1>3. \A n \in Nat \ {0} : <<n - 1, n>> \in Smaller
  <2> SUFFICES ASSUME NEW n \in Nat \ {0} PROVE <<n - 1, n>> \in Smaller
      OBVIOUS
  <2>1. n - 1 \in Nat /\ n \in Nat /\ n - 1 < n
      OBVIOUS
  <2> QED BY <2>1, Zenon DEF OpToRel
<1> HIDE DEF Smaller
<1>4. PICK n \in Bad : \A m \in Bad : ~(<<m, n>> \in Smaller)
    BY <1>1, <1>2, WFMin
<1>5. n \in Nat \ {0} /\ n - 1 \in Nat /\ (n - 1) + 1 = n
    BY <1>4
<1>6. n - 1 \in T
    BY <1>3, <1>4, <1>5
<1> QED BY <1>4, <1>5, <1>6

(* The same up to a bound.                                                 *)
LEMMA BoundedInduction ==
    ASSUME NEW N \in Nat, NEW T, 0 \in T, \A n \in 0 .. N - 1 : n \in T => n + 1 \in T
    PROVE  \A n \in 0 .. N : n \in T
<1> DEFINE All == {n \in Nat : n <= N => n \in T}
<1>1. 0 \in All
    OBVIOUS
<1>2. ASSUME NEW n \in Nat, n \in All PROVE n + 1 \in All
    BY <1>2
<1> HIDE DEF All
<1>3. \A n \in Nat : n \in All
    BY <1>1, <1>2, Induction
<1> QED BY <1>3 DEF All

(* Max and Min are the largest and the smallest number of a set: of one of *)
(* numbers up to N.                                                        *)
LEMMA LargestNumber ==
    ASSUME NEW N \in Nat, NEW s, s \subseteq 1 .. N, s # {}
    PROVE  Max(s) \in s /\ \A x \in s : Max(s) >= x
<1> DEFINE HasLargest(t) == t = {} \/ \E x \in t : \A y \in t : x >= y
           T == {m \in Nat : \A t \in SUBSET (1 .. m) : HasLargest(t)}
<1>1. 0 \in T
  <2>1. \A t \in SUBSET (1 .. 0) : t = {}
      OBVIOUS
  <2> QED BY <2>1
<1>2. ASSUME NEW m \in Nat, m \in T PROVE m + 1 \in T
  <2> SUFFICES ASSUME NEW t \in SUBSET (1 .. m + 1) PROVE HasLargest(t)
      OBVIOUS
  <2>1. CASE m + 1 \in t
      BY <2>1
  <2>2. CASE m + 1 \notin t
    <3>1. t \in SUBSET (1 .. m)
        BY <2>2
    <3> QED BY <3>1, <1>2
  <2> QED BY <2>1, <2>2
<1> HIDE DEF T
<1>3. N \in T
    BY <1>1, <1>2, Induction
<1>4. \E x \in s : \A y \in s : x >= y
    BY <1>3 DEF T
<1> QED BY <1>4 DEF Max

LEMMA SmallestNumber ==
    ASSUME NEW s, s \subseteq Nat, s # {}
    PROVE  Min(s) \in s /\ \A x \in s : Min(s) <= x
<1> DEFINE T == {m \in Nat : (\E x \in s : x <= m) => \E x \in s : \A y \in s : x <= y}
<1>1. 0 \in T
    OBVIOUS
<1>2. ASSUME NEW m \in Nat, m \in T PROVE m + 1 \in T
    BY <1>2
<1> HIDE DEF T
<1>3. \A m \in Nat : m \in T
    BY <1>1, <1>2, Induction
<1>4. PICK m \in s : m \in Nat
    OBVIOUS
<1>5. \E x \in s : \A y \in s : x <= y
    BY <1>3, <1>4 DEF T
<1> QED BY <1>5 DEF Min

(* There is a function like the one that FoldLeft iterates, if every step  *)
(* stays in one set of values.                                             *)
Iterates(iter, N, base, step) ==
    iter = [s \in SUBSET (1 .. N) |->
              IF s = {} THEN base ELSE step[Max(s)][iter[s \ {Max(s)}]]]

LEMMA IterationExists ==
    ASSUME NEW N \in Nat, NEW V, NEW base \in V, NEW step \in [1 .. N -> [V -> V]]
    PROVE  \E iter \in [SUBSET (1 .. N) -> V] : Iterates(iter, N, base, step)
<1> DEFINE Is(f, m) == f \in [SUBSET (1 .. m) -> V] /\ Iterates(f, m, base, step)
           T == {m \in Nat : \E f : Is(f, m)}
<1>1. 0 \in T
  <2> DEFINE f == [s \in SUBSET (1 .. 0) |-> base]
  <2>1. \A s \in SUBSET (1 .. 0) : s = {}
      OBVIOUS
  <2>2. Is(f, 0)
      BY <2>1 DEF Iterates
  <2> QED BY <2>2
<1>2. ASSUME NEW m \in 0 .. N - 1, m \in T PROVE m + 1 \in T
  <2>1. PICK f : Is(f, m)
      BY <1>2
  <2> DEFINE g == [s \in SUBSET (1 .. m + 1) |->
                     IF m + 1 \in s THEN step[m + 1][f[s \ {m + 1}]] ELSE f[s]]
  <2>2. step[m + 1] \in [V -> V] /\ m \in Nat /\ m + 1 \in Nat
      OBVIOUS
  <2>3. \A s \in SUBSET (1 .. m + 1) : s \ {m + 1} \in SUBSET (1 .. m)
      OBVIOUS
  <2>4. \A s \in SUBSET (1 .. m + 1) : m + 1 \notin s => s \in SUBSET (1 .. m)
      OBVIOUS
  <2>5. ASSUME NEW s \in SUBSET (1 .. m + 1) PROVE g[s] \in V
      BY <2>1, <2>2, <2>3, <2>4
  <2>6. g[{}] = base
      BY <2>1 DEF Iterates
  <2>7. ASSUME NEW s \in SUBSET (1 .. m + 1), s # {}
        PROVE  g[s] = step[Max(s)][g[s \ {Max(s)}]]
    <3>1. Max(s) \in s /\ \A x \in s : Max(s) >= x
        BY <2>2, <2>7, LargestNumber
    <3>2. CASE m + 1 \in s
      <4>1. Max(s) = m + 1
        <5>1. \A x \in s : x \in Nat /\ x <= m + 1
            BY <2>2
        <5>2. Max(s) >= m + 1 /\ Max(s) \in Nat /\ Max(s) <= m + 1
            BY <3>1, <3>2, <5>1
        <5> QED BY <2>2, <5>2
      <4>2. g[s \ {m + 1}] = f[s \ {m + 1}]
          OBVIOUS
      <4> QED BY <3>2, <4>1, <4>2
    <3>3. CASE m + 1 \notin s
      <4>1. s \in SUBSET (1 .. m)
          BY <2>4, <3>3
      <4>2. g[s] = f[s] /\ g[s \ {Max(s)}] = f[s \ {Max(s)}]
          BY <3>3
      <4> QED BY <2>1, <2>7, <4>1, <4>2 DEF Iterates
    <3> QED BY <3>2, <3>3
  <2>8. Is(g, m + 1)
    <3>1. g = [s \in SUBSET (1 .. m + 1) |-> g[s]]
        OBVIOUS
    <3> HIDE DEF g
    <3>2. g \in [SUBSET (1 .. m + 1) -> V]
        BY <2>5, <3>1
    <3>3. g = [s \in SUBSET (1 .. m + 1) |->
                 IF s = {} THEN base ELSE step[Max(s)][g[s \ {Max(s)}]]]
        BY <2>6, <2>7, <3>1
    <3> QED BY <3>2, <3>3 DEF Iterates
  <2> HIDE DEF Is, g
  <2> QED BY <2>2, <2>8
<1> HIDE DEF T
<1>3. \A n \in 0 .. N : n \in T
  <2>1. \A n \in 0 .. N - 1 : n \in T => n + 1 \in T
      BY <1>2
  <2> QED BY <1>1, <2>1, BoundedInduction, Zenon
<1>4. PICK iter : Is(iter, N)
  <2>1. N \in 0 .. N
      OBVIOUS
  <2> QED BY <1>3, <2>1, Zenon DEF T
<1> QED BY <1>4

(* What the iteration goes through: the numbers up to k are those up to    *)
(* k - 1 and k, and what holds at 0 and from each step to the next one     *)
(* holds at the end.                                                       *)
LEMMA NumbersUpTo ==
    ASSUME NEW k \in Nat \ {0}
    PROVE  1 .. k # {} /\ Max(1 .. k) = k /\ (1 .. k) \ {k} = 1 .. k - 1
<1>1. k \in 1 .. k /\ 1 .. k \subseteq 1 .. k
    OBVIOUS
<1>2. Max(1 .. k) \in 1 .. k /\ \A x \in 1 .. k : Max(1 .. k) >= x
    BY <1>1, LargestNumber
<1> QED BY <1>1, <1>2

LEMMA IterationStays ==
    ASSUME NEW N \in Nat, NEW P, NEW it, it[{}] \in P[0],
           \A k \in 1 .. N : it[1 .. k - 1] \in P[k - 1] => it[1 .. k] \in P[k]
    PROVE  it[1 .. N] \in P[N]
<1> DEFINE T == {n \in 0 .. N : it[1 .. n] \in P[n]}
<1>1. 1 .. 0 = {} /\ 0 \in 0 .. N /\ N \in 0 .. N
    OBVIOUS
<1>2. 0 \in T
    BY <1>1
<1>3. ASSUME NEW n \in 0 .. N - 1, n \in T PROVE n + 1 \in T
  <2>1. n + 1 \in 1 .. N /\ n + 1 \in 0 .. N /\ (n + 1) - 1 = n
      OBVIOUS
  <2> QED BY <1>3, <2>1
<1> HIDE DEF T
<1>4. \A n \in 0 .. N : n \in T
    BY <1>2, <1>3, BoundedInduction
<1>5. N \in T
    BY <1>1, <1>4, Zenon
<1> QED BY <1>5, Zenon DEF T

(* There is a function that a step at a time goes through the numbers up   *)
(* to N, as a recursive definition says.                                   *)
Recurs(f, N, base, step) == f = [n \in 0 .. N |-> IF n = 0 THEN base ELSE step[n][f[n - 1]]]

LEMMA RecursionExists ==
    ASSUME NEW N \in Nat, NEW V, NEW base \in V, NEW step \in [1 .. N -> [V -> V]]
    PROVE  \E f \in [0 .. N -> V] : Recurs(f, N, base, step)
<1>1. PICK iter \in [SUBSET (1 .. N) -> V] : Iterates(iter, N, base, step)
    BY IterationExists
<1> DEFINE f == [n \in 0 .. N |-> iter[1 .. n]]
<1>2. f \in [0 .. N -> V]
  <2>1. \A n \in 0 .. N : 1 .. n \in SUBSET (1 .. N)
      OBVIOUS
  <2> QED BY <2>1
<1>3. f[0] = base
  <2>1. 1 .. 0 = {} /\ {} \in SUBSET (1 .. N) /\ 0 \in 0 .. N
      OBVIOUS
  <2> QED BY <1>1, <2>1 DEF Iterates
<1>4. ASSUME NEW n \in 1 .. N PROVE f[n] = step[n][f[n - 1]]
  <2>1. n \in Nat \ {0} /\ 1 .. n \in SUBSET (1 .. N) /\ n \in 0 .. N /\ n - 1 \in 0 .. N
      OBVIOUS
  <2>2. 1 .. n # {} /\ Max(1 .. n) = n /\ (1 .. n) \ {n} = 1 .. n - 1
      BY <2>1, NumbersUpTo
  <2>3. iter[1 .. n] = step[n][iter[1 .. n - 1]]
    <3> DEFINE s == 1 .. n
    <3>1. s \in SUBSET (1 .. N) /\ s # {}
        BY <2>1, <2>2
    <3>2. Max(s) = n /\ s \ {n} = 1 .. n - 1
        BY <2>2
    <3> HIDE DEF s
    <3>3. iter[s] = step[Max(s)][iter[s \ {Max(s)}]]
        BY <1>1, <3>1 DEF Iterates
    <3>4. iter[s] = step[n][iter[1 .. n - 1]]
        BY <3>2, <3>3
    <3> QED BY <3>4 DEF s
  <2>4. f[n] = iter[1 .. n] /\ f[n - 1] = iter[1 .. n - 1]
      BY <2>1, Zenon
  <2> QED BY <2>3, <2>4, Zenon
<1> HIDE DEF f
<1>5. \A n \in 0 .. N : f[n] = IF n = 0 THEN base ELSE step[n][f[n - 1]]
  <2>1. \A n \in 0 .. N : n = 0 \/ (n # 0 /\ n \in 1 .. N)
      OBVIOUS
  <2> QED BY <1>3, <1>4, <2>1
<1>6. f = [n \in 0 .. N |-> f[n]]
    BY <1>2
<1>7. f = [n \in 0 .. N |-> IF n = 0 THEN base ELSE step[n][f[n - 1]]]
    BY <1>5, <1>6, Zenon
<1>8. Recurs(f, N, base, step)
    BY <1>7 DEF Recurs
<1> QED BY <1>2, <1>8

(* OnlyIn takes the elements of a list that are in a set, each once and in *)
(* their order: at says where they come from.                              *)
Picks(found, at, list, S, n) ==
    /\ at \in [1 .. Len(found) -> 1 .. n]
    /\ \A i \in 1 .. Len(found) : found[i] = list[at[i]] /\ found[i] \in S
    /\ \A i, j \in 1 .. Len(found) : i < j => at[i] < at[j]
    /\ \A k \in 1 .. n : list[k] \in S => \E i \in 1 .. Len(found) : at[i] = k

LEMMA PickOneMore ==
    ASSUME NEW V, NEW list \in Seq(V), NEW S, NEW k \in 1 .. Len(list),
           NEW found \in Seq(V), NEW at, Picks(found, at, list, S, k - 1)
    PROVE  LET new == IF list[k] \in S THEN Append(found, list[k]) ELSE found
           IN  new \in Seq(V) /\ \E to : Picks(new, to, list, S, k)
<1> DEFINE m == Len(found)
<1>1. m \in Nat /\ k \in Nat /\ k >= 1 /\ k - 1 \in Nat /\ list[k] \in V
    BY LenProperties, ElementOfSeq
<1>2. /\ at \in [1 .. m -> 1 .. k - 1]
      /\ \A i \in 1 .. m : found[i] = list[at[i]] /\ found[i] \in S
      /\ \A i, j \in 1 .. m : i < j => at[i] < at[j]
      /\ \A l \in 1 .. k - 1 : list[l] \in S => \E i \in 1 .. m : at[i] = l
    BY DEF Picks
<1>3. CASE list[k] \notin S
  <2>1. 1 .. k - 1 \subseteq 1 .. k /\ \A l \in 1 .. k : l \in 1 .. k - 1 \/ l = k
      BY <1>1
  <2>2. Picks(found, at, list, S, k)
      BY <1>2, <1>3, <2>1 DEF Picks
  <2> QED BY <1>3, <2>2
<1>4. CASE list[k] \in S
  <2> DEFINE new == Append(found, list[k])
             to == [i \in 1 .. m + 1 |-> IF i = m + 1 THEN k ELSE at[i]]
  <2>1. /\ new \in Seq(V) /\ Len(new) = m + 1 /\ new[m + 1] = list[k]
        /\ \A i \in 1 .. m : new[i] = found[i]
      BY <1>1, AppendProperties
  <2>2. /\ to[m + 1] = k
        /\ \A i \in 1 .. m : to[i] = at[i] /\ at[i] \in 1 .. k - 1
      BY <1>1, <1>2
  <2>3. /\ \A i \in 1 .. m + 1 : i \in 1 .. m \/ i = m + 1
        /\ m + 1 \in 1 .. m + 1 /\ 1 .. m \subseteq 1 .. m + 1
        /\ \A l \in 1 .. k : l \in 1 .. k - 1 \/ l = k
        /\ k \in 1 .. k /\ 1 .. k - 1 \subseteq 1 .. k
      BY <1>1
  <2>4. to \in [1 .. m + 1 -> 1 .. k]
      BY <2>2, <2>3
  <2> HIDE DEF new, to
  <2>5. \A i \in 1 .. m + 1 : new[i] = list[to[i]] /\ new[i] \in S
      BY <1>2, <1>4, <2>1, <2>2, <2>3
  <2>6. ASSUME NEW i \in 1 .. m + 1, NEW j \in 1 .. m + 1, i < j PROVE to[i] < to[j]
    <3>1. i \in 1 .. m
        BY <1>1, <2>6
    <3>2. CASE j \in 1 .. m
        BY <1>2, <2>2, <2>6, <3>1, <3>2
    <3>3. CASE j = m + 1
        BY <1>1, <2>2, <3>1, <3>3
    <3> QED BY <2>3, <3>2, <3>3
  <2>7. ASSUME NEW l \in 1 .. k, list[l] \in S PROVE \E i \in 1 .. m + 1 : to[i] = l
      BY <1>2, <2>2, <2>3, <2>7
  <2>8. Picks(new, to, list, S, k)
      BY <2>1, <2>4, <2>5, <2>6, <2>7 DEF Picks
  <2> QED BY <1>4, <2>1, <2>8 DEF new
<1> QED BY <1>3, <1>4

LEMMA OnlyInIs ==
    ASSUME NEW V, NEW list \in Seq(V), NEW S
    PROVE  /\ OnlyIn(list, S) \in Seq(V)
           /\ \E at : Picks(OnlyIn(list, S), at, list, S, Len(list))
<1> DEFINE N == Len(list)
           Op(found, x) == IF x \in S THEN Append(found, x) ELSE found
           Eqn(f) == f = [n \in 0 .. N |-> IF n = 0 THEN <<>> ELSE Op(f[n - 1], list[n])]
           it == CHOOSE f : Eqn(f)
           Lists == Seq(V)
           step == [i \in 1 .. N |-> [found \in Lists |-> Op(found, list[i])]]
<1>1. OnlyIn(list, S) = it[N]
    BY DEF OnlyIn
<1>2. N \in Nat /\ \A i \in 1 .. N : list[i] \in V
    BY LenProperties, ElementOfSeq
<1>3. ASSUME NEW found \in Lists, NEW x \in V PROVE Op(found, x) \in Lists
    BY <1>3, AppendProperties
<1>4. ASSUME NEW k \in 1 .. N, NEW found \in Lists, NEW at, Picks(found, at, list, S, k - 1)
      PROVE  \E to : Picks(Op(found, list[k]), to, list, S, k)
    BY <1>4, PickOneMore
<1> HIDE DEF Op
<1>5. step \in [1 .. N -> [Lists -> Lists]]
    BY <1>2, <1>3
<1>6. \A found \in Lists, i \in 1 .. N : step[i][found] = Op(found, list[i])
    OBVIOUS
<1>7. <<>> \in Lists /\ Len(<<>>) = 0
    BY EmptySeq
<1> HIDE DEF step, N, Lists
<1>8. PICK f \in [0 .. N -> Lists] : Recurs(f, N, <<>>, step)
    BY <1>2, <1>5, <1>7, RecursionExists
<1>9. Eqn(f)
  <2>1. ASSUME NEW n \in 0 .. N, n # 0 PROVE step[n][f[n - 1]] = Op(f[n - 1], list[n])
    <3>1. n \in 1 .. N /\ n - 1 \in 0 .. N
        BY <1>2, <2>1
    <3> QED BY <1>6, <1>8, <3>1
  <2> QED BY <1>8, <2>1 DEF Recurs
<1>10. Eqn(it)
    BY <1>9
<1> HIDE DEF it
<1>11. it[0] = <<>> /\ \A k \in 1 .. N : it[k] = Op(it[k - 1], list[k])
    BY <1>2, <1>10
<1> DEFINE Good == {k \in 0 .. N : it[k] \in Lists /\ \E at : Picks(it[k], at, list, S, k)}
<1>12. 0 \in Good
  <2>1. Picks(<<>>, [i \in 1 .. 0 |-> 1], list, S, 0)
      BY <1>7 DEF Picks
  <2> QED BY <1>2, <1>7, <1>11, <2>1
<1>13. ASSUME NEW k \in 0 .. N - 1, k \in Good PROVE k + 1 \in Good
  <2>1. k + 1 \in 1 .. N /\ k + 1 \in 0 .. N /\ (k + 1) - 1 = k
      BY <1>2
  <2>2. it[k + 1] = Op(it[k], list[k + 1])
      BY <1>11, <2>1
  <2>3. it[k] \in Lists /\ \E at : Picks(it[k], at, list, S, k)
      BY <1>13
  <2>4. it[k + 1] \in Lists /\ \E at : Picks(it[k + 1], at, list, S, k + 1)
      BY <1>2, <1>3, <1>4, <2>1, <2>2, <2>3
  <2> QED BY <2>1, <2>4
<1> HIDE DEF Good
<1>14. \A k \in 0 .. N : k \in Good
    BY <1>2, <1>12, <1>13, BoundedInduction
<1>15. N \in Good
    BY <1>2, <1>14
<1> QED BY <1>1, <1>15 DEF Good, Lists, N

-----------------------------------------------------------------------------
(***************************************************************************)
(* The elements of lists.                                                  *)
(***************************************************************************)

LEMMA OnlyInHas ==
    ASSUME NEW V, NEW list \in Seq(V), NEW S
    PROVE  /\ OnlyIn(list, S) \in Seq(V)
           /\ ToSet(OnlyIn(list, S)) = ToSet(list) \cap S
<1>1. OnlyIn(list, S) \in Seq(V)
  BY OnlyInIs
<1>2. PICK at : Picks(OnlyIn(list, S), at, list, S, Len(list))
  BY OnlyInIs
<1>3. PICK found : found = OnlyIn(list, S)
  OBVIOUS
<1>4. /\ DOMAIN found = 1 .. Len(found) /\ DOMAIN list = 1 .. Len(list)
  BY <1>1, <1>3
<1>5. /\ at \in [1 .. Len(found) -> 1 .. Len(list)]
      /\ \A i \in 1 .. Len(found) : found[i] = list[at[i]] /\ found[i] \in S
      /\ \A k \in 1 .. Len(list) : list[k] \in S => \E i \in 1 .. Len(found) : at[i] = k
  BY <1>2, <1>3 DEF Picks
<1>6. ToSet(found) \subseteq ToSet(list) \cap S
  BY <1>4, <1>5 DEF ToSet
<1>7. ToSet(list) \cap S \subseteq ToSet(found)
  <2> SUFFICES ASSUME NEW k \in 1 .. Len(list), list[k] \in S
               PROVE  list[k] \in ToSet(found)
      BY <1>4 DEF ToSet
  <2>1. PICK i \in 1 .. Len(found) : at[i] = k
      BY <1>5
  <2>2. found[i] = list[k]
      BY <1>5, <2>1
  <2> QED BY <1>4, <2>1, <2>2 DEF ToSet
<1> QED BY <1>1, <1>3, <1>6, <1>7

LEMMA PrependHas ==
    ASSUME NEW V, NEW x \in V, NEW rest \in Seq(V)
    PROVE  <<x>> \o rest \in Seq(V) /\ ToSet(<<x>> \o rest) = {x} \cup ToSet(rest)
<1>1. PICK both : both = <<x>> \o rest
  OBVIOUS
<1>2. PICK n \in Nat : n = Len(rest)
  OBVIOUS
<1>3. both \in Seq(V) /\ Len(both) = n + 1 /\ both[1] = x
  BY <1>1, <1>2
<1>4. \A i \in 1 .. n : both[i + 1] = rest[i]
  BY <1>1, <1>2
<1>5. DOMAIN both = 1 .. n + 1 /\ DOMAIN rest = 1 .. n
  BY <1>2, <1>3
<1>6. \A j \in 1 .. n + 1 : j = 1 \/ \E i \in 1 .. n : j = i + 1
  <2> SUFFICES ASSUME NEW j \in 1 .. n + 1, j # 1 PROVE \E i \in 1 .. n : j = i + 1
      OBVIOUS
  <2>1. j - 1 \in 1 .. n /\ j = (j - 1) + 1
      OBVIOUS
  <2> QED BY <2>1
<1>7. \A i \in 1 .. n : i + 1 \in 1 .. n + 1
  OBVIOUS
<1>8. ASSUME NEW y, y \in ToSet(both) PROVE y \in {x} \cup ToSet(rest)
  <2>1. PICK j \in 1 .. n + 1 : y = both[j]
      BY <1>5, <1>8 DEF ToSet
  <2>2. CASE j = 1
      BY <1>3, <2>1, <2>2
  <2>3. CASE j # 1
    <3>1. PICK i \in 1 .. n : j = i + 1
        BY <1>6, <2>3
    <3>2. y = rest[i]
        BY <1>4, <2>1, <3>1
    <3> QED BY <1>5, <3>2 DEF ToSet
  <2> QED BY <2>2, <2>3
<1>9. ASSUME NEW y, y \in {x} \cup ToSet(rest) PROVE y \in ToSet(both)
  <2>1. CASE y = x
      BY <1>3, <1>5, <2>1 DEF ToSet
  <2>2. CASE y \in ToSet(rest)
    <3>1. PICK i \in 1 .. n : y = rest[i]
        BY <1>5, <2>2 DEF ToSet
    <3>2. y = both[i + 1] /\ i + 1 \in DOMAIN both
        BY <1>4, <1>5, <1>7, <3>1
    <3> QED BY <3>2 DEF ToSet
  <2> QED BY <1>9, <2>1, <2>2
<1> QED BY <1>1, <1>3, <1>8, <1>9

(* Lists of different elements.                                            *)
Once(list) == \A i, j \in 1 .. Len(list) : list[i] = list[j] => i = j

LEMMA OnlyInOnce ==
    ASSUME NEW V, NEW list \in Seq(V), Once(list), NEW S
    PROVE  /\ OnlyIn(list, S) \in Seq(V) /\ Once(OnlyIn(list, S))
           /\ ToSet(OnlyIn(list, S)) = ToSet(list) \cap S
<1> DEFINE found == OnlyIn(list, S)
<1>1. PICK at : Picks(found, at, list, S, Len(list))
    BY OnlyInIs
<1>2. found \in Seq(V) /\ ToSet(found) = ToSet(list) \cap S
    BY OnlyInHas
<1> HIDE DEF found
<1>3. Len(found) \in Nat /\ Len(list) \in Nat
    BY <1>2, LenProperties
<1>4. /\ at \in [1 .. Len(found) -> 1 .. Len(list)]
      /\ \A i \in 1 .. Len(found) : found[i] = list[at[i]]
      /\ \A i, j \in 1 .. Len(found) : i < j => at[i] < at[j]
    BY <1>1 DEF Picks
<1>5. Once(found)
  <2> SUFFICES ASSUME NEW i \in 1 .. Len(found), NEW j \in 1 .. Len(found), found[i] = found[j]
               PROVE  i = j
      BY DEF Once
  <2>1. at[i] \in 1 .. Len(list) /\ at[j] \in 1 .. Len(list) /\ list[at[i]] = list[at[j]]
      BY <1>4
  <2>2. at[i] = at[j]
      BY <2>1 DEF Once
  <2>3. ~(i < j) /\ ~(j < i)
      BY <1>3, <1>4, <2>1, <2>2
  <2> QED BY <1>3, <2>3
<1> QED BY <1>2, <1>5 DEF found

LEMMA OnceHasAsMany ==
    ASSUME NEW V, NEW list \in Seq(V), Once(list)
    PROVE  IsFiniteSet(ToSet(list)) /\ Cardinality(ToSet(list)) = Len(list)
<1>1. /\ Len(list) \in Nat /\ DOMAIN list = 1 .. Len(list)
      /\ list \in [1 .. Len(list) -> V]
    BY LenProperties
<1>2. list \in Bijection(1 .. Len(list), ToSet(list))
    BY <1>1 DEF Bijection, Injection, Surjection, IsInjective, ToSet, Once
<1>3. ExistsBijection(1 .. Len(list), ToSet(list))
    BY <1>2 DEF ExistsBijection
<1> QED BY <1>1, <1>3, FS_CountingElements, FS_NatBijection
=============================================================================
