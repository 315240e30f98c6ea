------------------------------ MODULE PagesProofs ------------------------------
(***************************************************************************)
(* Lists that are shown piece by piece: the results of a search, page by   *)
(* page, and the books on the front page of a server.  Both say that       *)
(* the pieces make up the list, without a gap and without a repetition.    *)
(***************************************************************************)
EXTENDS SearchPages, CatalogPage, FoldTheorems, FiniteSetTheorems

-----------------------------------------------------------------------------
(***************************************************************************)
(* Ranges of sequences.                                                    *)
(***************************************************************************)

Smaller(a, b) == IF a < b THEN a ELSE b

LEMMA SliceIs ==
    ASSUME NEW S, NEW s \in Seq(S), NEW from \in Nat, NEW to \in Nat
    PROVE  /\ Slice(s, from, to) = SubSeq(s, from + 1, Smaller(to, Len(s)))
           /\ Slice(s, from, to) \in Seq(S)
<1> DEFINE last == Smaller(to, Len(s))
<1>1. Len(s) \in Nat /\ last \in Nat /\ last <= Len(s)
    BY LenProperties DEF Smaller
<1>2. Slice(s, from, to) = SubSeq(s, from + 1, last)
    BY DEF Slice, Smaller
<1> HIDE DEF last
<1>3. \A i \in from + 1 .. last : s[i] \in S
    BY <1>1, ElementOfSeq
<1>4. SubSeq(s, from + 1, last) \in Seq(S)
    BY <1>1, <1>3, SubSeqProperties
<1> QED BY <1>2, <1>4 DEF last

(* A prefix goes on with the range that starts after it.                   *)
LEMMA PrefixGoesOn ==
    ASSUME NEW S, NEW s \in Seq(S), NEW from \in Nat, NEW to \in Nat, from <= to
    PROVE  SubSeq(s, 1, Smaller(from, Len(s))) \o Slice(s, from, to)
             = SubSeq(s, 1, Smaller(to, Len(s)))
<1>1. Len(s) \in Nat /\ Slice(s, from, to) = SubSeq(s, from + 1, Smaller(to, Len(s)))
    BY LenProperties, SliceIs
<1>2. CASE from <= Len(s)
  <2> DEFINE m == Smaller(to, Len(s))
  <2>1. /\ from \in 1 - 1 .. Len(s) /\ m \in from .. Len(s) /\ 1 \in 1 .. Len(s) + 1
        /\ Smaller(from, Len(s)) = from
      BY <1>1, <1>2 DEF Smaller
  <2> HIDE DEF m
  <2>2. SubSeq(s, 1, from) \o SubSeq(s, from + 1, m) = SubSeq(s, 1, m)
      BY <2>1, ConcatAdjacentSubSeq
  <2> QED BY <1>1, <2>1, <2>2 DEF m
<1>3. CASE from > Len(s)
  <2>1. Smaller(from, Len(s)) = Len(s) /\ Smaller(to, Len(s)) = Len(s) /\ Len(s) < from + 1
      BY <1>1, <1>3 DEF Smaller
  <2>2. Slice(s, from, to) = <<>>
      BY <1>1, <2>1, SubSeqEmpty
  <2>3. SubSeq(s, 1, Len(s)) = s /\ s \o <<>> = s
      BY SubSeqFull, ConcatEmptySeq
  <2> QED BY <2>1, <2>2, <2>3
<1>4. from <= Len(s) \/ from > Len(s)
    BY <1>1
<1> QED BY <1>2, <1>3, <1>4

LEMMA LongerPrefix ==
    ASSUME NEW S, NEW s \in Seq(S), NEW n \in 1 .. Len(s)
    PROVE  SubSeq(s, 1, n) = Append(SubSeq(s, 1, n - 1), s[n])
<1>1. Len(s) \in Nat
    BY LenProperties
<1>2. 1 \in 1 .. Len(s) /\ n \in 1 .. Len(s) /\ n \in Nat /\ 1 \in Int /\ n - 1 \in Int
    BY <1>1
<1>3. \A i \in 1 .. n - 1 : s[i] \in S
    BY <1>1, ElementOfSeq
<1>4. SubSeq(s, 1, n - 1) \in Seq(S) /\ s[n] \in S
    BY <1>2, <1>3, SubSeqProperties, ElementOfSeq
<1>5. SubSeq(s, 1, n) = SubSeq(s, 1, n - 1) \o << s[n] >>
    BY <1>2, SubSeqRecursiveSecond
<1>6. Append(SubSeq(s, 1, n - 1), s[n]) = SubSeq(s, 1, n - 1) \o << s[n] >>
    BY <1>4, AppendIsConcat
<1> QED BY <1>5, <1>6

(***************************************************************************)
(* The Searcher.                                                           *)
(***************************************************************************)

(* What a search finds in some archives is a list of results.              *)
LEMMA FoundIs ==
    ASSUME NEW readers, NEW p \in Pattern PROVE Found(readers, p) \in Seq(Result)
<1>1. Ranked[p] \in Seq(Result)
    BY PagesAssumption
<1> QED BY <1>1, OnlyInIs DEF Found

(* What was given is what comes before the next result, of the results     *)
(* that the last search was for; without any search it is nothing.         *)
SearcherInv ==
    /\ DOMAIN searcher = DOMAIN NewSearcher
    /\ asked \in Seq(Result)
    /\ IF searcher.internal = NoResults THEN asked = <<>> /\ given = <<>>
       ELSE /\ searcher.internal = asked
            /\ searcher.next \in 1 .. Len(asked) + 1
            /\ given = SubSeq(asked, 1, searcher.next - 1)

LEMMA InvGivesTheRange == SearcherInv => SearcherGivesTheRange
<1> SUFFICES ASSUME SearcherInv PROVE SearcherGivesTheRange
    OBVIOUS
<1>1. asked \in Seq(Result) /\ Len(asked) \in Nat
    BY LenProperties DEF SearcherInv
<1>2. CASE searcher.internal = NoResults
  <2>1. SubSeq(<<>>, 1, 0) = <<>> /\ Len(<<>>) = 0
      BY SubSeqEmpty, EmptySeq
  <2> QED BY <1>2, <2>1 DEF SearcherInv, SearcherGivesTheRange
<1>3. CASE searcher.internal # NoResults
  <2> DEFINE n == searcher.next - 1
  <2>1. n \in 0 .. Len(asked) /\ searcher.next = n + 1 /\ searcher.internal = asked
      BY <1>1, <1>3 DEF SearcherInv
  <2>2. given = SubSeq(asked, 1, n)
      BY <1>3 DEF SearcherInv
  <2> HIDE DEF n
  <2>3. \A i \in 1 .. n : asked[i] \in Result
      BY <1>1, <2>1, ElementOfSeq
  <2>4. Len(given) = n
      BY <2>1, <2>2, <2>3, SubSeqProperties
  <2>5. searcher.next > Len(searcher.internal) <=> Len(given) = Len(asked)
      BY <1>1, <2>1, <2>4
  <2> QED BY <2>2, <2>4, <2>5 DEF SearcherGivesTheRange
<1> QED BY <1>2, <1>3

LEMMA StartKeepsSearcher == SearchInit => SearcherInv
<1>1. <<>> \in Seq(Result)
    BY EmptySeq
<1> QED BY <1>1 DEF SearchInit, NewSearcher, SearcherInv

LEMMA NothingGivenYet ==
    ASSUME NEW s \in Seq(Result) PROVE 1 \in 1 .. Len(s) + 1 /\ SubSeq(s, 1, 1 - 1) = <<>>
<1>1. Len(s) \in Nat
    BY LenProperties
<1> QED BY <1>1, SubSeqEmpty

LEMMA SearchKeepsSearcher ==
    ASSUME SearcherInv, NEW p \in Pattern, NEW from \in Nat, NEW to \in Nat, Search(p, from, to)
    PROVE  SearcherInv'
<1>1. CASE from = to
  <2>1. /\ asked' = asked /\ given' = given
        /\ searcher'.internal = searcher.internal /\ searcher'.next = searcher.next
        /\ DOMAIN searcher' = DOMAIN searcher
    <3> DEFINE bounds == [searcher EXCEPT !.pattern = p, !.from = from, !.to = to]
    <3>1. /\ DOMAIN bounds = DOMAIN searcher
          /\ bounds.internal = searcher.internal /\ bounds.next = searcher.next
        BY DEF SearcherInv, NewSearcher
    <3>2. /\ asked' = asked /\ given' = given
          /\ searcher' = [bounds EXCEPT !.estimate = 0]
        BY <1>1 DEF Search
    <3>3. "internal" \in DOMAIN searcher /\ "next" \in DOMAIN searcher
        BY DEF SearcherInv, NewSearcher
    <3> HIDE DEF bounds
    <3> QED BY <3>1, <3>2, <3>3
  <2> QED BY <2>1 DEF SearcherInv
<1>2. CASE from # to
  <2> DEFINE results == Slice(Found(searcher.readers, p), from, to)
  <2>1. results \in Seq(Result)
      BY FoundIs, SliceIs
  <2> HIDE DEF results
  <2>2. /\ asked' = results /\ given' = <<>> /\ DOMAIN searcher' = DOMAIN searcher
        /\ searcher'.internal = results /\ searcher'.next = 1
    <3> DEFINE bounds == [searcher EXCEPT !.pattern = p, !.from = from, !.to = to]
    <3>1. DOMAIN bounds = DOMAIN searcher
        OBVIOUS
    <3>2. /\ asked' = results /\ given' = <<>>
          /\ searcher' = [bounds EXCEPT !.estimate = Estimate[p], !.internal = results,
                                         !.next = 1]
        BY <1>2 DEF Search, results
    <3>3. "internal" \in DOMAIN searcher /\ "next" \in DOMAIN searcher
        BY DEF SearcherInv, NewSearcher
    <3> HIDE DEF bounds
    <3> QED BY <3>1, <3>2, <3>3
  <2>3. results # NoResults
      BY <2>1, PagesAssumption
  <2> QED BY <2>1, <2>2, <2>3, NothingGivenYet DEF SearcherInv
<1> QED BY <1>1, <1>2

LEMMA RestartKeepsSearcher ==
    ASSUME SearcherInv, RestartSearch PROVE SearcherInv'
<1>1. /\ asked' = asked /\ given' = <<>>
      /\ searcher'.internal = searcher.internal
      /\ searcher.internal # NoResults => searcher'.next = 1
      /\ DOMAIN searcher' = DOMAIN searcher
    BY DEF RestartSearch, SearcherInv, NewSearcher
<1>2. asked \in Seq(Result)
    BY DEF SearcherInv
<1> QED BY <1>1, <1>2, NothingGivenYet DEF SearcherInv

LEMMA NextKeepsSearcher ==
    ASSUME SearcherInv, GetNextResult PROVE SearcherInv'
<1> DEFINE n == searcher.next
<1>1. asked \in Seq(Result) /\ searcher.internal = asked /\ asked # NoResults
    BY DEF SearcherInv, GetNextResult
<1>2. Len(asked) \in Nat /\ DOMAIN asked = 1 .. Len(asked)
    BY <1>1, LenProperties
<1>3. n \in 1 .. Len(asked) /\ given = SubSeq(asked, 1, n - 1)
    BY <1>1, <1>2 DEF SearcherInv, GetNextResult
<1>4. /\ given' = Append(given, asked[n]) /\ asked' = asked
      /\ searcher'.internal = asked /\ searcher'.next = n + 1
      /\ DOMAIN searcher' = DOMAIN searcher
    BY <1>1 DEF GetNextResult, SearcherInv, NewSearcher
<1> HIDE DEF n
<1>5. given' = SubSeq(asked, 1, n)
    BY <1>1, <1>3, <1>4, LongerPrefix
<1>6. n + 1 \in 1 .. Len(asked) + 1 /\ (n + 1) - 1 = n
    BY <1>2, <1>3
<1> QED BY <1>1, <1>4, <1>5, <1>6 DEF SearcherInv

LEMMA BrowsingKeepsSearcher ==
    ASSUME SearcherInv, UNCHANGED <<searcher, given, asked>> PROVE SearcherInv'
BY DEF SearcherInv

LEMMA ProgramKeepsSearcher == ASSUME SearcherInv, Program PROVE SearcherInv'
<1>1. ASSUME NEW r \in Reader, AddReader(r) PROVE SearcherInv'
  <2>1. /\ asked' = asked /\ given' = given
        /\ searcher'.internal = searcher.internal /\ searcher'.next = searcher.next
        /\ DOMAIN searcher' = DOMAIN searcher
      BY <1>1 DEF AddReader
  <2> QED BY <2>1 DEF SearcherInv
<1>2. ASSUME NEW p \in Pattern, NEW from \in Bound, NEW to \in Bound, Search(p, from, to)
      PROVE  SearcherInv'
  <2>1. from \in Nat /\ to \in Nat
      BY PagesAssumption
  <2> QED BY <1>2, <2>1, SearchKeepsSearcher
<1>3. ASSUME NEW p \in Pattern, Suggestions(p) PROVE SearcherInv'
  <2>1. 0 \in Nat /\ SuggestionEnd \in Nat
      BY PagesAssumption
  <2> QED BY <1>3, <2>1, SearchKeepsSearcher DEF Suggestions
<1> QED BY <1>1, <1>2, <1>3, RestartKeepsSearcher, NextKeepsSearcher DEF Program

(***************************************************************************)
(* The pages.                                                              *)
(***************************************************************************)

LEMMA QuotientIs ==
    ASSUME NEW n \in Nat, NEW length \in Nat \ {0}
    PROVE  /\ n \div length \in Nat
           /\ (n \div length) * length <= n
           /\ n < (n \div length) * length + length
OBVIOUS

LEMMA ProductGrows ==
    ASSUME NEW i \in Nat, NEW k \in Nat, NEW length \in Nat \ {0}, i <= k
    PROVE  i * length \in Nat /\ i * length <= k * length
OBVIOUS

(* All that the numbered pages are: none starts after the last match.      *)
LEMMA PageEndIs ==
    ASSUME NEW first \in Nat, NEW length \in Nat \ {0}, NEW estimate \in Nat
    PROVE  /\ PageStart(first, length) \in Nat
           /\ PageStart(first, length) <= first \div length
           /\ PageEnd(first, length, estimate) \in Nat
           /\ \A i \in Nat : i < PageEnd(first, length, estimate) => i * length < estimate
           /\ first \div length + 1 >= PageEnd(first, length, estimate)
                => (first \div length + 1) * length >= estimate
<1> DEFINE q == first \div length
           e == estimate \div length
           up == (estimate + length - 1) \div length
           end == PageEnd(first, length, estimate)
<1>1. q \in Nat /\ e \in Nat /\ e * length <= estimate /\ estimate < e * length + length
    BY QuotientIs
<1>2. up \in Nat /\ up * length <= estimate + length - 1 /\ estimate + length - 1 < up * length + length
  <2>1. estimate + length - 1 \in Nat
      OBVIOUS
  <2> QED BY <2>1, QuotientIs
<1>3. PageStart(first, length) \in Nat /\ PageStart(first, length) <= q
    BY <1>1 DEF PageStart
<1>4. end = IF q + 5 > e THEN up ELSE q + 5
    BY DEF PageEnd
<1> HIDE DEF q, e, up, end
<1>5. end \in Nat
    BY <1>1, <1>2, <1>4
<1>6. ASSUME NEW i \in Nat, i < end PROVE i * length < estimate
  <2>1. CASE q + 5 > e
    <3>1. i + 1 <= up /\ i + 1 \in Nat
        BY <1>2, <1>4, <1>6, <2>1
    <3>2. (i + 1) * length <= up * length /\ (i + 1) * length = i * length + length
        BY <1>2, <3>1, ProductGrows
    <3>3. i * length \in Nat /\ up * length \in Nat
        BY <1>2
    <3> QED BY <1>2, <3>2, <3>3
  <2>2. CASE ~(q + 5 > e)
    <3>1. i + 1 <= e /\ i + 1 \in Nat
        BY <1>1, <1>4, <1>6, <2>2
    <3>2. (i + 1) * length <= e * length /\ (i + 1) * length = i * length + length
        BY <1>1, <3>1, ProductGrows
    <3>3. i * length \in Nat /\ e * length \in Nat
        BY <1>1
    <3> QED BY <1>1, <3>2, <3>3
  <2> QED BY <2>1, <2>2
<1>7. ASSUME q + 1 >= end PROVE (q + 1) * length >= estimate
  <2>1. end = up /\ up <= q + 1 /\ q + 1 \in Nat
      BY <1>1, <1>2, <1>4, <1>7
  <2>2. up * length <= (q + 1) * length /\ up * length \in Nat /\ (q + 1) * length \in Nat
      BY <1>1, <1>2, <2>1, ProductGrows
  <2> QED BY <1>2, <2>2
<1> QED BY <1>3, <1>5, <1>6, <1>7 DEF q, end

(* The links of a page lead to results, if the number of them is right.    *)
LEMMA LinksLeadToResults ==
    ASSUME NEW first \in Nat, NEW length \in Nat \ {0}, NEW estimate \in Nat,
           NEW link \in Numbered(first, length, estimate) \cup Arrows(first, length, estimate)
    PROVE  link \in Nat /\ (estimate # 0 => link < estimate)
<1>1. CASE link \in Numbered(first, length, estimate)
  <2>1. PICK i \in PageStart(first, length) .. PageEnd(first, length, estimate) - 1 :
            link = i * length
      BY <1>1 DEF Numbered
  <2>2. PageStart(first, length) \in Nat /\ PageEnd(first, length, estimate) \in Nat
      BY PageEndIs
  <2>3. i \in Nat /\ i < PageEnd(first, length, estimate)
      BY <2>1, <2>2
  <2>4. i * length \in Nat /\ i * length < estimate
      BY <2>3, PageEndIs
  <2> QED BY <2>1, <2>4
<1>2. CASE link \in Arrows(first, length, estimate)
  <2>1. link = 0 \/ link = LastPageStart(length, estimate)
      BY <1>2 DEF Arrows
  <2>2. ASSUME estimate > length
        PROVE  ((estimate - 1) \div length) * length \in Nat
               /\ ((estimate - 1) \div length) * length < estimate
    <3> DEFINE q == (estimate - 1) \div length
    <3>1. estimate - 1 \in Nat
        BY <2>2
    <3>2. q \in Nat /\ q * length <= estimate - 1
        BY <3>1, QuotientIs
    <3> HIDE DEF q
    <3>3. q * length \in Nat /\ q * length < estimate
        BY <3>1, <3>2
    <3> QED BY <3>3 DEF q
  <2>3. LastPageStart(length, estimate) \in Nat
        /\ (estimate # 0 => LastPageStart(length, estimate) < estimate)
      BY <2>2 DEF LastPageStart
  <2> QED BY <2>1, <2>3
<1> QED BY <1>1, <1>2

(* The next page is a numbered one, or there is none.                      *)
LEMMA NextPageIsNumbered ==
    ASSUME NEW k \in Nat, NEW length \in Nat \ {0}, NEW estimate \in Nat,
           k * length + length < estimate
    PROVE  k * length + length \in Numbered(k * length, length, estimate)
<1> DEFINE first == k * length
<1>1. first \in Nat /\ first \div length = k /\ (k + 1) * length = first + length
    OBVIOUS
<1> HIDE DEF first
<1>2. /\ PageStart(first, length) \in Nat /\ PageStart(first, length) <= k
      /\ PageEnd(first, length, estimate) \in Nat
      /\ k + 1 >= PageEnd(first, length, estimate) => (k + 1) * length >= estimate
    BY <1>1, PageEndIs
<1>3. first + length < estimate
    BY DEF first
<1>4. k + 1 \in PageStart(first, length) .. PageEnd(first, length, estimate) - 1
    BY <1>1, <1>2, <1>3
<1>5. first + length \in Numbered(first, length, estimate)
    BY <1>1, <1>4 DEF Numbered
<1> QED BY <1>5 DEF first

(* The reader sees a page as the server makes it, and has turned to it     *)
(* over all the pages before it, which are as long.                        *)
PagesInv ==
    view.pattern \in Pattern =>
        /\ view.start \in Nat
        /\ view.length \in 1 .. MAX_SEARCH_LEN
        /\ view.numbered = Numbered(view.start, view.length, Estimate[view.pattern])
        /\ view.arrows = Arrows(view.start, view.length, Estimate[view.pattern])
        /\ turned # NotTurning =>
              /\ \E k \in Nat : view.start = k * view.length
              /\ turned = SubSeq(Ranked[view.pattern], 1,
                                 Smaller(view.start + view.length, Len(Ranked[view.pattern])))

LEMMA InvFitsTogether == PagesInv => PagesFitTogether
<1> SUFFICES ASSUME PagesInv, view.pattern \in Pattern PROVE PagesFitTogether
    BY DEF PagesFitTogether
<1> DEFINE all == Ranked[view.pattern]
           estimate == Estimate[view.pattern]
           first == view.start
           length == view.length
           seen == Smaller(first + length, Len(all))
<1>1. all \in Seq(Result) /\ estimate \in Nat
    BY PagesAssumption
<1>2. /\ first \in Nat /\ length \in Nat \ {0}
      /\ view.numbered = Numbered(first, length, estimate)
      /\ view.arrows = Arrows(first, length, estimate)
      /\ turned # NotTurning => /\ \E k \in Nat : first = k * length
                                /\ turned = SubSeq(all, 1, seen)
    BY PagesAssumption DEF PagesInv
<1>3. Len(all) \in Nat /\ seen \in 0 .. Len(all) /\ first + length \in Nat
  <2>1. Len(all) \in Nat
      BY <1>1, LenProperties
  <2> QED BY <1>2, <2>1 DEF Smaller
<1>4. PagesFitTogether <=>
        /\ turned # NotTurning /\ estimate >= Len(all) =>
              /\ turned = SubSeq(all, 1, Len(turned))
              /\ first + length \in view.numbered \/ turned = all
        /\ estimate = Len(all) /\ all # <<>> =>
              \A link \in view.numbered \cup view.arrows : link < Len(all)
    BY DEF PagesFitTogether
<1> HIDE DEF all, estimate, first, length
<1>5. ASSUME turned # NotTurning, estimate >= Len(all)
      PROVE  /\ turned = SubSeq(all, 1, Len(turned))
             /\ first + length \in view.numbered \/ turned = all
  <2>1. \A i \in 1 .. seen : all[i] \in Result
      BY <1>1, <1>3, ElementOfSeq
  <2>2. Len(SubSeq(all, 1, seen)) = seen
      BY <1>3, <2>1, SubSeqProperties
  <2>3. CASE seen = Len(all)
      BY <1>1, <1>2, <1>5, <2>2, <2>3, SubSeqFull
  <2>4. CASE seen # Len(all)
    <3>1. first + length < Len(all)
        BY <1>3, <2>4 DEF Smaller
    <3>2. first + length < estimate
        BY <1>1, <1>3, <1>5, <3>1
    <3>3. first + length \in Numbered(first, length, estimate)
        BY <1>1, <1>2, <1>5, <3>2, NextPageIsNumbered
    <3> QED BY <1>2, <1>5, <2>2, <3>3
  <2> QED BY <2>3, <2>4
<1>6. ASSUME estimate = Len(all), all # <<>>,
             NEW link \in view.numbered \cup view.arrows
      PROVE  link < Len(all)
  <2>1. Len(all) # 0
      BY <1>1, <1>6, EmptySeq
  <2> QED BY <1>1, <1>2, <1>6, <2>1, LinksLeadToResults
<1> QED BY <1>4, <1>5, <1>6

LEMMA PageLengthIs ==
    ASSUME NEW length \in Nat
    PROVE  /\ PageLength(length) \in 1 .. MAX_SEARCH_LEN
           /\ length \in 1 .. MAX_SEARCH_LEN => PageLength(length) = length
BY PagesAssumption DEF PageLength

(* A first page is where the turning starts, another one is not.           *)
LEMMA NewPageKeepsPages ==
    ASSUME NEW p \in Pattern, NEW first \in Nat, NEW length \in 1 .. MAX_SEARCH_LEN,
           view' = Page(p, first, length),
           turned' # NotTurning =>
               \E k \in Nat : /\ first = k * length
                              /\ turned' = SubSeq(Ranked[p], 1, Smaller(first + length, Len(Ranked[p])))
    PROVE  PagesInv'
<1>1. /\ view'.pattern = p /\ view'.start = first /\ view'.length = length
      /\ view'.numbered = Numbered(first, length, Estimate[p])
      /\ view'.arrows = Arrows(first, length, Estimate[p])
    BY DEF Page
<1> QED BY <1>1 DEF PagesInv

LEMMA FirstPageIs ==
    ASSUME NEW p \in Pattern, NEW length \in Nat
    PROVE  /\ 0 = 0 * length
           /\ Results(p, 0, length) = SubSeq(Ranked[p], 1, Smaller(0 + length, Len(Ranked[p])))
<1>1. Ranked[p] \in Seq(Result)
    BY PagesAssumption
<1>2. 0 + length = length /\ 0 + 1 = 1 /\ 0 * length = 0 /\ 0 \in Nat
    OBVIOUS
<1>3. Results(p, 0, length) = Slice(Ranked[p], 0, length)
    BY <1>2 DEF Results
<1>4. Slice(Ranked[p], 0, length) = SubSeq(Ranked[p], 0 + 1, Smaller(length, Len(Ranked[p])))
    BY <1>1, <1>2, SliceIs
<1> QED BY <1>2, <1>3, <1>4

LEMMA RequestKeepsPages ==
    ASSUME NEW p \in Pattern, NEW first \in Nat, NEW length \in Nat,
           HandleSearch(p, first, length)
    PROVE  PagesInv'
<1> DEFINE len == PageLength(length)
<1>1. len \in 1 .. MAX_SEARCH_LEN /\ len \in Nat
    BY PageLengthIs, PagesAssumption
<1>2. /\ view' = Page(p, first, len)
      /\ turned' = IF first = 0 THEN Results(p, first, len) ELSE NotTurning
    BY DEF HandleSearch, Page
<1> HIDE DEF len
<1>3. turned' # NotTurning =>
          \E k \in Nat : /\ first = k * len
                         /\ turned' = SubSeq(Ranked[p], 1, Smaller(first + len, Len(Ranked[p])))
    BY <1>1, <1>2, FirstPageIs
<1> QED BY <1>1, <1>2, <1>3, NewPageKeepsPages

LEMMA FollowKeepsPages ==
    ASSUME PagesInv, NEW link, Follow(link) PROVE PagesInv'
<1> DEFINE p == view.pattern
           all == Ranked[p]
           first == view.start
           length == view.length
<1>1. p \in Pattern /\ link \in view.numbered \cup view.arrows
    BY DEF Follow
<1>2. /\ first \in Nat /\ length \in 1 .. MAX_SEARCH_LEN
      /\ view.numbered = Numbered(first, length, Estimate[p])
      /\ view.arrows = Arrows(first, length, Estimate[p])
      /\ turned # NotTurning =>
            /\ \E k \in Nat : first = k * length
            /\ turned = SubSeq(all, 1, Smaller(first + length, Len(all)))
    BY <1>1 DEF PagesInv
<1>3. length \in Nat \ {0} /\ Estimate[p] \in Nat /\ PageLength(length) = length
  <2>1. Estimate[p] \in Nat /\ MAX_SEARCH_LEN \in Nat
      BY <1>1, PagesAssumption
  <2>2. length \in 1 .. MAX_SEARCH_LEN
      BY <1>2
  <2> HIDE DEF length
  <2>3. length \in Nat \ {0}
      BY <2>1, <2>2
  <2> QED BY <2>1, <2>2, <2>3, PageLengthIs
<1>4. link \in Nat
    BY <1>1, <1>2, <1>3, LinksLeadToResults
<1>5. /\ view' = Page(p, link, length)
      /\ turned' = IF link = 0 THEN Results(p, link, length)
                   ELSE IF link = first + length /\ turned # NotTurning
                   THEN turned \o Results(p, link, length) ELSE NotTurning
  <2>1. view' = Page(p, link, length)
      BY <1>3 DEF Follow
  <2>2. view'.results = Results(p, link, length)
      BY <2>1 DEF Page
  <2>3. turned' = CASE link = 0 -> view'.results
                    [] link = first + length /\ turned # NotTurning -> turned \o view'.results
                    [] OTHER -> NotTurning
      BY DEF Follow
  <2>4. first + length # 0
      BY <1>2, <1>3
  <2> HIDE DEF first, length
  <2> QED BY <2>1, <2>2, <2>3, <2>4
<1>6. all \in Seq(Result)
    BY <1>1, PagesAssumption
<1> HIDE DEF p, first, length
<1>7. CASE link = 0
    BY <1>1, <1>2, <1>3, <1>5, <1>7, FirstPageIs, NewPageKeepsPages
<1>8. CASE link # 0 /\ link = first + length /\ turned # NotTurning
  <2>1. PICK k \in Nat : first = k * length
      BY <1>2, <1>8
  <2>2. k + 1 \in Nat /\ link = (k + 1) * length
      BY <1>3, <1>8, <2>1
  <2>3. turned' = SubSeq(all, 1, Smaller(link, Len(all))) \o Slice(all, link, link + length)
      BY <1>2, <1>5, <1>8 DEF Results
  <2>4. link + length \in Nat /\ link <= link + length
      BY <1>3, <1>4
  <2>5. turned' = SubSeq(all, 1, Smaller(link + length, Len(all)))
      BY <1>4, <1>6, <2>3, <2>4, PrefixGoesOn
  <2> QED BY <1>1, <1>2, <1>4, <1>5, <2>2, <2>5, NewPageKeepsPages
<1>9. CASE link # 0 /\ ~(link = first + length /\ turned # NotTurning)
  <2>1. turned' = NotTurning
      BY <1>5, <1>9
  <2> QED BY <1>1, <1>2, <1>4, <1>5, <2>1, NewPageKeepsPages
<1> QED BY <1>7, <1>8, <1>9

LEMMA BrowseKeepsPages == ASSUME PagesInv, Browse PROVE PagesInv'
<1>1. ASSUME NEW p \in Pattern, NEW first \in Offset, NEW length \in Length,
             HandleSearch(p, first, length)
      PROVE  PagesInv'
  <2>1. first \in Nat /\ length \in Nat
      BY PagesAssumption
  <2> QED BY <1>1, <2>1, RequestKeepsPages
<1> QED BY <1>1, FollowKeepsPages DEF Browse

(***************************************************************************)
(* The theorem: results come once and in order, for any archives, results, *)
(* patterns, page lengths and numbers of matches.                          *)
(***************************************************************************)
SearchInv == SearcherInv /\ PagesInv

THEOREM SearchInvariant == SearchSpec => []SearchInv
<1>1. SearchInit => SearchInv
  <2> SUFFICES ASSUME SearchInit PROVE PagesInv
      BY StartKeepsSearcher DEF SearchInv
  <2>1. /\ view.start = 0 /\ view.length = 0 /\ turned = NotTurning
        /\ view.pattern = NoResults
      BY DEF SearchInit, NoPage
  <2> QED BY <2>1, PagesAssumption DEF PagesInv
<1>2. SearchInv /\ [SearchNext]_searchVars => SearchInv'
  <2> SUFFICES ASSUME SearchInv, [SearchNext]_searchVars PROVE SearchInv'
      OBVIOUS
  <2>1. CASE Program
    <3>1. UNCHANGED <<view, turned>>
        BY <2>1 DEF Program, AddReader, Search, Suggestions, RestartSearch, GetNextResult
    <3>2. PagesInv'
        BY <3>1 DEF SearchInv, PagesInv
    <3> QED BY <2>1, <3>2, ProgramKeepsSearcher DEF SearchInv
  <2>2. CASE Browse
    <3>1. UNCHANGED <<searcher, given, asked>>
        BY <2>2 DEF Browse, HandleSearch, Follow
    <3> QED BY <2>2, <3>1, BrowsingKeepsSearcher, BrowseKeepsPages DEF SearchInv
  <2>3. CASE UNCHANGED searchVars
      BY <2>3 DEF searchVars, SearchInv, SearcherInv, PagesInv
  <2> QED BY <2>1, <2>2, <2>3 DEF SearchNext
<1> QED BY <1>1, <1>2, PTL DEF SearchSpec

THEOREM ResultsCorrect == SearchSpec => []ResultsComeOnceInOrder
<1>1. SearchInv => ResultsComeOnceInOrder
    BY InvGivesTheRange, InvFitsTogether DEF SearchInv, ResultsComeOnceInOrder
<1> QED BY <1>1, SearchInvariant, PTL

-----------------------------------------------------------------------------
(***************************************************************************)
(* Lists of books without repetition.                                      *)
(***************************************************************************)

Listing == {b \in Seq(Book) : IsInjective(b)}

Among(s) == {s[i] : i \in 1 .. Len(s)}

LEMMA NoIndexIs == NoIndex \in Nat
BY PageAssumption, FS_CardinalityType DEF NoIndex

LEMMA ListIs ==
    ASSUME NEW list \in Listing
    PROVE  /\ list \in Seq(Book) /\ Len(list) \in Nat /\ DOMAIN list = 1 .. Len(list)
           /\ \A i \in 1 .. Len(list) : list[i] \in Book
           /\ \A i, j \in 1 .. Len(list) : list[i] = list[j] => i = j
BY LenProperties, ElementOfSeq DEF Listing, IsInjective

(* It is as long as the set of its books, and no longer than all books.    *)
LEMMA ListIsAsLong ==
    ASSUME NEW list \in Listing
    PROVE  Len(list) = Cardinality(Among(list)) /\ Len(list) <= NoIndex
<1> DEFINE n == Len(list)
<1>1. n \in Nat /\ list \in [1 .. n -> Among(list)] /\ Among(list) \subseteq Book
    BY ListIs, LenProperties DEF Among
<1>2. list \in Bijection(1 .. n, Among(list))
    BY <1>1, ListIs DEF Bijection, Injection, Surjection, IsInjective, Among
<1>3. n = Cardinality(Among(list))
    BY <1>1, <1>2, FS_CountingElements DEF ExistsBijection
<1>4. Cardinality(Among(list)) <= NoIndex
    BY <1>1, PageAssumption, FS_Subset DEF NoIndex
<1> QED BY <1>3, <1>4

LEMMA MatchingIs == ASSUME NEW f \in Filter PROVE Matching[f] \in Listing
BY PageAssumption DEF Listing

(* The first n books of a list, and the piece of it that is asked for.     *)
LEMMA PrefixIs ==
    ASSUME NEW list \in Listing, NEW n \in 0 .. Len(list)
    PROVE  /\ SubSeq(list, 1, n) \in Listing /\ Len(SubSeq(list, 1, n)) = n
           /\ \A i \in 1 .. n : SubSeq(list, 1, n)[i] = list[i]
<1> DEFINE first == SubSeq(list, 1, n)
<1>1. n \in Nat /\ n \in Int /\ 1 \in Int /\ \A i \in 1 .. n : i \in 1 .. Len(list)
    BY ListIs
<1>2. \A i \in 1 .. n : list[i] \in Book
    BY <1>1, ListIs
<1>3. /\ first \in Seq(Book) /\ Len(first) = n
      /\ \A i \in 1 .. n : first[i] = list[i]
    BY <1>1, <1>2, SubSeqProperties
<1> HIDE DEF first
<1>4. DOMAIN first = 1 .. n
    BY <1>3, LenProperties
<1>5. IsInjective(first)
    BY <1>1, <1>3, <1>4, ListIs DEF IsInjective
<1> QED BY <1>3, <1>5 DEF Listing, first

LEMMA PieceIs ==
    ASSUME NEW request \in Request
    PROVE  LET all == Matching[request.filter]
               books == Books(request)
           IN  /\ books \in Listing
               /\ Len(books) = IF request.start >= Len(all) THEN 0
                               ELSE IF request.start + request.count < Len(all)
                               THEN request.count ELSE Len(all) - request.start
               /\ \A i \in 1 .. Len(books) : books[i] = all[request.start + i]
<1> DEFINE all == Matching[request.filter]
           from == request.start
           end == from + request.count
           last == IF end < Len(all) THEN end ELSE Len(all)
           books == SubSeq(all, from + 1, last)
<1>1. /\ all \in Listing /\ from \in Nat /\ end \in Nat /\ end > from /\ request.count \in Nat
  <2>1. /\ request.filter \in Filter /\ request.start \in Nat
        /\ request.count \in ViewPort
      BY DEF Request
  <2>2. request.count \in Nat \ {0}
      BY <2>1, PageAssumption
  <2> QED BY <2>1, <2>2, MatchingIs
<1>2. Books(request) = books
    BY DEF Books
<1>3. request.count = end - from
    BY <1>1
<1> HIDE DEF all, from, end
<1>4. Len(all) \in Nat /\ last \in Nat /\ last <= Len(all)
    BY <1>1, ListIs
<1> HIDE DEF last, books
<1>5. \A i \in from + 1 .. last : i \in 1 .. Len(all) /\ all[i] \in Book
    BY <1>1, <1>4, ListIs
<1>6. /\ books \in Seq(Book)
      /\ Len(books) = IF from + 1 <= last THEN last - (from + 1) + 1 ELSE 0
      /\ \A i \in 1 .. last - (from + 1) + 1 : books[i] = all[(from + 1) + i - 1]
  <2>1. from + 1 \in Int /\ last \in Int
      BY <1>1, <1>4
  <2> QED BY <1>5, <2>1, SubSeqProperties DEF books
<1>7. Len(books) = IF from + 1 <= last THEN last - from ELSE 0
    BY <1>1, <1>4, <1>6
<1>8. \A i \in 1 .. Len(books) : books[i] = all[from + i] /\ from + i \in 1 .. Len(all)
  <2> SUFFICES ASSUME NEW i \in 1 .. Len(books)
               PROVE  books[i] = all[from + i] /\ from + i \in 1 .. Len(all)
      OBVIOUS
  <2>1. i \in 1 .. last - (from + 1) + 1 /\ (from + 1) + i - 1 = from + i
        /\ from + i \in 1 .. Len(all)
      BY <1>1, <1>4, <1>7
  <2> QED BY <1>6, <2>1
<1>9. DOMAIN books = 1 .. Len(books) /\ Len(books) \in Nat
    BY <1>6, LenProperties
<1>10. \A i, j \in 1 .. Len(books) : books[i] = books[j] => i = j
  <2> SUFFICES ASSUME NEW i \in 1 .. Len(books), NEW j \in 1 .. Len(books), books[i] = books[j]
               PROVE  i = j
      OBVIOUS
  <2>1. from + i = from + j
      BY <1>1, <1>8, ListIs
  <2> QED BY <1>1, <1>9, <2>1
<1>11. books \in Listing
    BY <1>6, <1>9, <1>10 DEF Listing, IsInjective
<1>12. Len(books) = IF from >= Len(all) THEN 0
                    ELSE IF end < Len(all) THEN end - from ELSE Len(all) - from
    BY <1>1, <1>4, <1>7 DEF last
<1> QED BY <1>2, <1>3, <1>8, <1>11, <1>12 DEF all, from, end

(* The map after an answer: the books of the piece by their place in it,   *)
(* the others as before.                                                   *)
LEMMA IndexIs ==
    ASSUME NEW list \in Listing, NEW map \in [Book -> 0 .. NoIndex]
    PROVE  /\ Index(list, map) \in [Book -> 0 .. NoIndex]
           /\ \A i \in 1 .. Len(list) : Index(list, map)[list[i]] = i - 1 /\ i - 1 < NoIndex
           /\ \A b \in Book : b \notin Among(list) => Index(list, map)[b] = map[b]
<1> DEFINE new == Index(list, map)
<1>1. /\ Len(list) \in Nat /\ NoIndex \in Nat /\ Len(list) <= NoIndex
      /\ \A i \in 1 .. Len(list) : list[i] \in Book
      /\ \A i, j \in 1 .. Len(list) : list[i] = list[j] => i = j
    BY NoIndexIs, ListIs, ListIsAsLong
<1>2. \A b \in Book : Contains(list, b) <=> b \in Among(list)
    BY DEF Contains, Among
<1>3. ASSUME NEW i \in 1 .. Len(list) PROVE new[list[i]] = i - 1 /\ i - 1 < NoIndex
  <2> DEFINE k == CHOOSE k \in 0 .. Len(list) - 1 : list[k + 1] = list[i]
  <2>1. i - 1 \in 0 .. Len(list) - 1 /\ (i - 1) + 1 = i
      BY <1>1
  <2>2. k \in 0 .. Len(list) - 1 /\ list[k + 1] = list[i]
      BY <2>1
  <2> HIDE DEF k
  <2>3. k + 1 \in 1 .. Len(list) /\ k + 1 = i
      BY <1>1, <2>2
  <2>4. k = i - 1 /\ i - 1 < NoIndex
      BY <1>1, <2>2, <2>3
  <2>5. list[i] \in Book /\ Contains(list, list[i])
      BY <1>1 DEF Contains
  <2> QED BY <2>4, <2>5 DEF Index, k
<1>4. ASSUME NEW b \in Book, b \notin Among(list) PROVE new[b] = map[b]
    BY <1>2, <1>4 DEF Index
<1>5. ASSUME NEW b \in Book PROVE new[b] \in 0 .. NoIndex
  <2>1. CASE b \in Among(list)
    <3>1. PICK i \in 1 .. Len(list) : b = list[i]
        BY <2>1 DEF Among
    <3> QED BY <1>1, <1>3, <3>1
  <2> QED BY <1>4, <2>1
<1>6. new = [b \in Book |-> new[b]]
    BY DEF Index
<1> HIDE DEF new
<1>7. new \in [Book -> 0 .. NoIndex]
    BY <1>5, <1>6
<1> QED BY <1>3, <1>4, <1>7 DEF new

(***************************************************************************)
(* What is displayed.                                                      *)
(***************************************************************************)

Item == [book : Book, weight : 0 .. NoIndex]

Distinct(items) ==
    \A i, j \in 1 .. Len(items) : items[i].book = items[j].book => i = j

LEMMA NoBookTwiceIs ==
    ASSUME NEW items \in Seq(Item)
    PROVE  IsInjective([i \in DOMAIN items |-> items[i].book]) <=> Distinct(items)
<1>1. DOMAIN items = 1 .. Len(items)
    BY LenProperties
<1> QED BY <1>1 DEF IsInjective, Distinct

LEMMA ItemsAre ==
    ASSUME NEW list \in Listing, NEW map \in [Book -> 0 .. NoIndex], NEW sort \in BOOLEAN
    PROVE  /\ Items(list, map, sort) \in Seq(Item) /\ Len(Items(list, map, sort)) = Len(list)
           /\ \A i \in 1 .. Len(list) :
                 /\ Items(list, map, sort)[i].book = list[i]
                 /\ Items(list, map, sort)[i].weight = IF sort THEN map[list[i]] ELSE NoIndex
<1> DEFINE new == Items(list, map, sort)
<1>1. /\ Len(list) \in Nat /\ DOMAIN list = 1 .. Len(list) /\ NoIndex \in 0 .. NoIndex
      /\ \A i \in 1 .. Len(list) : list[i] \in Book
    BY ListIs, NoIndexIs
<1>2. new = [i \in 1 .. Len(list) |->
               [book |-> list[i], weight |-> IF sort THEN map[list[i]] ELSE NoIndex]]
    BY <1>1 DEF Items
<1> HIDE DEF new
<1>3. new \in [1 .. Len(list) -> Item]
    BY <1>1, <1>2 DEF Item
<1>4. new \in Seq(Item) /\ Len(new) = Len(list)
  <2>1. new \in Seq(Item)
      BY <1>1, <1>3
  <2>2. DOMAIN new = 1 .. Len(list)
      BY <1>3
  <2>3. DOMAIN new = 1 .. Len(new) /\ Len(new) \in Nat
      BY <2>1, LenProperties
  <2> QED BY <1>1, <2>1, <2>2, <2>3
<1> QED BY <1>2, <1>4 DEF new

(* The books that stay are those of the map, and the others come after     *)
(* them; no book is there twice.                                           *)
Displays(all, kept, new, list, map, sort) ==
    LET m == Len(kept)
        n == Len(new)
    IN  /\ all \in Seq(Item) /\ Len(all) = m + n /\ Distinct(all)
        /\ \A i \in 1 .. m : /\ all[i].book = kept[i].book
                             /\ all[i].weight = IF sort THEN map[kept[i].book]
                                                ELSE kept[i].weight
        /\ \A i \in 1 .. n : /\ all[m + i].book = new[i]
                             /\ all[m + i].weight = IF sort THEN map[new[i]] ELSE NoIndex
        /\ \E at : Picks(kept, at, displayed,
                         {item \in Range(displayed) : map[item.book] # NoIndex}, Len(displayed))
        /\ \E at : Picks(new, at, list, Book \ {kept[i].book : i \in DOMAIN kept}, Len(list))

LEMMA DisplayIs ==
    ASSUME displayed \in Seq(Item), Distinct(displayed),
           NEW list \in Listing, NEW map \in [Book -> 0 .. NoIndex], NEW sort \in BOOLEAN
    PROVE  \E kept \in Seq(Item), new \in Listing :
              Displays(Display(list, map, sort), kept, new, list, map, sort)
<1> DEFINE inMap == {item \in Range(displayed) : map[item.book] # NoIndex}
           kept == OnlyIn(displayed, inMap)
           others == Book \ {kept[i].book : i \in DOMAIN kept}
           new == OnlyIn(list, others)
           Resorted(item) == IF sort THEN [item EXCEPT !.weight = map[item.book]] ELSE item
           first == [i \in DOMAIN kept |-> Resorted(kept[i])]
           rest == Items(new, map, sort)
           m == Len(kept)
           n == Len(new)
           all == Display(list, map, sort)
<1>1. all = first \o rest
    BY DEF Display
<1>2. kept \in Seq(Item) /\ \E at : Picks(kept, at, displayed, inMap, Len(displayed))
    BY OnlyInIs
<1>3. new \in Seq(Book) /\ \E at : Picks(new, at, list, others, Len(list))
    BY ListIs, OnlyInIs
<1> HIDE DEF inMap, kept, new, all
<1>4. m \in Nat /\ DOMAIN kept = 1 .. m /\ \A i \in 1 .. m : kept[i] \in Item
    BY <1>2, LenProperties, ElementOfSeq
<1>5. n \in Nat /\ DOMAIN new = 1 .. n
    BY <1>3, LenProperties
<1>6. \A i, j \in 1 .. m : kept[i].book = kept[j].book => i = j
  <2>1. PICK at : Picks(kept, at, displayed, inMap, Len(displayed))
      BY <1>2
  <2>2. /\ at \in [1 .. m -> 1 .. Len(displayed)] /\ \A i \in 1 .. m : kept[i] = displayed[at[i]]
        /\ \A i, j \in 1 .. m : i < j => at[i] < at[j]
      BY <2>1 DEF Picks
  <2> SUFFICES ASSUME NEW i \in 1 .. m, NEW j \in 1 .. m, kept[i].book = kept[j].book
               PROVE  i = j
      OBVIOUS
  <2>3. at[i] = at[j] /\ at[i] \in 1 .. Len(displayed) /\ Len(displayed) \in Nat
    <3>1. at[i] \in 1 .. Len(displayed) /\ at[j] \in 1 .. Len(displayed)
        BY <2>2
    <3>2. displayed[at[i]].book = displayed[at[j]].book
        BY <2>2
    <3> QED BY <3>1, <3>2, LenProperties DEF Distinct
  <2>4. ~(at[i] < at[j]) /\ ~(at[j] < at[i])
      BY <2>3
  <2>5. ~(i < j) /\ ~(j < i)
      BY <2>2, <2>4
  <2> QED BY <1>4, <2>5
<1>7. new \in Listing /\ \A i \in 1 .. n : new[i] \in others
  <2>1. PICK at : Picks(new, at, list, others, Len(list))
      BY <1>3
  <2>2. /\ at \in [1 .. n -> 1 .. Len(list)]
        /\ \A i \in 1 .. n : new[i] = list[at[i]] /\ new[i] \in others
        /\ \A i, j \in 1 .. n : i < j => at[i] < at[j]
      BY <2>1 DEF Picks
  <2>3. ASSUME NEW i \in 1 .. n, NEW j \in 1 .. n, new[i] = new[j] PROVE i = j
    <3>1. at[i] = at[j] /\ at[i] \in 1 .. Len(list) /\ Len(list) \in Nat
      <4>1. at[i] \in 1 .. Len(list) /\ at[j] \in 1 .. Len(list) /\ list[at[i]] = list[at[j]]
          BY <2>2, <2>3
      <4>2. /\ Len(list) \in Nat
            /\ \A k, l \in 1 .. Len(list) : list[k] = list[l] => k = l
          BY ListIs
      <4> QED BY <4>1, <4>2
    <3>2. ~(at[i] < at[j]) /\ ~(at[j] < at[i])
        BY <3>1
    <3>3. ~(i < j) /\ ~(j < i)
        BY <2>2, <3>2
    <3> QED BY <1>5, <3>3
  <2> QED BY <1>3, <1>5, <2>2, <2>3 DEF Listing, IsInjective
<1>8. /\ first \in Seq(Item) /\ Len(first) = m
      /\ \A i \in 1 .. m : /\ first[i].book = kept[i].book
                           /\ first[i].weight = IF sort THEN map[kept[i].book]
                                                ELSE kept[i].weight
  <2>1. ASSUME NEW item \in Item
        PROVE  /\ Resorted(item) \in Item /\ Resorted(item).book = item.book
               /\ Resorted(item).weight = IF sort THEN map[item.book] ELSE item.weight
      BY <2>1 DEF Item
  <2> HIDE DEF Resorted
  <2>2. first \in [1 .. m -> Item] /\ \A i \in 1 .. m : first[i] = Resorted(kept[i])
      BY <1>4, <2>1
  <2> HIDE DEF first
  <2>3. first \in Seq(Item) /\ Len(first) = m
      BY <1>4, <2>2
  <2> QED BY <1>4, <2>1, <2>2, <2>3
<1>9. /\ rest \in Seq(Item) /\ Len(rest) = n
      /\ \A i \in 1 .. n : /\ rest[i].book = new[i]
                           /\ rest[i].weight = IF sort THEN map[new[i]] ELSE NoIndex
    BY <1>7, ItemsAre
<1> HIDE DEF first, rest
<1>10. /\ all \in Seq(Item) /\ Len(all) = m + n
       /\ \A i \in 1 .. m + n : all[i] = IF i <= m THEN first[i] ELSE rest[i - m]
  <2>1. /\ first \o rest \in Seq(Item) /\ Len(first \o rest) = Len(first) + Len(rest)
        /\ \A i \in 1 .. Len(first) + Len(rest) :
              (first \o rest)[i] = IF i <= Len(first) THEN first[i] ELSE rest[i - Len(first)]
    <3>1. first \in Seq(Item) /\ rest \in Seq(Item)
        BY <1>8, <1>9
    <3> QED BY ONLY <3>1, ConcatProperties
  <2>2. Len(first) = m /\ Len(rest) = n
      BY <1>8, <1>9
  <2> QED BY ONLY <1>1, <2>1, <2>2
<1>11. /\ \A i \in 1 .. m : all[i] = first[i]
       /\ \A i \in 1 .. n : all[m + i] = rest[i]
  <2>1. \A i \in 1 .. m : i \in 1 .. m + n /\ i <= m
      BY <1>4, <1>5
  <2>2. \A i \in 1 .. n : m + i \in 1 .. m + n /\ ~(m + i <= m) /\ (m + i) - m = i
      BY <1>4, <1>5
  <2> QED BY <1>10, <2>1, <2>2
<1>12. ASSUME NEW i \in 1 .. m, NEW j \in 1 .. n PROVE all[i].book # all[m + j].book
  <2>1. new[j] # kept[i].book
      BY <1>4, <1>7
  <2> QED BY <1>8, <1>9, <1>11, <2>1
<1>13. \A i \in 1 .. m + n : i \in 1 .. m \/ \E k \in 1 .. n : i = m + k
  <2> SUFFICES ASSUME NEW i \in 1 .. m + n, i \notin 1 .. m PROVE \E k \in 1 .. n : i = m + k
      OBVIOUS
  <2>1. i - m \in 1 .. n /\ i = m + (i - m)
      BY <1>4, <1>5
  <2> QED BY <2>1
<1>14. ASSUME NEW i \in 1 .. m + n, NEW j \in 1 .. m + n, all[i].book = all[j].book
       PROVE  i = j
  <2>1. CASE i \in 1 .. m /\ j \in 1 .. m
      BY <1>6, <1>8, <1>11, <1>14, <2>1
  <2>2. CASE i \in 1 .. m /\ j \notin 1 .. m
      BY <1>12, <1>13, <1>14, <2>2
  <2>3. CASE i \notin 1 .. m /\ j \in 1 .. m
      BY <1>12, <1>13, <1>14, <2>3
  <2>4. CASE i \notin 1 .. m /\ j \notin 1 .. m
    <3>1. PICK k \in 1 .. n, l \in 1 .. n : i = m + k /\ j = m + l
        BY <1>13, <2>4
    <3>2. new[k] = new[l]
        BY <1>9, <1>11, <1>14, <3>1
    <3>3. k = l
        BY <1>7, <3>2, ListIs
    <3> QED BY <3>1, <3>3
  <2> QED BY <2>1, <2>2, <2>3, <2>4
<1>15. Distinct(all)
    BY <1>10, <1>14 DEF Distinct
<1>16. /\ \A i \in 1 .. m : /\ all[i].book = kept[i].book
                            /\ all[i].weight = IF sort THEN map[kept[i].book]
                                               ELSE kept[i].weight
       /\ \A i \in 1 .. n : /\ all[m + i].book = new[i]
                            /\ all[m + i].weight = IF sort THEN map[new[i]] ELSE NoIndex
    BY <1>8, <1>9, <1>11
<1>17. Displays(all, kept, new, list, map, sort)
    BY <1>2, <1>3, <1>10, <1>15, <1>16 DEF Displays, inMap
<1>18. kept \in Seq(Item) /\ new \in Listing
    BY <1>2, <1>7
<1> QED BY <1>17, <1>18 DEF all

(* If every element is picked, nothing is left out and nothing moves.      *)
LEMMA EverythingPicked ==
    ASSUME NEW V, NEW list \in Seq(V), NEW S, NEW found \in Seq(V), NEW at,
           Picks(found, at, list, S, Len(list)), \A k \in 1 .. Len(list) : list[k] \in S
    PROVE  Len(found) = Len(list) /\ \A i \in 1 .. Len(list) : found[i] = list[i]
<1> DEFINE m == Len(found)
           n == Len(list)
           T == {k \in 0 .. n : k <= m /\ \A j \in 1 .. k : at[j] = j}
<1>1. m \in Nat /\ n \in Nat
    BY LenProperties
<1>2. /\ at \in [1 .. m -> 1 .. n]
      /\ \A i \in 1 .. m : found[i] = list[at[i]]
      /\ \A i, j \in 1 .. m : i < j => at[i] < at[j]
      /\ \A k \in 1 .. n : \E i \in 1 .. m : at[i] = k
    BY DEF Picks
<1> HIDE DEF m, n
<1>3. 0 \in T
    BY <1>1
<1>4. ASSUME NEW k \in 0 .. n - 1, k \in T PROVE k + 1 \in T
  <2>1. k \in Nat /\ k + 1 \in 1 .. n /\ k <= m /\ \A j \in 1 .. k : at[j] = j
      BY <1>1, <1>4
  <2>2. PICK p \in 1 .. m : at[p] = k + 1
      BY <1>2, <2>1
  <2>3. p \notin 1 .. k
    <3>1. p \in 1 .. k => at[p] = p /\ p # k + 1
        BY <2>1
    <3> QED BY <2>2, <3>1
  <2>4. p >= k + 1 /\ k + 1 \in 1 .. m
      BY <1>1, <2>1, <2>3
  <2>5. ASSUME p # k + 1 PROVE FALSE
    <3>1. at[k + 1] < k + 1 /\ at[k + 1] \in 1 .. n
        BY <1>2, <2>1, <2>2, <2>4, <2>5
    <3>2. k \in 1 .. k /\ k \in 1 .. m
        BY <1>1, <2>1, <3>1
    <3>3. at[k] = k /\ at[k] < at[k + 1]
        BY <1>2, <2>1, <2>4, <3>2
    <3> QED BY <1>1, <2>1, <3>1, <3>3
  <2>6. \A j \in 1 .. k + 1 : j \in 1 .. k \/ j = k + 1
      BY <2>1
  <2>7. \A j \in 1 .. k + 1 : at[j] = j
      BY <2>1, <2>2, <2>5, <2>6
  <2> QED BY <1>1, <2>1, <2>4, <2>7
<1> HIDE DEF T
<1>5. \A k \in 0 .. n : k \in T
    BY <1>1, <1>3, <1>4, BoundedInduction
<1>6. n \in 0 .. n
    BY <1>1
<1>7. n <= m /\ \A j \in 1 .. n : at[j] = j
    BY <1>5, <1>6 DEF T
<1>8. m = n
  <2> SUFFICES ASSUME n + 1 \in 1 .. m PROVE FALSE
      BY <1>1, <1>7
  <2>1. at[n + 1] \in 1 .. n
      BY <1>2
  <2>2. n \in 1 .. n /\ n \in 1 .. m
      BY <1>1, <1>7, <2>1
  <2>3. at[n] = n /\ at[n] < at[n + 1]
      BY <1>1, <1>2, <1>7, <2>2
  <2> QED BY <1>1, <2>1, <2>3
<1>9. \A i \in 1 .. n : found[i] = list[i]
    BY <1>2, <1>7, <1>8
<1> QED BY <1>8, <1>9 DEF m, n

LEMMA ArrangedIs ==
    ASSUME NEW items, NEW books, Arranged(items, books)
    PROVE  /\ Len(items) = Len(books)
           /\ \A i \in 1 .. Len(items) : \E k \in 1 .. Len(books) : items[i].book = books[k]
<1>1. Len(items) = Len(books)
    BY DEF Arranged
<1>2. PICK place \in [1 .. Len(items) -> 1 .. Len(books)] :
          \A i \in 1 .. Len(items) : books[place[i]] = items[i].book
    BY DEF Arranged
<1> QED BY <1>1, <1>2

LEMMA NothingArranged == Arranged(<<>>, <<>>)
<1> DEFINE place == [i \in 1 .. 0 |-> 1]
<1>1. Len(<<>>) = 0 /\ 1 .. 0 = {}
    BY EmptySeq
<1>2. place \in [1 .. 0 -> 1 .. 0]
    BY <1>1
<1> HIDE DEF place
<1>3. \E at \in [1 .. 0 -> 1 .. 0] : at = place
    BY <1>2
<1> QED BY <1>1, <1>3 DEF Arranged

(* A piece that comes after what is on the screen.                         *)
LEMMA PieceIsArranged ==
    ASSUME NEW items \in Seq(Item), NEW all \in Seq(Item),
           NEW list \in Seq(Book), NEW longer \in Seq(Book),
           Arranged(items, list),
           Len(all) = Len(longer), Len(list) <= Len(longer),
           \A i \in 1 .. Len(list) : longer[i] = list[i],
           \A i \in 1 .. Len(list) :
               all[i].book = items[i].book /\ all[i].weight = items[i].weight,
           \A i \in Len(list) + 1 .. Len(longer) :
               all[i].book = longer[i] /\ all[i].weight = NoIndex
    PROVE  Arranged(all, longer)
<1> DEFINE n == Len(list)
           N == Len(longer)
<1>1. n \in Nat /\ N \in Nat /\ n <= N /\ Len(items) = n /\ NoIndex \in Nat
    BY LenProperties, NoIndexIs DEF Arranged
<1>2. PICK place \in [1 .. n -> 1 .. n] :
          /\ \A i \in 1 .. n : list[place[i]] = items[i].book
          /\ \A i, j \in 1 .. n :
                \/ items[i].weight < items[j].weight
                \/ items[i].weight = items[j].weight /\ i < j
                => place[i] < place[j]
    BY <1>1 DEF Arranged
<1> DEFINE to == [i \in 1 .. N |-> IF i \in 1 .. n THEN place[i] ELSE i]
<1>3. /\ to \in [1 .. N -> 1 .. N]
      /\ \A i \in 1 .. n : to[i] = place[i] /\ place[i] \in 1 .. n
      /\ \A i \in n + 1 .. N : to[i] = i
    BY <1>1, <1>2
<1>4. \A i \in 1 .. N : i \in 1 .. n \/ i \in n + 1 .. N
    BY <1>1
<1>5. \A i \in 1 .. N : all[i].weight \in 0 .. NoIndex
  <2>1. \A i \in 1 .. N : all[i] \in Item
      BY <1>1, LenProperties, ElementOfSeq
  <2> QED BY <2>1 DEF Item
<1> HIDE DEF to, n, N
<1>6. \A i \in 1 .. N : longer[to[i]] = all[i].book
  <2> SUFFICES ASSUME NEW i \in 1 .. N PROVE longer[to[i]] = all[i].book
      OBVIOUS
  <2>1. CASE i \in 1 .. n
    <3>1. to[i] = place[i] /\ place[i] \in 1 .. n /\ list[place[i]] = items[i].book
        BY <1>2, <1>3, <2>1
    <3>2. longer[place[i]] = list[place[i]] /\ all[i].book = items[i].book
        BY <2>1, <3>1 DEF n
    <3> QED BY <3>1, <3>2
  <2>2. CASE i \in n + 1 .. N
      BY <1>3, <2>2 DEF n, N
  <2> QED BY <1>4, <2>1, <2>2
<1>7. ASSUME NEW i \in 1 .. N, NEW j \in 1 .. N,
             \/ all[i].weight < all[j].weight
             \/ all[i].weight = all[j].weight /\ i < j
      PROVE  to[i] < to[j]
  <2>1. CASE i \in 1 .. n /\ j \in 1 .. n
    <3>1. all[i].weight = items[i].weight /\ all[j].weight = items[j].weight
        BY <2>1 DEF n
    <3> QED BY <1>2, <1>3, <1>7, <2>1, <3>1
  <2>2. CASE i \in 1 .. n /\ j \in n + 1 .. N
      BY <1>1, <1>3, <2>2
  <2>3. CASE i \in n + 1 .. N /\ j \in 1 .. n
    <3>1. all[i].weight = NoIndex /\ all[j].weight <= NoIndex /\ all[j].weight \in Nat
        BY <1>1, <1>5, <2>3 DEF n, N
    <3>2. i < j
        BY <1>1, <1>7, <3>1
    <3> QED BY <1>1, <2>3, <3>2
  <2>4. CASE i \in n + 1 .. N /\ j \in n + 1 .. N
    <3>1. all[i].weight = NoIndex /\ all[j].weight = NoIndex
        BY <2>4 DEF n, N
    <3>2. i < j
        BY <1>1, <1>7, <3>1
    <3> QED BY <1>3, <2>4, <3>2
  <2> QED BY <1>4, <2>1, <2>2, <2>3, <2>4
<1>8. Len(all) = N /\ Len(longer) = N
    BY DEF N
<1>9. \E at \in [1 .. N -> 1 .. N] :
          /\ \A i \in 1 .. N : longer[at[i]] = all[i].book
          /\ \A i, j \in 1 .. N :
                \/ all[i].weight < all[j].weight
                \/ all[i].weight = all[j].weight /\ i < j
                => at[i] < at[j]
  <2>1. to \in [1 .. N -> 1 .. N]
      BY <1>3
  <2> QED BY <1>6, <1>7, <2>1
<1> QED BY <1>8, <1>9 DEF Arranged

(* Items that have the weights of a piece, and are just the books of it.   *)
LEMMA SortedIsArranged ==
    ASSUME NEW list \in Listing, NEW items \in Seq(Item), Distinct(items),
           NEW map \in [Book -> 0 .. NoIndex],
           \A i \in 1 .. Len(list) : map[list[i]] = i - 1,
           \A i \in 1 .. Len(items) :
               items[i].weight = map[items[i].book] /\ items[i].book \in Among(list),
           \A k \in 1 .. Len(list) : \E i \in 1 .. Len(items) : items[i].book = list[k]
    PROVE  Arranged(items, list)
<1> DEFINE m == Len(items)
           n == Len(list)
           names == [i \in 1 .. m |-> items[i].book]
           place == [i \in 1 .. m |-> map[items[i].book] + 1]
<1>1. m \in Nat /\ n \in Nat /\ \A i \in 1 .. m : items[i].book \in Book
  <2>1. m \in Nat /\ \A i \in 1 .. m : items[i] \in Item
      BY LenProperties, ElementOfSeq
  <2>2. n \in Nat
      BY ListIs
  <2> QED BY <2>1, <2>2 DEF Item
<1>2. names \in Listing /\ Len(names) = m /\ \A i \in 1 .. m : names[i] = items[i].book
  <2>1. names \in [1 .. m -> Book] /\ \A i \in 1 .. m : names[i] = items[i].book
      BY <1>1
  <2> HIDE DEF names
  <2>2. names \in Seq(Book) /\ Len(names) = m /\ DOMAIN names = 1 .. m
      BY <1>1, <2>1
  <2>3. IsInjective(names)
      BY <2>1, <2>2 DEF IsInjective, Distinct
  <2> QED BY <2>1, <2>2, <2>3 DEF Listing
<1> HIDE DEF names
<1>3. Among(names) = Among(list)
  <2>1. ASSUME NEW b \in Among(names) PROVE b \in Among(list)
    <3>1. PICK i \in 1 .. Len(names) : b = names[i]
        BY <2>1 DEF Among
    <3> QED BY <1>2, <3>1
  <2>2. ASSUME NEW b \in Among(list) PROVE b \in Among(names)
    <3>1. PICK k \in 1 .. n : b = list[k]
        BY <2>2 DEF Among
    <3>2. PICK i \in 1 .. m : items[i].book = list[k]
        BY <3>1
    <3>3. b = names[i] /\ i \in 1 .. Len(names)
        BY <1>2, <3>1, <3>2
    <3> QED BY <3>3 DEF Among
  <2> QED BY <2>1, <2>2
<1>4. m = n
    BY <1>2, <1>3, ListIsAsLong
<1>5. \A i \in 1 .. m : \E k \in 1 .. n : items[i].book = list[k] /\ place[i] = k
  <2> SUFFICES ASSUME NEW i \in 1 .. m
               PROVE  \E k \in 1 .. n : items[i].book = list[k] /\ place[i] = k
      OBVIOUS
  <2>1. PICK k \in 1 .. n : items[i].book = list[k]
      BY DEF Among
  <2>2. place[i] = (k - 1) + 1 /\ (k - 1) + 1 = k
      BY <1>1, <2>1
  <2> QED BY <2>1, <2>2
<1>6. \A i \in 1 .. m : place[i] = items[i].weight + 1 /\ items[i].weight \in Nat
  <2>1. \A i \in 1 .. m : map[items[i].book] \in Nat
      BY <1>1, NoIndexIs
  <2> QED BY <2>1
<1>7. place \in [1 .. m -> 1 .. n] /\ \A i \in 1 .. m : list[place[i]] = items[i].book
  <2>1. place = [i \in 1 .. m |-> place[i]]
      OBVIOUS
  <2> HIDE DEF place
  <2> QED BY <1>5, <2>1
<1> HIDE DEF place
<1>8. ASSUME NEW i \in 1 .. m, NEW j \in 1 .. m,
             \/ items[i].weight < items[j].weight
             \/ items[i].weight = items[j].weight /\ i < j
      PROVE  place[i] < place[j]
  <2>1. CASE items[i].weight < items[j].weight
      BY <1>6, <2>1
  <2>2. CASE items[i].weight = items[j].weight
    <3>1. items[i].book = items[j].book
      <4>1. place[i] = place[j]
          BY <1>6, <2>2
      <4> QED BY <1>7, <4>1
    <3>2. i = j
        BY <3>1 DEF Distinct
    <3> QED BY <1>1, <1>8, <2>2, <3>2, <1>6
  <2> QED BY <1>8, <2>1, <2>2
<1> QED BY <1>4, <1>7, <1>8 DEF Arranged

(***************************************************************************)
(* The page.                                                               *)
(***************************************************************************)

TypeOK ==
    /\ phase \in {"loading", "opening", "opened", "ready"}
    /\ filter \in Filter
    /\ start \in Nat
    /\ viewPort \in ViewPort
    /\ count \in ViewPort \cup {0}
    /\ order \in [Book -> 0 .. NoIndex]
    /\ isFetching \in BOOLEAN /\ noResultInjected \in BOOLEAN /\ undisturbed \in BOOLEAN
    /\ inflight \in Seq(Request)
    /\ displayed \in Seq(Item)
    /\ timers \in Nat

(* Before onload nothing has come, and nothing has been asked for.         *)
AtFirst ==
    phase = "loading" =>
        /\ start = 0 /\ count # 0 /\ inflight = <<>> /\ displayed = <<>>
        /\ order = [b \in Book |-> NoIndex]
        /\ undisturbed => ~isFetching

(* With the message, or the wish to show it, there is no book.             *)
NothingShown == noResultInjected => displayed = <<>>

First(n) == SubSeq(Matching[filter], 1, n)

Waiting == inflight # <<>>

(* The one request under way is for what comes next.                       *)
OnlyRequest(request) ==
    /\ inflight = <<request>>
    /\ request.filter = filter /\ request.start = start
    /\ request.sort => start = 0

(* As long as nothing unexpected happens: the map has the first books of   *)
(* the filter, and so has the screen, unless the books that will replace   *)
(* it are still to come.                                                   *)
Calm ==
    /\ start \in 0 .. Len(Matching[filter])
    /\ \A b \in Book : order[b] # NoIndex <=> Contains(First(start), b)
    /\ Waiting => isFetching /\ count # 0 /\ OnlyRequest(inflight[1])
    /\ ~Waiting => ~isFetching
    /\ ~Waiting /\ phase # "loading" => (count = 0 <=> start = Len(Matching[filter]))
    /\ ~(Waiting /\ inflight[1].sort) => Arranged(displayed, First(start))

PageInv == TypeOK /\ NoBookTwice /\ AtFirst /\ NothingShown /\ (undisturbed => Calm)

LEMMA InvIsRight == PageInv => PageIsRight
BY DEF PageInv, PageIsRight, SettledPageIsRight, Settled, Calm, Waiting, First, OnScreen

LEMMA EmptyPrefix == \A f \in Filter : SubSeq(Matching[f], 1, 0) = <<>>
BY SubSeqEmpty

LEMMA EmptyHasNothing == \A b : ~Contains(<<>>, b)
BY EmptySeq DEF Contains

LEMMA NothingTwice == Distinct(<<>>)
<1>1. Len(<<>>) = 0
    BY EmptySeq
<1> QED BY <1>1 DEF Distinct

LEMMA StartIsRight == Init => PageInv
<1> SUFFICES ASSUME Init PROVE PageInv
    OBVIOUS
<1>1. <<>> \in Seq(Item) /\ <<>> \in Seq(Request) /\ NoIndex \in 0 .. NoIndex
    BY EmptySeq, NoIndexIs
<1>2. TypeOK /\ count # 0
    BY <1>1, PageAssumption DEF Init, TypeOK
<1>3. NoBookTwice
  <2>1. displayed = <<>>
      BY DEF Init
  <2> QED BY <1>1, <2>1, NothingTwice, NoBookTwiceIs DEF NoBookTwice
<1>4. AtFirst /\ NothingShown
    BY <1>2 DEF Init, AtFirst, NothingShown
<1>5. First(start) = <<>>
    BY EmptyPrefix DEF Init, First
<1>6. start \in 0 .. Len(Matching[filter])
    BY MatchingIs, ListIs DEF Init
<1>7. Calm
    BY <1>5, <1>6, EmptyHasNothing, NothingArranged DEF Init, Calm, Waiting
<1> QED BY <1>2, <1>3, <1>4, <1>7 DEF PageInv

(* Steps that the books have nothing to do with.                           *)
LEMMA OtherStepsKeep ==
    ASSUME PageInv,
           UNCHANGED <<filter, start, order, isFetching, noResultInjected, inflight, displayed, undisturbed>>,
           phase' \in {"loading", "opening", "opened", "ready"},
           phase' = "loading" <=> phase = "loading",
           count' \in ViewPort \cup {0}, count' = 0 <=> count = 0,
           viewPort' \in ViewPort, timers' \in Nat
    PROVE  PageInv'
<1>1. TypeOK' /\ NoBookTwice' /\ AtFirst' /\ NothingShown'
    BY DEF PageInv, TypeOK, NoBookTwice, AtFirst, NothingShown
<1>2. Calm => Calm'
    BY DEF Calm, Waiting, OnlyRequest, First
<1> QED BY <1>1, <1>2 DEF PageInv

(* Asking for the next piece.                                              *)
LEMMA LoadKeeps ==
    ASSUME PageInv, NEW request \in Request, LoadAndDisplayBooks(request),
           request.filter = filter, request.start = start, ~request.sort,
           UNCHANGED <<filter, start, order, noResultInjected, viewPort, displayed, timers, undisturbed>>,
           phase' \in {"opening", "opened", "ready"},
           count # 0, count' \in ViewPort, count' # 0
    PROVE  PageInv'
<1>1. inflight' \in Seq(Request) /\ isFetching' \in BOOLEAN
  <2>1. inflight \in Seq(Request) /\ isFetching \in BOOLEAN
      BY DEF PageInv, TypeOK
  <2>2. Append(inflight, request) \in Seq(Request)
      BY <2>1, AppendProperties
  <2> QED BY <2>1, <2>2 DEF LoadAndDisplayBooks
<1>2. TypeOK' /\ NoBookTwice' /\ AtFirst' /\ NothingShown'
    BY <1>1 DEF PageInv, TypeOK, NoBookTwice, AtFirst, NothingShown
<1>3. ASSUME undisturbed, isFetching PROVE Calm'
  <2>1. UNCHANGED <<isFetching, inflight>> /\ phase # "loading" /\ Calm
      BY <1>3 DEF LoadAndDisplayBooks, PageInv, AtFirst
  <2> QED BY <2>1 DEF Calm, Waiting, OnlyRequest, First
<1>4. ASSUME undisturbed, ~isFetching PROVE Calm'
  <2>1. Calm /\ inflight = <<>>
      BY <1>4 DEF PageInv, Calm, Waiting
  <2>2. isFetching' /\ inflight' = <<request>>
      BY <1>4, <2>1 DEF LoadAndDisplayBooks
  <2>3. Waiting' /\ inflight'[1] = request
      BY <2>2 DEF Waiting
  <2>4. OnlyRequest(inflight[1])'
      BY <2>2, <2>3 DEF OnlyRequest
  <2>5. First(start)' = First(start) /\ Arranged(displayed, First(start))
      BY <2>1 DEF Calm, Waiting, First
  <2> QED BY <2>1, <2>2, <2>3, <2>4, <2>5 DEF Calm
<1> QED BY <1>2, <1>3, <1>4 DEF PageInv

(* A filter is chosen.                                                     *)
LEMMA ResetKeeps ==
    ASSUME PageInv, NEW f \in Filter, Reset(f), phase' \in {"opening", "opened", "ready"}
    PROVE  PageInv'
<1> DEFINE request == [filter |-> f, start |-> 0, count |-> viewPort,
                       sort |-> TRUE, initial |-> FALSE]
<1>1. /\ filter' = f /\ start' = 0 /\ count' = viewPort
      /\ order' = [b \in Book |-> NoIndex] /\ isFetching' = TRUE
      /\ inflight' = Append(inflight, request)
      /\ undisturbed' = (inflight = <<>> /\ timers = 0)
      /\ UNCHANGED <<noResultInjected, viewPort, displayed, timers>>
    BY DEF Reset, screen
<1>2. /\ request \in Request /\ request.filter = f /\ request.start = 0 /\ request.sort
    BY DEF PageInv, TypeOK, Request
<1> HIDE DEF request
<1>3. inflight' \in Seq(Request) /\ viewPort # 0
    BY <1>1, <1>2, AppendProperties, PageAssumption DEF PageInv, TypeOK
<1>4. TypeOK'
    BY <1>1, <1>3, NoIndexIs DEF PageInv, TypeOK
<1>5. NoBookTwice' /\ AtFirst' /\ NothingShown'
    BY <1>1 DEF PageInv, NoBookTwice, AtFirst, NothingShown
<1>6. ASSUME undisturbed' PROVE Calm'
  <2>1. inflight' = <<request>> /\ Waiting' /\ inflight'[1] = request
    <3>1. inflight = <<>>
        BY <1>1, <1>6
    <3>2. inflight' = <<request>>
        BY <1>1, <3>1
    <3> QED BY <3>2 DEF Waiting
  <2>2. OnlyRequest(inflight[1])'
      BY <1>1, <1>2, <2>1 DEF OnlyRequest
  <2>3. First(start)' = <<>>
      BY <1>1, EmptyPrefix DEF First
  <2>4. \A b \in Book : (order[b] # NoIndex)' <=> Contains(First(start), b)'
    <3>1. \A b \in Book : order'[b] = NoIndex
        BY <1>1
    <3>2. \A b : ~Contains(First(start)', b)
        BY <2>3, EmptyHasNothing
    <3> QED BY <3>1, <3>2
  <2>5. start' \in 0 .. Len(Matching[filter'])
      BY <1>1, MatchingIs, ListIs
  <2> QED BY <1>1, <1>2, <1>3, <2>1, <2>2, <2>4, <2>5 DEF Calm
<1> QED BY <1>4, <1>5, <1>6 DEF PageInv

LEMMA RemoveAtIs ==
    ASSUME NEW V, NEW list \in Seq(V), NEW i \in DOMAIN list
    PROVE  RemoveAt(list, i) \in Seq(V) /\ (Len(list) = 1 => RemoveAt(list, i) = <<>>)
<1> DEFINE before == SubSeq(list, 1, i - 1)
           after == SubSeq(list, i + 1, Len(list))
<1>1. /\ Len(list) \in Nat /\ i \in 1 .. Len(list)
      /\ \A k \in 1 .. Len(list) : list[k] \in V
    BY LenProperties, ElementOfSeq
<1>2. before \in Seq(V)
  <2>1. i - 1 \in Int /\ \A k \in 1 .. i - 1 : k \in 1 .. Len(list)
      BY <1>1
  <2> QED BY <1>1, <2>1, SubSeqProperties
<1>3. after \in Seq(V)
  <2>1. i + 1 \in Int /\ Len(list) \in Int /\ \A k \in i + 1 .. Len(list) : k \in 1 .. Len(list)
      BY <1>1
  <2> QED BY <1>1, <2>1, SubSeqProperties
<1>4. RemoveAt(list, i) = before \o after
    BY DEF RemoveAt
<1>5. ASSUME Len(list) = 1 PROVE before = <<>> /\ after = <<>>
  <2>1. i - 1 < 1 /\ Len(list) < i + 1 /\ i - 1 \in Int /\ i + 1 \in Int /\ Len(list) \in Int
      BY <1>1, <1>5
  <2> QED BY <2>1, SubSeqEmpty
<1> HIDE DEF before, after
<1>6. before \o after \in Seq(V)
    BY <1>2, <1>3, ConcatProperties
<1>7. ASSUME Len(list) = 1 PROVE before \o after = <<>>
    BY <1>2, <1>5, <1>7, ConcatEmptySeq
<1> QED BY <1>4, <1>6, <1>7

(* The next piece of a list: what is in the map after it has come.         *)
IsNext(piece, list, from, map) ==
    /\ from \in 0 .. Len(list) /\ from + Len(piece) <= Len(list)
    /\ \A k \in 1 .. Len(piece) : piece[k] = list[from + k]
    /\ \A b \in Book : map[b] # NoIndex <=> Contains(SubSeq(list, 1, from), b)

LEMMA PrefixHas ==
    ASSUME NEW list \in Listing, NEW n \in 0 .. Len(list), NEW b
    PROVE  Contains(SubSeq(list, 1, n), b) <=> \E k \in 1 .. n : list[k] = b
BY PrefixIs DEF Contains

LEMMA NextMapIs ==
    ASSUME NEW list \in Listing, NEW piece \in Listing, NEW from \in Nat,
           NEW map \in [Book -> 0 .. NoIndex], IsNext(piece, list, from, map)
    PROVE  LET N == from + Len(piece)
           IN  /\ N \in 0 .. Len(list)
               /\ \A b \in Book :
                     Index(piece, map)[b] # NoIndex <=> Contains(SubSeq(list, 1, N), b)
               /\ Cardinality(Ordered(Index(piece, map))) = N
<1> DEFINE n == Len(piece)
           N == from + n
           first == SubSeq(list, 1, N)
           new == Index(piece, map)
<1>1. n \in Nat /\ Len(list) \in Nat /\ N \in 0 .. Len(list) /\ NoIndex \in Nat
    BY ListIs, NoIndexIs DEF IsNext
<1>2. \A k \in 1 .. n : piece[k] = list[from + k] /\ from + k \in 1 .. N
    BY <1>1 DEF IsNext
<1>3. \A k \in 1 .. N : k \in 1 .. from \/ \E j \in 1 .. n : k = from + j
  <2> SUFFICES ASSUME NEW k \in 1 .. N, k \notin 1 .. from
               PROVE  \E j \in 1 .. n : k = from + j
      OBVIOUS
  <2>1. k - from \in 1 .. n /\ k = from + (k - from)
      BY <1>1
  <2> QED BY <2>1
<1>4. \A b \in Book : map[b] # NoIndex <=> \E k \in 1 .. from : list[k] = b
    BY PrefixHas DEF IsNext
<1>5. /\ \A k \in 1 .. n : new[piece[k]] # NoIndex
      /\ \A b \in Book : b \notin Among(piece) => new[b] = map[b]
  <2>1. \A k \in 1 .. n : new[piece[k]] = k - 1 /\ k - 1 < NoIndex
      BY IndexIs
  <2>2. \A k \in 1 .. n : new[piece[k]] # NoIndex
      BY <1>1, <2>1
  <2> QED BY <2>2, IndexIs
<1> HIDE DEF n, N, new
<1>6. ASSUME NEW b \in Book PROVE new[b] # NoIndex <=> \E k \in 1 .. N : list[k] = b
  <2>1. CASE b \in Among(piece)
    <3>1. PICK k \in 1 .. n : b = piece[k]
        BY <2>1 DEF Among, n
    <3> QED BY <1>2, <1>5, <3>1
  <2>2. CASE b \notin Among(piece)
    <3>1. new[b] # NoIndex <=> \E k \in 1 .. from : list[k] = b
        BY <1>4, <1>5, <2>2
    <3>2. \A j \in 1 .. n : list[from + j] # b
        BY <1>2, <2>2 DEF Among, n
    <3>3. \A k \in 1 .. from : k \in 1 .. N
        BY <1>1 DEF N
    <3> QED BY <1>3, <3>1, <3>2, <3>3
  <2> QED BY <2>1, <2>2
<1>7. \A b \in Book : new[b] # NoIndex <=> Contains(first, b)
    BY <1>1, <1>6, PrefixHas
<1>8. Ordered(new) = Among(first)
  <2>1. \A b : Contains(first, b) <=> b \in Among(first)
      BY DEF Contains, Among
  <2>2. Among(first) \subseteq Book
    <3>1. first \in Listing
        BY <1>1, PrefixIs
    <3>2. \A i \in 1 .. Len(first) : first[i] \in Book
        BY <3>1, ListIs
    <3> QED BY <3>2 DEF Among
  <2> QED BY <1>7, <2>1, <2>2 DEF Ordered
<1>9. Cardinality(Ordered(new)) = N
    BY <1>1, <1>8, PrefixIs, ListIsAsLong
<1> QED BY <1>1, <1>7, <1>9 DEF N, n, new

(* The same for what is on the screen: after a new choice the books of the *)
(* piece in its order, and otherwise those that were there before it.      *)
LEMMA FirstPieceIsShown ==
    ASSUME displayed \in Seq(Item), Distinct(displayed),
           NEW list \in Listing, NEW map \in [Book -> 0 .. NoIndex],
           \A i \in 1 .. Len(list) : map[list[i]] = i - 1,
           \A b \in Book : map[b] # NoIndex => b \in Among(list)
    PROVE  Arranged(Display(list, map, TRUE), list)
<1> DEFINE inMap == {item \in Range(displayed) : map[item.book] # NoIndex}
<1>1. PICK kept \in Seq(Item), new \in Listing :
          Displays(Display(list, map, TRUE), kept, new, list, map, TRUE)
    BY DisplayIs
<1> DEFINE all == Display(list, map, TRUE)
           m == Len(kept)
           n == Len(new)
           others == Book \ {kept[i].book : i \in DOMAIN kept}
<1>2. /\ all \in Seq(Item) /\ Len(all) = m + n /\ Distinct(all)
      /\ \A i \in 1 .. m : all[i].book = kept[i].book /\ all[i].weight = map[kept[i].book]
      /\ \A i \in 1 .. n : all[m + i].book = new[i] /\ all[m + i].weight = map[new[i]]
    BY <1>1 DEF Displays
<1>3. PICK at : Picks(kept, at, displayed, inMap, Len(displayed))
    BY <1>1 DEF Displays
<1>4. PICK to : Picks(new, to, list, others, Len(list))
    BY <1>1 DEF Displays
<1> HIDE DEF all, inMap
<1>5. m \in Nat /\ n \in Nat /\ DOMAIN kept = 1 .. m /\ \A i \in 1 .. m : kept[i].book \in Book
  <2>1. m \in Nat /\ DOMAIN kept = 1 .. m /\ \A i \in 1 .. m : kept[i] \in Item
      BY LenProperties, ElementOfSeq
  <2> QED BY <2>1, ListIs DEF Item
<1>6. \A i \in 1 .. m : kept[i].book \in Among(list)
  <2>1. \A i \in 1 .. m : map[kept[i].book] # NoIndex
      BY <1>3 DEF Picks, inMap
  <2> QED BY <1>5, <2>1
<1>7. \A i \in 1 .. n : new[i] \in Among(list)
    BY <1>4 DEF Picks, Among
<1>8. \A i \in 1 .. m + n : i \in 1 .. m \/ \E k \in 1 .. n : i = m + k
  <2> SUFFICES ASSUME NEW i \in 1 .. m + n, i \notin 1 .. m PROVE \E k \in 1 .. n : i = m + k
      OBVIOUS
  <2>1. i - m \in 1 .. n /\ i = m + (i - m)
      BY <1>5
  <2> QED BY <2>1
<1>9. \A i \in 1 .. m + n : all[i].weight = map[all[i].book] /\ all[i].book \in Among(list)
  <2> SUFFICES ASSUME NEW i \in 1 .. m + n
               PROVE  all[i].weight = map[all[i].book] /\ all[i].book \in Among(list)
      OBVIOUS
  <2>1. CASE i \in 1 .. m
      BY <1>2, <1>6, <2>1
  <2>2. CASE \E k \in 1 .. n : i = m + k
    <3>1. PICK k \in 1 .. n : i = m + k
        BY <2>2
    <3> QED BY <1>2, <1>7, <3>1
  <2> QED BY <1>8, <2>1, <2>2
<1>10. ASSUME NEW k \in 1 .. Len(list) PROVE \E i \in 1 .. m + n : all[i].book = list[k]
  <2>1. \A i \in 1 .. m : i \in 1 .. m + n
      BY <1>5
  <2>2. \A i \in 1 .. n : m + i \in 1 .. m + n
      BY <1>5
  <2>3. CASE list[k] \in others
    <3>1. PICK i \in 1 .. n : to[i] = k
        BY <1>4, <2>3 DEF Picks
    <3>2. new[i] = list[k]
        BY <1>4, <3>1 DEF Picks
    <3> QED BY <1>2, <2>2, <3>2
  <2>4. CASE list[k] \notin others
    <3>1. list[k] \in Book
        BY ListIs
    <3>2. PICK i \in 1 .. m : kept[i].book = list[k]
        BY <1>5, <2>4, <3>1
    <3> QED BY <1>2, <2>1, <3>2
  <2> QED BY <2>3, <2>4
<1>11. /\ \A i \in 1 .. Len(all) : all[i].weight = map[all[i].book] /\ all[i].book \in Among(list)
       /\ \A k \in 1 .. Len(list) : \E i \in 1 .. Len(all) : all[i].book = list[k]
    BY <1>2, <1>9, <1>10
<1>12. all \in Seq(Item) /\ Distinct(all)
    BY <1>2
<1>13. Arranged(all, list)
    BY <1>11, <1>12, SortedIsArranged
<1> QED BY <1>13 DEF all

LEMMA MorePiecesAreShown ==
    ASSUME displayed \in Seq(Item), Distinct(displayed),
           NEW list \in Listing, NEW piece \in Listing, NEW from \in Nat,
           NEW map \in [Book -> 0 .. NoIndex], IsNext(piece, list, from, map),
           Arranged(displayed, SubSeq(list, 1, from))
    PROVE  Arranged(Display(piece, Index(piece, map), FALSE), SubSeq(list, 1, from + Len(piece)))
<1> DEFINE p == Len(piece)
           N == from + p
           first == SubSeq(list, 1, from)
           longer == SubSeq(list, 1, N)
           to == Index(piece, map)
           all == Display(piece, to, FALSE)
           inMap == {item \in Range(displayed) : to[item.book] # NoIndex}
<1>1. /\ p \in Nat /\ Len(list) \in Nat /\ from \in 0 .. Len(list) /\ N \in 0 .. Len(list)
      /\ \A k \in 1 .. p : piece[k] = list[from + k]
    BY ListIs DEF IsNext
<1>2. /\ first \in Listing /\ Len(first) = from
      /\ longer \in Listing /\ Len(longer) = N
      /\ \A i \in 1 .. from : first[i] = list[i]
      /\ \A i \in 1 .. N : longer[i] = list[i]
    BY <1>1, PrefixIs
<1>3. Len(displayed) = from /\ \A i \in 1 .. from : \E k \in 1 .. from : displayed[i].book = list[k]
  <2>1. Arranged(displayed, first)
      OBVIOUS
  <2> HIDE DEF first
  <2>2. /\ Len(displayed) = Len(first)
        /\ \A i \in 1 .. Len(displayed) : \E k \in 1 .. Len(first) : displayed[i].book = first[k]
      BY ONLY <2>1, ArrangedIs
  <2> QED BY <1>2, <2>2
<1>4. to \in [Book -> 0 .. NoIndex] /\ \A k \in 1 .. N : to[list[k]] # NoIndex
  <2>1. \A b \in Book : to[b] # NoIndex <=> Contains(longer, b)
      BY NextMapIs
  <2>2. \A k \in 1 .. N : list[k] \in Book /\ Contains(longer, list[k])
    <3>1. \A k \in 1 .. N : k \in 1 .. Len(list)
        BY <1>1
    <3> QED BY <1>2, <3>1, ListIs DEF Contains
  <2> QED BY <2>1, <2>2, IndexIs
<1> HIDE DEF to
<1>5. PICK kept \in Seq(Item), new \in Listing : Displays(all, kept, new, piece, to, FALSE)
    BY <1>4, DisplayIs
<1> DEFINE m == Len(kept)
           n == Len(new)
           others == Book \ {kept[i].book : i \in DOMAIN kept}
<1>6. /\ all \in Seq(Item) /\ Len(all) = m + n
      /\ \A i \in 1 .. m : all[i].book = kept[i].book /\ all[i].weight = kept[i].weight
      /\ \A i \in 1 .. n : all[m + i].book = new[i] /\ all[m + i].weight = NoIndex
    BY <1>5 DEF Displays
<1>7. PICK at : Picks(kept, at, displayed, inMap, Len(displayed))
    BY <1>5 DEF Displays
<1>8. PICK where : Picks(new, where, piece, others, Len(piece))
    BY <1>5 DEF Displays
<1> HIDE DEF all, inMap, others
<1>9. \A i \in 1 .. Len(displayed) : displayed[i] \in inMap
  <2> SUFFICES ASSUME NEW i \in 1 .. Len(displayed) PROVE displayed[i] \in inMap
      OBVIOUS
  <2>1. PICK k \in 1 .. from : displayed[i].book = list[k]
      BY <1>3
  <2>2. to[displayed[i].book] # NoIndex
      BY <1>1, <1>4, <2>1
  <2>3. displayed[i] \in Range(displayed)
      BY LenProperties DEF Range
  <2> QED BY <2>2, <2>3 DEF inMap
<1>10. m = from /\ \A i \in 1 .. from : kept[i] = displayed[i]
  <2>1. Len(kept) = Len(displayed) /\ \A i \in 1 .. Len(displayed) : kept[i] = displayed[i]
      BY <1>7, <1>9, EverythingPicked
  <2> QED BY <1>3, <2>1
<1>11. \A k \in 1 .. p : piece[k] \in others
  <2> SUFFICES ASSUME NEW k \in 1 .. p, NEW i \in 1 .. from, piece[k] = kept[i].book PROVE FALSE
    <3>1. DOMAIN kept = 1 .. m /\ \A j \in 1 .. p : piece[j] \in Book
        BY LenProperties, ListIs
    <3> QED BY <1>10, <3>1 DEF others
  <2>1. PICK j \in 1 .. from : displayed[i].book = list[j]
      BY <1>3
  <2>2. list[from + k] = list[j]
      BY <1>1, <1>10, <2>1
  <2>3. from + k \in 1 .. Len(list) /\ j \in 1 .. Len(list)
      BY <1>1
  <2>4. from + k = j
      BY <2>2, <2>3, ListIs
  <2> QED BY <1>1, <2>4
<1>12. n = p /\ \A i \in 1 .. p : new[i] = piece[i]
  <2>1. piece \in Seq(Book) /\ new \in Seq(Book)
      BY DEF Listing
  <2> QED BY <1>8, <1>11, <2>1, EverythingPicked
<1>13. \A i \in from + 1 .. N : all[i].book = longer[i] /\ all[i].weight = NoIndex
  <2> SUFFICES ASSUME NEW i \in from + 1 .. N
               PROVE  all[i].book = longer[i] /\ all[i].weight = NoIndex
      OBVIOUS
  <2>1. i - from \in 1 .. p /\ from + (i - from) = i /\ i \in 1 .. N
      BY <1>1
  <2>2. all[from + (i - from)].book = piece[i - from] /\ all[from + (i - from)].weight = NoIndex
      BY <1>6, <1>10, <1>12, <2>1
  <2>3. piece[i - from] = list[from + (i - from)]
      BY <1>1, <2>1
  <2> QED BY <1>2, <2>1, <2>2, <2>3
<1>14. \A i \in 1 .. from : all[i].book = displayed[i].book /\ all[i].weight = displayed[i].weight
    BY <1>6, <1>10
<1>15. \A i \in 1 .. from : longer[i] = first[i]
    BY <1>1, <1>2
<1>16. /\ first \in Seq(Book) /\ longer \in Seq(Book) /\ all \in Seq(Item)
       /\ Len(all) = Len(longer) /\ Len(first) <= Len(longer) /\ Len(longer) = N /\ Len(first) = from
  <2>1. first \in Seq(Book) /\ longer \in Seq(Book)
      BY <1>2 DEF Listing
  <2>2. Len(all) = N
      BY <1>6, <1>10, <1>12
  <2>3. from <= N
      BY <1>1
  <2> QED BY <1>2, <1>6, <2>1, <2>2, <2>3
<1> HIDE DEF first, longer, N
<1>17. Arranged(displayed, first)
    BY DEF first
<1>18. Arranged(all, longer)
    BY <1>13, <1>14, <1>15, <1>16, <1>17, PieceIsArranged
<1> QED BY <1>18 DEF all, longer, to, N

(* A request that fails, or a scroll that comes too early, is a disturbance. *)
LEMMA FailuresKeep ==
    ASSUME PageInv, ScrollTooEarly \/ \E i \in DOMAIN inflight : FetchFails(i)
    PROVE  PageInv'
<1>1. CASE ScrollTooEarly
    BY <1>1 DEF ScrollTooEarly, screen, PageInv, TypeOK, NoBookTwice, AtFirst, NothingShown
<1>2. ASSUME NEW i \in DOMAIN inflight, FetchFails(i) PROVE PageInv'
  <2>1. /\ inflight' = RemoveAt(inflight, i) /\ undisturbed' = FALSE
        /\ UNCHANGED <<phase, filter, start, count, order, isFetching, noResultInjected,
                       viewPort, displayed, messages, timers>>
      BY <1>2 DEF FetchFails, listVars, screen
  <2>2. inflight \in Seq(Request) /\ inflight' \in Seq(Request)
      BY <2>1, RemoveAtIs DEF PageInv, TypeOK
  <2>3. phase # "loading"
    <3>1. inflight # <<>>
        BY <2>2, LenProperties, EmptySeq
    <3> QED BY <3>1 DEF PageInv, AtFirst
  <2>4. TypeOK' /\ NoBookTwice' /\ AtFirst' /\ NothingShown'
      BY <2>1, <2>2, <2>3 DEF PageInv, TypeOK, NoBookTwice, AtFirst, NothingShown
  <2> QED BY <2>1, <2>4 DEF PageInv
<1> QED BY <1>1, <1>2

(* An answer, to whatever request it is.                                   *)
LEMMA AnswersKeep ==
    ASSUME PageInv, NEW i \in DOMAIN inflight, LoadBooks(i)
    PROVE  PageInv'
<1> DEFINE request == inflight[i]
           piece == Books(request)
           map == Index(piece, order)
           display == Display(piece, map, request.sort)
<1>1. /\ inflight \in Seq(Request) /\ displayed \in Seq(Item) /\ start \in Nat /\ filter \in Filter
      /\ order \in [Book -> 0 .. NoIndex] /\ timers \in Nat /\ viewPort \in ViewPort
      /\ count \in ViewPort \cup {0} /\ isFetching \in BOOLEAN /\ noResultInjected \in BOOLEAN
      /\ undisturbed \in BOOLEAN /\ phase \in {"loading", "opening", "opened", "ready"}
      /\ NoBookTwice
    BY DEF PageInv, TypeOK
<1>2. inflight' \in Seq(Request) /\ request \in Request
  <2>1. i \in 1 .. Len(inflight)
      BY <1>1, LenProperties
  <2> QED BY <1>1, <2>1, RemoveAtIs, ElementOfSeq DEF LoadBooks
<1>3. phase # "loading" /\ Waiting
  <2>1. inflight # <<>>
      BY <1>1, LenProperties, EmptySeq
  <2> QED BY <2>1 DEF PageInv, AtFirst, Waiting
<1>4. piece \in Listing /\ Len(piece) \in Nat /\ map \in [Book -> 0 .. NoIndex]
      /\ request.sort \in BOOLEAN
  <2>1. piece \in Listing
      BY <1>2, PieceIs
  <2>2. request.sort \in BOOLEAN
      BY <1>2 DEF Request
  <2> HIDE DEF piece
  <2> QED BY <1>1, <2>1, <2>2, ListIs, IndexIs
<1>5. Distinct(displayed)
    BY <1>1, NoBookTwiceIs DEF NoBookTwice
<1> HIDE DEF piece, map
<1>6. display \in Seq(Item) /\ Distinct(display)
  <2>1. \E kept \in Seq(Item), new \in Listing :
            Displays(display, kept, new, piece, map, request.sort)
      BY <1>1, <1>4, <1>5, DisplayIs
  <2> QED BY <2>1 DEF Displays
<1> HIDE DEF display
<1> DEFINE Nothing == /\ Ordered(map) = {} /\ noResultInjected' = TRUE /\ displayed' = <<>>
                      /\ isFetching' = FALSE /\ undisturbed' = undisturbed /\ timers' \in Nat
           Failing == /\ noResultInjected' = FALSE /\ undisturbed' = FALSE
                      /\ UNCHANGED <<displayed, timers, isFetching>>
           Showing == /\ noResultInjected' = FALSE /\ displayed' = display
                      /\ isFetching' = FALSE /\ undisturbed' = undisturbed /\ timers' = timers
<1>7. /\ order' = map /\ start' = start + Len(piece) /\ UNCHANGED <<filter, viewPort>>
      /\ inflight' = RemoveAt(inflight, i)
      /\ count' = IF Len(Matching[request.filter]) = Cardinality(Ordered(map)) THEN 0 ELSE count
    BY DEF LoadBooks, piece, map
<1>8. phase' \in {"opening", "opened", "ready"}
    BY <1>1, <1>3 DEF LoadBooks, Event
<1>9. Nothing \/ Failing \/ Showing
  <2>1. ShowNoResult(map) => Nothing
    <3>1. noResultInjected => displayed = <<>>
        BY DEF PageInv, NothingShown
    <3> QED BY <1>1, <3>1 DEF ShowNoResult
  <2>2. ShowFails(map) => Failing
      BY DEF ShowFails
  <2>3. ShowBooks(map, piece, request.sort) => Showing
      BY DEF ShowBooks, display
  <2>4. ShowNoResult(map) \/ ShowFails(map) \/ ShowBooks(map, piece, request.sort)
      BY DEF LoadBooks, piece, map
  <2> QED BY <2>1, <2>2, <2>3, <2>4
<1> HIDE DEF request
<1>10. /\ displayed' \in Seq(Item) /\ Distinct(displayed') /\ timers' \in Nat
       /\ undisturbed' \in BOOLEAN /\ isFetching' \in BOOLEAN /\ noResultInjected' \in BOOLEAN
       /\ noResultInjected' => displayed' = <<>>
       /\ undisturbed' => undisturbed
  <2>1. <<>> \in Seq(Item)
      BY EmptySeq
  <2>2. CASE Nothing
      BY <1>1, <2>1, <2>2, NothingTwice
  <2>3. CASE Failing
      BY <1>1, <1>5, <2>3
  <2>4. CASE Showing
      BY <1>1, <1>6, <2>4
  <2> QED BY <1>9, <2>2, <2>3, <2>4
<1>11. TypeOK' /\ NoBookTwice' /\ AtFirst' /\ NothingShown'
  <2>1. start' \in Nat /\ count' \in ViewPort \cup {0}
      BY <1>1, <1>4, <1>7
  <2>2. TypeOK'
      BY <1>1, <1>2, <1>4, <1>7, <1>8, <1>10, <2>1 DEF TypeOK
  <2>3. NoBookTwice'
      BY <1>10, NoBookTwiceIs DEF NoBookTwice
  <2> QED BY <1>8, <1>10, <2>2, <2>3 DEF AtFirst, NothingShown
<1>12. ASSUME undisturbed' PROVE Calm'
  <2> DEFINE list == Matching[filter]
             N == start + Len(piece)
  <2>1. /\ undisturbed /\ Calm
      BY <1>10, <1>12 DEF PageInv
  <2>2. Nothing \/ Showing
      BY <1>9, <1>12
  <2>3. /\ inflight = <<inflight[1]>> /\ inflight[1].filter = filter /\ inflight[1].start = start
        /\ inflight[1].sort => start = 0
        /\ count # 0
      BY <1>3, <2>1 DEF Calm, OnlyRequest
  <2>4. i = 1 /\ inflight' = <<>>
    <3>1. Len(inflight) = 1
        BY <2>3
    <3>2. DOMAIN inflight = 1 .. 1
        BY <1>1, <3>1, LenProperties
    <3> QED BY <1>1, <1>7, <3>1, <3>2, RemoveAtIs
  <2>5. request.filter = filter /\ request.start = start /\ (request.sort => start = 0)
      BY <2>3, <2>4 DEF request
  <2>6. list \in Listing /\ Len(list) \in Nat
      BY <1>1, MatchingIs, ListIs
  <2>7. IsNext(piece, list, start, order)
    <3>1. /\ Len(piece) = IF start >= Len(list) THEN 0
                          ELSE IF start + request.count < Len(list) THEN request.count
                          ELSE Len(list) - start
          /\ \A k \in 1 .. Len(piece) : piece[k] = list[start + k]
        BY <1>2, <2>5, PieceIs DEF piece
    <3>2. request.count \in Nat
        BY <1>2, PageAssumption DEF Request
    <3>3. start \in 0 .. Len(list)
          /\ \A b \in Book : order[b] # NoIndex <=> Contains(SubSeq(list, 1, start), b)
        BY <2>1 DEF Calm, First
    <3>4. start + Len(piece) <= Len(list)
        BY <1>1, <2>6, <3>1, <3>2, <3>3
    <3> QED BY <3>1, <3>3, <3>4 DEF IsNext
  <2>8. /\ N \in 0 .. Len(list)
        /\ \A b \in Book : map[b] # NoIndex <=> Contains(SubSeq(list, 1, N), b)
        /\ Cardinality(Ordered(map)) = N
    BY <1>1, <1>4, <2>6, <2>7, NextMapIs DEF map
  <2>9. ~Waiting' /\ ~isFetching'
      BY <2>2, <2>4 DEF Waiting
  <2>10. (count = 0)' <=> N = Len(list)
      BY <1>7, <2>3, <2>5, <2>8
  <2> HIDE DEF list, N
  <2>11. Arranged(displayed', SubSeq(list, 1, N))
    <3>1. CASE Nothing
      <4>1. N = 0
          BY <2>8, <3>1, FS_EmptySet
      <4> QED BY <1>1, <3>1, <4>1, EmptyPrefix, NothingArranged DEF list
    <3>2. CASE Showing /\ request.sort
      <4>1. start = 0 /\ N = Len(piece)
          BY <1>4, <2>5, <3>2 DEF N
      <4>2. \A b \in Book : order[b] = NoIndex
        <5>1. SubSeq(list, 1, start) = <<>>
            BY <1>1, <4>1, EmptyPrefix DEF list
        <5> QED BY <2>7, <5>1, EmptyHasNothing DEF IsNext
      <4>3. \A k \in 1 .. Len(piece) : map[piece[k]] = k - 1
          BY <1>1, <1>4, IndexIs DEF map
      <4>4. \A b \in Book : map[b] # NoIndex => b \in Among(piece)
          BY <1>1, <1>4, <4>2, IndexIs DEF map
      <4>5. Arranged(Display(piece, map, TRUE), piece)
          BY <1>1, <1>4, <1>5, <4>3, <4>4, FirstPieceIsShown
      <4>6. SubSeq(list, 1, N) = piece
        <5>1. /\ SubSeq(list, 1, N) \in Seq(Book) /\ Len(SubSeq(list, 1, N)) = N
              /\ \A k \in 1 .. N : SubSeq(list, 1, N)[k] = list[k]
            BY <2>6, <2>8, PrefixIs DEF Listing, N, list
        <5>2. \A k \in 1 .. Len(piece) : piece[k] = list[k]
            BY <1>4, <2>7, <4>1 DEF IsNext
        <5>3. piece \in Seq(Book)
            BY <1>4 DEF Listing
        <5> QED BY <4>1, <5>1, <5>2, <5>3, SeqEqual
      <4>7. display = Display(piece, map, TRUE)
          BY <1>4, <3>2 DEF display
      <4> QED BY <3>2, <4>5, <4>6, <4>7
    <3>3. CASE Showing /\ ~request.sort
      <4>1. Arranged(displayed, SubSeq(list, 1, start))
          BY <2>1, <2>4, <3>3 DEF Calm, First, list, request
      <4>2. Arranged(Display(piece, Index(piece, order), FALSE),
                     SubSeq(list, 1, start + Len(piece)))
          BY <1>1, <1>4, <1>5, <2>6, <2>7, <4>1, MorePiecesAreShown DEF list
      <4>3. display = Display(piece, Index(piece, order), FALSE)
          BY <1>4, <3>3 DEF display, map
      <4> QED BY <3>3, <4>2, <4>3 DEF N
    <3> QED BY <2>2, <3>1, <3>2, <3>3
  <2>12. /\ First(start)' = SubSeq(list, 1, N) /\ start' = N /\ order' = map
         /\ Matching[filter]' = list
      BY <1>7 DEF First, list, N
  <2>13. /\ start' \in 0 .. Len(Matching[filter'])
         /\ \A b \in Book : order'[b] # NoIndex <=> Contains(First(start)', b)
         /\ (count = 0)' <=> (start = Len(Matching[filter]))'
         /\ Arranged(displayed', First(start)')
      BY <2>8, <2>10, <2>11, <2>12 DEF list, N
  <2> QED BY <2>9, <2>13 DEF Calm
<1> QED BY <1>11, <1>12 DEF PageInv

(* Every step.                                                             *)
LEMMA StepsKeep == PageInv /\ [Next]_vars => PageInv'
<1> SUFFICES ASSUME PageInv, [Next]_vars PROVE PageInv'
    OBVIOUS
<1>1. /\ phase \in {"loading", "opening", "opened", "ready"} /\ viewPort \in ViewPort
      /\ count \in ViewPort \cup {0} /\ timers \in Nat /\ 0 \notin ViewPort
      /\ phase = "loading" => count # 0
      /\ filter \in Filter /\ start \in Nat
    BY PageAssumption DEF PageInv, TypeOK, AtFirst
<1>2. ASSUME NEW n \in ViewPort, NEW first \in BOOLEAN
      PROVE  /\ NextPiece(n, first) \in Request
             /\ NextPiece(n, first).filter = filter /\ NextPiece(n, first).start = start
             /\ ~NextPiece(n, first).sort
    BY <1>1 DEF NextPiece, Request
<1>3. CASE ScrollTooEarly
    BY <1>3, FailuresKeep
<1>4. CASE LoadSubset
  <2>1. /\ LoadAndDisplayBooks(NextPiece(count, FALSE)) /\ count # 0
        /\ UNCHANGED <<phase, filter, start, count, order, noResultInjected, viewPort,
                       displayed, timers, undisturbed>>
        /\ phase \in {"opening", "opened", "ready"}
      BY <1>1, <1>4 DEF LoadSubset, screen
  <2>2. count \in ViewPort
      BY <1>1, <2>1
  <2> QED BY <1>2, <2>1, <2>2, LoadKeeps
<1>5. CASE ResizeTimer
  <2>1. /\ UNCHANGED <<phase, filter, start, order, noResultInjected, viewPort,
                       displayed, timers, undisturbed>>
        /\ count' = IF count = 0 THEN 0 ELSE viewPort
        /\ \/ UNCHANGED <<isFetching, inflight>>
           \/ phase # "loading" /\ count # 0 /\ LoadAndDisplayBooks(NextPiece(viewPort, FALSE))
      BY <1>5 DEF ResizeTimer, screen
  <2>2. CASE UNCHANGED <<isFetching, inflight>>
      BY <1>1, <2>1, <2>2, OtherStepsKeep
  <2>3. CASE phase # "loading" /\ count # 0 /\ LoadAndDisplayBooks(NextPiece(viewPort, FALSE))
    <3>1. count' = viewPort /\ phase' \in {"opening", "opened", "ready"}
        BY <1>1, <2>1, <2>3
    <3> QED BY <1>1, <1>2, <2>1, <2>3, <3>1, LoadKeeps
  <2> QED BY <2>1, <2>2, <2>3
<1>6. ASSUME NEW n \in ViewPort, Resize(n) PROVE PageInv'
    BY <1>1, <1>6, OtherStepsKeep DEF Resize, listVars, screen
<1>7. ASSUME NEW f \in Filter, ChooseFilter(f) PROVE PageInv'
    BY <1>7, ResetKeeps DEF ChooseFilter
<1>8. CASE WindowOnload
  <2>1. /\ LoadAndDisplayBooks(NextPiece(count, TRUE)) /\ count # 0 /\ phase' \in {"opening", "opened", "ready"}
        /\ UNCHANGED <<filter, start, count, order, noResultInjected, viewPort,
                       displayed, timers, undisturbed>>
      BY <1>1, <1>8 DEF WindowOnload, screen
  <2>2. count \in ViewPort
      BY <1>1, <2>1
  <2> QED BY <1>2, <2>1, <2>2, LoadKeeps
<1>9. CASE OnloadGoesOn
  <2>1. CASE Reset(LangFilter)
      BY <1>9, <2>1, ResetKeeps, PageAssumption DEF OnloadGoesOn
  <2>2. CASE UNCHANGED <<filter, start, count, order, isFetching, noResultInjected,
                         viewPort, inflight, screen, undisturbed>>
      BY <1>1, <1>9, <2>2, OtherStepsKeep DEF OnloadGoesOn, screen
  <2> QED BY <1>9, <2>1, <2>2 DEF OnloadGoesOn
<1>10. ASSUME NEW i \in DOMAIN inflight, LoadBooks(i) PROVE PageInv'
    BY <1>10, AnswersKeep
<1>11. ASSUME NEW i \in DOMAIN inflight, FetchFails(i) PROVE PageInv'
    BY <1>11, FailuresKeep
<1>12. CASE MessageTimer
    BY <1>1, <1>12, OtherStepsKeep DEF MessageTimer, listVars
<1>13. CASE UNCHANGED vars
    BY <1>1, <1>13, OtherStepsKeep DEF vars, listVars, screen
<1> QED BY <1>3, <1>4, <1>5, <1>6, <1>7, <1>8, <1>9, <1>10, <1>11, <1>12, <1>13
        DEF Next, Progress

(* What the page knows about itself stays true, whatever comes when.       *)
THEOREM PageInvariant == Spec => []PageInv
<1>1. Init => PageInv
    BY StartIsRight
<1>2. PageInv /\ [Next]_vars => PageInv'
    BY StepsKeep
<1> QED BY <1>1, <1>2, PTL DEF Spec

(* loadAndDisplayBooks and resetAndFilter of index.js: no book is ever     *)
(* shown twice, and a page that has come to rest after a choice shows the  *)
(* first books of it in the server's order, and asks for more just when    *)
(* there are more.                                                         *)
THEOREM PageCorrect == Spec => []PageIsRight
BY PageInvariant, InvIsRight, PTL
================================================================================
