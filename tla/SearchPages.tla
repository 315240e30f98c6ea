----------------------------- MODULE SearchPages -----------------------------
(***************************************************************************)
(* The results of a full-text search, page by page: the class Searcher     *)
(* that a program uses (src/src/searcher.cpp), the pages that              *)
(* SearchRenderer makes (src/src/search_renderer.cpp) and the handler of   *)
(* the server that makes one for each request, for a reader who turns the  *)
(* pages by their links.                                                   *)
(*                                                                         *)
(* libzim is external: Ranked[p] is what it finds for a pattern in all     *)
(* archives, and the two numbers that it is given are the start and the    *)
(* end of the range, as searcher.h says.                                   *)
(***************************************************************************)
EXTENDS Naturals, SequencesExt, Sublists

CONSTANTS
    Reader,         \* the archives that a Searcher may be given
    Indexed,        \* those with a full-text index
    Result,         \* what can be found: a reader and an entry
    Pattern,        \* texts to search for (for a Searcher, places too)
    Ranked,         \* Ranked[p]: what is found, by relevance
    Estimate,       \* Estimate[p]: how many matches libzim announces
    Bound,          \* the bounds of results that programs ask for
    Offset,         \* the starts that requests ask for
    Length,         \* the page lengths that they ask for
    DefaultLength, MAX_SEARCH_LEN, SuggestionEnd,   \* 25, 140, 10
    NoResults, NotTurning

ASSUME PagesAssumption ==
    /\ Indexed \subseteq Reader
    /\ \A r \in Result : r.reader \in Indexed
    /\ Ranked \in [Pattern -> Seq(Result)]
    /\ Estimate \in [Pattern -> Nat]
    /\ Bound \cup Offset \cup Length \subseteq Nat
    /\ {DefaultLength, MAX_SEARCH_LEN, SuggestionEnd} \subseteq Nat \ {0}
    /\ DefaultLength <= MAX_SEARCH_LEN
    /\ NoResults \notin Pattern \cup Seq(Result)

VARIABLES
    searcher,   \* [readers, pattern, estimate, from, to, internal, next]
    given,      \* history: what getNextResult gave since the search, or restart
    asked,      \* history: the results that the last search was to give
    view,       \* the page that the reader sees, with its pattern
    turned      \* history: the results of all pages since the first one, or
                \* NotTurning if he came to the present page by another way

searchVars == <<searcher, given, asked, view, turned>>

Found(readers, p) == OnlyIn(Ranked[p], {r \in Result : r.reader \in readers})

(* What getResults gives for a range. *)
Slice(found, from, to) ==
    SubSeq(found, from + 1, IF to < Len(found) THEN to ELSE Len(found))

-----------------------------------------------------------------------------
(* The Searcher.                                                           *)

NewSearcher == [readers |-> {}, pattern |-> NoResults, estimate |-> 0,
                from |-> 0, to |-> 0, internal |-> NoResults, next |-> 1]

AddReader(r) ==
    /\ searcher' = IF r \in Indexed THEN [searcher EXCEPT !.readers = @ \cup {r}]
                                    ELSE searcher
    /\ UNCHANGED <<given, asked, view, turned>>

(* search and geo_search.  For an empty range nothing is searched, and the *)
(* results of the search before stay, with the new pattern and estimate 0. *)
Search(p, from, to) ==
    /\ LET results == Slice(Found(searcher.readers, p), from, to)
           bounds == [searcher EXCEPT !.pattern = p, !.from = from, !.to = to]
       IN IF from = to
          THEN /\ searcher' = [bounds EXCEPT !.estimate = 0]
               /\ UNCHANGED <<given, asked>>
          ELSE /\ searcher' = [bounds EXCEPT !.estimate = Estimate[p],
                                             !.internal = results, !.next = 1]
               /\ given' = <<>> /\ asked' = results
    /\ UNCHANGED <<view, turned>>

Suggestions(p) == Search(p, 0, SuggestionEnd)

RestartSearch ==
    /\ searcher' = IF searcher.internal = NoResults THEN searcher
                                                    ELSE [searcher EXCEPT !.next = 1]
    /\ given' = <<>>
    /\ UNCHANGED <<asked, view, turned>>

GetNextResult ==
    /\ searcher.internal # NoResults
    /\ searcher.next \in DOMAIN searcher.internal
    /\ given' = Append(given, searcher.internal[searcher.next])
    /\ searcher' = [searcher EXCEPT !.next = @ + 1]
    /\ UNCHANGED <<asked, view, turned>>

-----------------------------------------------------------------------------
(* The pages.                                                              *)

(* The numbered pages that SearchRenderer::getHtml links, around the       *)
(* current one: from pageStart to before pageEnd.                          *)
PageStart(start, length) ==
    IF start \div length > 4 THEN start \div length - 4 ELSE 0

(* Mutant: the last page is only linked when it is full.                   *)
PageEndRoundedDown(start, length, estimate) ==
    IF start \div length + 5 > estimate \div length THEN estimate \div length
    ELSE start \div length + 5

PageEnd(start, length, estimate) ==
    IF start \div length + 5 > estimate \div length
    THEN (estimate + length - 1) \div length
    ELSE start \div length + 5

LastPageStart(length, estimate) ==
    IF estimate > length THEN ((estimate - 1) \div length) * length ELSE 0

(* What the links of a page start with: the numbered ones, and the arrows  *)
(* to the first and the last page where hasPages is set.                   *)
Numbered(start, length, estimate) ==
    {i * length : i \in PageStart(start, length) .. PageEnd(start, length, estimate) - 1}

Arrows(start, length, estimate) ==
    IF PageStart(start, length) = PageEnd(start, length, estimate) THEN {}
    ELSE {0, LastPageStart(length, estimate)}

(* handle_search: the length of a page is limited, and 0 is the default    *)
(* like none at all.                                                       *)
PageLength(length) ==
    IF length = 0 THEN DefaultLength
    ELSE IF length > MAX_SEARCH_LEN THEN MAX_SEARCH_LEN ELSE length

Results(p, start, length) == Slice(Ranked[p], start, start + length)

Page(p, start, length) ==
    [pattern |-> p, start |-> start, length |-> length,
     results |-> Results(p, start, length),
     numbered |-> Numbered(start, length, Estimate[p]),
     arrows |-> Arrows(start, length, Estimate[p])]

NoPage == [pattern |-> NoResults, start |-> 0, length |-> 0, results |-> <<>>,
           numbered |-> {}, arrows |-> {}]

(* A request that the reader types. *)
HandleSearch(p, start, length) ==
    /\ view' = Page(p, start, PageLength(length))
    /\ turned' = IF start = 0 THEN view'.results ELSE NotTurning
    /\ UNCHANGED <<searcher, given, asked>>

(* A link of the page.  The one to the next page goes on with the turning. *)
Follow(start) ==
    /\ view.pattern \in Pattern
    /\ start \in view.numbered \cup view.arrows
    /\ view' = Page(view.pattern, start, PageLength(view.length))
    /\ turned' = CASE start = 0 -> view'.results
                   [] start = view.start + view.length /\ turned # NotTurning ->
                          turned \o view'.results
                   [] OTHER -> NotTurning
    /\ UNCHANGED <<searcher, given, asked>>

-----------------------------------------------------------------------------
SearchInit ==
    /\ searcher = NewSearcher
    /\ given = <<>> /\ asked = <<>>
    /\ view = NoPage /\ turned = NotTurning

Program ==
    \/ \E r \in Reader : AddReader(r)
    \/ \E p \in Pattern, from, to \in Bound : from <= to /\ Search(p, from, to)
    \/ \E p \in Pattern : Suggestions(p)
    \/ RestartSearch \/ GetNextResult

Browse ==
    \/ \E p \in Pattern, start \in Offset, length \in Length : HandleSearch(p, start, length)
    \/ \E start \in view.numbered \cup view.arrows : Follow(start)

SearchNext == Program \/ Browse

SearchSpec == SearchInit /\ [][SearchNext]_searchVars

-----------------------------------------------------------------------------
(* getNextResult gives every result of the range that was asked for, once  *)
(* and in order, from the search or the restart on; a search for an empty  *)
(* range in between changes nothing, and the results stay those of the     *)
(* search before.                                                          *)
SearcherGivesTheRange ==
    /\ given = SubSeq(asked, 1, Len(given))
    /\ searcher.internal # NoResults =>
           (searcher.next > Len(searcher.internal) <=> Len(given) = Len(asked))

(* Who turns the pages from the first one on sees every result once, and   *)
(* in order: the next page is a numbered one until he has seen all, unless *)
(* libzim has announced too few.  And if it has announced the right number *)
(* no link of a page of the server leads to one with nothing on it, in     *)
(* whatever way the reader came there and however long the pages are.      *)
PagesFitTogether ==
    view.pattern \in Pattern =>
        LET all == Ranked[view.pattern] IN
        /\ turned # NotTurning /\ Estimate[view.pattern] >= Len(all) =>
              /\ turned = SubSeq(all, 1, Len(turned))
              /\ view.start + view.length \in view.numbered \/ turned = all
        /\ Estimate[view.pattern] = Len(all) /\ all # <<>> =>
              \A start \in view.numbered \cup view.arrows : start < Len(all)

(* Every result comes once and in order, from a Searcher and from the      *)
(* pages of the server.                                                    *)
ResultsComeOnceInOrder == SearcherGivesTheRange /\ PagesFitTogether
==============================================================================
