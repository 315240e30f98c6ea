--------------------------- MODULE MCLibraryServer ---------------------------
(* Values for model checking LibraryServer and SearchPages.  The situations *)
(* of the run: two threads on a library that the application leaves alone; *)
(* one thread beside an application that adds, updates and removes the     *)
(* book i2 (all of the three parties at once give too many states for      *)
(* liveness); and a library that nobody uses but a reader who turns the    *)
(* pages of a search, or a program with a Searcher.                        *)
EXTENDS LibraryServer, SearchPages, TLC

CONSTANTS i1, i2, i3, p1, p2, m1, m2, q1, w1, wiki, wiki_2020

MCIdOrder == <<i1, i2, i3>>

(* Two editions of one book: the older one has a date, and the name of the *)
(* newer one as its alias.                                                 *)
MCHumanReadable == p1 :> wiki @@ p2 :> wiki_2020
MCAlias == wiki_2020 :> wiki @@ wiki :> wiki

MCMatches == q1 :> {m1}
MCHasUrl == {}
MCSize == m1 :> 1 @@ m2 :> 2

ABook(path, valid, meta) ==
    [path |-> path, pathValid |-> valid, meta |-> meta, readOnly |-> FALSE]

MCAppBooks == {ABook(p2, TRUE, m1), ABook(NoPath, FALSE, m2)}

(* i1 is local and valid, or lost; i3 is local, remote or not there.       *)
LeftAlone ==
    {i1 :> b1 @@ i2 :> NoBook @@ i3 :> b3 :
        b1 \in {ABook(p1, TRUE, m1), ABook(p1, FALSE, m1)},
        b3 \in {NoBook, ABook(p2, TRUE, m2), ABook(NoPath, FALSE, m1)}}

Changed ==
    {i1 :> ABook(p1, TRUE, m1) @@ i2 :> ABook(p2, TRUE, m1) @@ i3 :> ABook(p1, TRUE, m1)}

(* The record of i3 tells the situations apart; nobody changes it.         *)
ApplicationIsBusy == books[i3] = ABook(p1, TRUE, m1)

Searched == i1 :> ABook(p1, TRUE, m1) @@ i2 :> ABook(p2, TRUE, m2) @@ i3 :> NoBook

MCServed == [id \in Id |-> {b[id] : b \in LeftAlone \cup Changed \cup {Searched}}]

MCInit == ServerInit /\ books \in LeftAlone \cup Changed \cup {Searched} /\ SearchInit

MCNext ==
    \/ /\ books # Searched
       /\ ServerNext
       /\ IF ApplicationIsBusy THEN \A w \in Worker \ {w1} : worker'[w] = worker[w]
                               ELSE app' = app
       /\ UNCHANGED searchVars
    \/ /\ books = Searched
       /\ \/ view = NoPage /\ Program
          \/ searcher = NewSearcher /\ Browse
       /\ UNCHANGED serverVars

MCSpec ==
    /\ MCInit
    /\ [][MCNext]_<<serverVars, searchVars>>
    /\ \A w \in Worker : WF_serverVars(Handle(w))

-----------------------------------------------------------------------------
(* A search with more pages than are linked, one that libzim announces too *)
(* much for, and one that finds nothing.                                   *)
CONSTANTS many, some, nothing, r1, r2, r3

Matched(n) == [i \in 1..n |-> [reader |-> IF i % 3 = 0 THEN r2 ELSE r1, entry |-> i]]
MCResult == Range(Matched(11))
MCRanked == many :> Matched(11) @@ some :> Matched(3) @@ nothing :> <<>>
MCEstimate == many :> 11 @@ some :> 4 @@ nothing :> 0
=============================================================================
