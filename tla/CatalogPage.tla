------------------------------ MODULE CatalogPage ------------------------------
(***************************************************************************)
(* The page with the books of a server (src/static/skin/index.js): it      *)
(* fetches the catalog piece by piece while the user scrolls, starts again *)
(* when he chooses a filter, and shows the books with Isotope.  The page   *)
(* runs in one thread, but answers come whenever they come, also those to  *)
(* requests of a filter that the user has left.                            *)
(***************************************************************************)
EXTENDS FiniteSets, Integers, SequencesExt, Sublists

CONSTANTS
    Book,         \* the books of the server
    Filter,       \* what can be chosen: language, category, text
    Matching,     \* Matching[filter]: the server's answer, unlimited
    LangFilter,   \* the filter for the language of the browser
    ViewPort,     \* the numbers of books that may fit on the screen
    MaxResets     \* bound on the number of times a filter is chosen

ASSUME PageAssumption ==
    /\ IsFiniteSet(Book)
    /\ Matching \in [Filter -> Seq(Book)]
    /\ \A f \in Filter : IsInjective(Matching[f])
    /\ LangFilter \in Filter
    /\ ViewPort \subseteq Nat \ {0}
    /\ MaxResets \in Nat

VARIABLES
    phase,      \* "loading", "opening" (onload waits for the first books),
                \* "opened" (it goes on) or "ready"
    filter,     \* params
    start, count,      \* incrementalLoadingParams
    order,      \* bookOrderMap
    isFetching, noResultInjected,
    viewPort,   \* viewPortToCount()
    inflight,   \* the requests that are not answered yet
    displayed,  \* the items of Isotope, with their sort data
    messages,   \* the .noResults elements of the page
    timers,     \* the timers that will add one
    resets,     \* the number of times a filter was chosen
    undisturbed \* history: since the last filter was chosen, or the page was
                \* opened, with nothing going on, nothing unexpected happened

listVars == <<phase, filter, start, count, order, isFetching, noResultInjected>>
screen == <<displayed, messages, timers>>
vars == <<listVars, viewPort, inflight, screen, resets, undisturbed>>

NoIndex == Cardinality(Book)

Request == [filter : Filter, start : Nat, count : ViewPort,
            sort : BOOLEAN, initial : BOOLEAN]

Init ==
    /\ phase = "loading"
    /\ filter \in Filter
    /\ viewPort \in ViewPort
    /\ start = 0 /\ count = viewPort
    /\ order = [b \in Book |-> NoIndex]
    /\ isFetching = FALSE /\ noResultInjected = FALSE
    /\ inflight = <<>>
    /\ displayed = <<>> /\ messages = 0 /\ timers = 0
    /\ resets = 0
    /\ undisturbed = TRUE

Ordered(map) == {b \in Book : map[b] # NoIndex}

(* The promises that are settled go on before the next event. *)
Event == phase # "opened"

-----------------------------------------------------------------------------
(* Asking for books.                                                       *)

(* loadAndDisplayBooks, up to the fetch: nothing is done while a request   *)
(* is thought to be under way.                                             *)
LoadAndDisplayBooks(request) ==
    IF isFetching THEN UNCHANGED <<isFetching, inflight>>
    ELSE /\ isFetching' = TRUE
         /\ inflight' = Append(inflight, request)

NextPiece(n, first) == [filter |-> filter, start |-> start, count |-> n,
                        sort |-> FALSE, initial |-> first]

(* Before onload there is no loader to show, and the exception leaves      *)
(* isFetching as it is.                                                    *)
ScrollTooEarly ==
    /\ phase = "loading"
    /\ isFetching' = TRUE
    /\ undisturbed' = FALSE
    /\ UNCHANGED <<phase, filter, start, count, order, noResultInjected,
                   viewPort, inflight, screen, resets>>

(* loadSubset, at the end of the page. *)
LoadSubset ==
    /\ Event /\ phase # "loading"
    /\ count # 0
    /\ LoadAndDisplayBooks(NextPiece(count, FALSE))
    /\ UNCHANGED <<phase, filter, start, count, order, noResultInjected,
                   viewPort, screen, resets, undisturbed>>

(* The size changes, and 100 ms later the timer goes off, with the page at *)
(* its end or not.  A change to the same size can start the timer at any   *)
(* time, so that it may also go off at any time; what it does at the end   *)
(* of the page before onload is ScrollTooEarly.                            *)
Resize(n) ==
    /\ Event
    /\ viewPort' = n
    /\ UNCHANGED <<listVars, inflight, screen, resets, undisturbed>>

ResizeTimer ==
    /\ Event
    /\ count' = IF count = 0 THEN 0 ELSE viewPort
    /\ \/ UNCHANGED <<isFetching, inflight>>
       \/ /\ phase # "loading" /\ count # 0
          /\ LoadAndDisplayBooks(NextPiece(viewPort, FALSE))
    /\ UNCHANGED <<phase, filter, start, order, noResultInjected,
                   viewPort, screen, resets, undisturbed>>

(* window.onload, up to its first await. *)
WindowOnload ==
    /\ phase = "loading"
    /\ LoadAndDisplayBooks(NextPiece(count, TRUE))
    /\ phase' = IF isFetching THEN "opened" ELSE "opening"
    /\ UNCHANGED <<filter, start, count, order, noResultInjected,
                   viewPort, screen, resets, undisturbed>>

(* Mutant of resetAndFilter: the map is not cleared.                       *)
ResetKeepsOrder(f) ==
    /\ filter' = f
    /\ start' = 0 /\ count' = viewPort
    /\ isFetching' = TRUE
    /\ inflight' = Append(inflight, [filter |-> f, start |-> 0, count |-> viewPort,
                                     sort |-> TRUE, initial |-> FALSE])
    /\ undisturbed' = (inflight = <<>> /\ timers = 0)
    /\ UNCHANGED <<order, noResultInjected, viewPort, screen>>

(* resetAndFilter.  Choosing a filter while an answer or a message is      *)
(* still to come is what the history variable calls disturbed.             *)
Reset(f) ==
    /\ filter' = f
    /\ start' = 0 /\ count' = viewPort
    /\ order' = [b \in Book |-> NoIndex]
    /\ isFetching' = TRUE
    /\ inflight' = Append(inflight, [filter |-> f, start |-> 0, count |-> viewPort,
                                     sort |-> TRUE, initial |-> FALSE])
    /\ undisturbed' = (inflight = <<>> /\ timers = 0)
    /\ UNCHANGED <<noResultInjected, viewPort, screen>>

(* A filter is chosen, or the user goes back to one, or takes up the offer *)
(* of the message.  Only going back is possible before onload is through.  *)
ChooseFilter(f) ==
    /\ phase \in {"opening", "ready"}
    /\ resets < MaxResets
    /\ resets' = resets + 1
    /\ Reset(f)
    /\ UNCHANGED phase

(* The rest of onload: without filters in the address the language of the  *)
(* browser is chosen.                                                      *)
OnloadGoesOn ==
    /\ phase = "opened"
    /\ phase' = "ready"
    /\ \/ Reset(LangFilter)
       \/ UNCHANGED <<filter, start, count, order, isFetching, noResultInjected,
                      viewPort, inflight, screen, undisturbed>>
    /\ UNCHANGED resets

-----------------------------------------------------------------------------
(* Answers.                                                                *)

Books(request) ==
    LET all == Matching[request.filter]
        end == request.start + request.count
    IN SubSeq(all, request.start + 1, IF end < Len(all) THEN end ELSE Len(all))

Index(books, map) ==
    [b \in Book |-> IF Contains(books, b)
                    THEN CHOOSE i \in 0 .. Len(books) - 1 : books[i + 1] = b
                    ELSE map[b]]

Items(books, map, sort) ==
    [i \in DOMAIN books |->
        [book |-> books[i], weight |-> IF sort THEN map[books[i]] ELSE NoIndex]]

(* loadAndDisplayBooksUnguarded: what is in the map stays, with new sort   *)
(* data if asked for, what is not goes, and the other books come.          *)
Display(books, map, sort) ==
    LET Resorted(item) == IF sort THEN [item EXCEPT !.weight = map[item.book]] ELSE item
        kept == OnlyIn(displayed, {item \in Range(displayed) : map[item.book] # NoIndex})
        new == OnlyIn(books, Book \ {kept[i].book : i \in DOMAIN kept})
    IN [i \in DOMAIN kept |-> Resorted(kept[i])] \o Items(new, map, sort)

NoResult == noResultInjected

(* checkAndInjectEmptyMessage and what follows, with the map as it is now. *)
ShowNoResult(map) ==
    /\ Ordered(map) = {}
    /\ noResultInjected' = TRUE
    /\ IF noResultInjected THEN UNCHANGED <<displayed, timers>>
       ELSE displayed' = <<>> /\ timers' = timers + 1
    /\ isFetching' = FALSE
    /\ UNCHANGED <<messages, undisturbed>>

(* The message is not there yet: the exception leaves the books unshown    *)
(* and isFetching set.                                                     *)
ShowFails(map) ==
    /\ Ordered(map) # {}
    /\ noResultInjected /\ messages = 0
    /\ noResultInjected' = FALSE
    /\ undisturbed' = FALSE
    /\ UNCHANGED <<displayed, messages, timers, isFetching>>

(* Mutant: isFetching is not cleared when the books are shown.             *)
ShowBooksStillFetching(map, books, sort) ==
    /\ Ordered(map) # {}
    /\ ~(noResultInjected /\ messages = 0)
    /\ noResultInjected' = FALSE
    /\ messages' = IF NoResult THEN messages - 1 ELSE messages
    /\ displayed' = Display(books, map, sort)
    /\ UNCHANGED <<timers, undisturbed, isFetching>>

ShowBooks(map, books, sort) ==
    /\ Ordered(map) # {}
    /\ ~(noResultInjected /\ messages = 0)
    /\ noResultInjected' = FALSE
    /\ messages' = IF NoResult THEN messages - 1 ELSE messages
    /\ displayed' = Display(books, map, sort)
    /\ isFetching' = FALSE
    /\ UNCHANGED <<timers, undisturbed>>

LoadBooks(i) ==
    /\ Event
    /\ i \in DOMAIN inflight
    /\ LET request == inflight[i]
           books == Books(request)
           map == Index(books, order)
       IN /\ order' = map
          /\ start' = start + Len(books)
          /\ count' = IF Len(Matching[request.filter]) = Cardinality(Ordered(map))
                      THEN 0 ELSE count
          /\ \/ ShowNoResult(map) /\ phase' = IF request.initial THEN "opened" ELSE phase
             \/ ShowFails(map) /\ UNCHANGED phase
             \/ /\ ShowBooks(map, books, request.sort)
                /\ phase' = IF request.initial THEN "opened" ELSE phase
    /\ inflight' = RemoveAt(inflight, i)
    /\ UNCHANGED <<filter, viewPort, resets>>

(* No answer, or one that is no feed. *)
FetchFails(i) ==
    /\ Event
    /\ i \in DOMAIN inflight
    /\ inflight' = RemoveAt(inflight, i)
    /\ undisturbed' = FALSE
    /\ UNCHANGED <<listVars, viewPort, screen, resets>>

(* The timer of 300 ms. *)
MessageTimer ==
    /\ Event
    /\ timers > 0
    /\ timers' = timers - 1
    /\ messages' = messages + 1
    /\ UNCHANGED <<listVars, viewPort, inflight, displayed, resets, undisturbed>>

(* What the browser and the server do by themselves. *)
Progress ==
    \/ WindowOnload \/ OnloadGoesOn
    \/ \E i \in DOMAIN inflight : LoadBooks(i) \/ FetchFails(i)
    \/ MessageTimer

Next ==
    \/ ScrollTooEarly \/ LoadSubset \/ ResizeTimer
    \/ \E n \in ViewPort : Resize(n)
    \/ \E f \in Filter : ChooseFilter(f)
    \/ Progress

(* The browser goes on with the page while there is something to do, every *)
(* request gets an answer or fails, and the user is one who scrolls on as  *)
(* long as there is something to come.                                     *)
Fairness == WF_vars(Progress) /\ WF_vars(LoadSubset)

Spec == Init /\ [][Next]_vars /\ Fairness

-----------------------------------------------------------------------------
(* Properties.                                                             *)

(* Isotope shows items by weight, and then as they came: place[i] is where *)
(* the i-th one is.                                                        *)
Arranged(items, books) ==
    /\ Len(items) = Len(books)
    /\ \E place \in [1 .. Len(items) -> 1 .. Len(books)] :
          /\ \A i \in 1 .. Len(items) : books[place[i]] = items[i].book
          /\ \A i, j \in 1 .. Len(items) :
                \/ items[i].weight < items[j].weight
                \/ items[i].weight = items[j].weight /\ i < j
                => place[i] < place[j]

(* These books are on the screen, in this order, and no others.            *)
OnScreen(books) == Arranged(displayed, books)

(* No book is on the screen twice, however the answers to requests for     *)
(* different filters and different pieces mix.                             *)
NoBookTwice == IsInjective([i \in DOMAIN displayed |-> displayed[i].book])

Settled == undisturbed /\ phase # "loading" /\ inflight = <<>> /\ timers = 0

(* Whatever happened before (lost answers, answers to a filter that had    *)
(* been left, exceptions), once a filter is chosen while nothing is under  *)
(* way, the page shows the first books of that filter, in the order of the *)
(* server and up to where the next piece starts, and it stops asking for   *)
(* more just when there are no more.                                       *)
SettledPageIsRight ==
    Settled =>
        /\ start <= Len(Matching[filter])
        /\ OnScreen(SubSeq(Matching[filter], 1, start))
        /\ count = 0 <=> start = Len(Matching[filter])

(* The page holds no book twice at any time, and when it has come to rest  *)
(* the right ones in the right order.                                      *)
PageIsRight == NoBookTwice /\ SettledPageIsRight

(* A user who scrolls on gets to see all books of the filter he has chosen *)
(* in the end, unless something unexpected happens.                        *)
AllBooksAreShown == []<>(undisturbed => Settled /\ OnScreen(Matching[filter]))

=============================================================================
