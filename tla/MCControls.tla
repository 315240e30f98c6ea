------------------------------ MODULE MCControls ------------------------------
(* The pages: the list of books on the front page, and the controls, which *)
(* are the search box, the toolbar and the filters.  A behaviour looks at  *)
(* one of them, and the others stay as they were made.                     *)
EXTENDS SearchBox, PageFilters, CatalogPage, TLC

MCText == {"", "a", "b", "c"}
MCValueOf == "x" :> "a" @@ "y" :> "b"
MCIsPath == "x" :> TRUE @@ "y" :> FALSE
MCAnswer == "a" :> <<"x", "y">> @@ "b" :> <<"y">> @@ "c" :> <<>>

MCOption == "lang" :> {"eng"} @@ "q" :> {"x"}

(* Two books that come in one piece or in two; a filter that gives them in *)
(* one order, one that gives them in the other, and one that nothing       *)
(* matches.                                                                *)
CONSTANTS b1, b2, forth, back, none

MCMatching == forth :> <<b1, b2>> @@ back :> <<b2, b1>> @@ none :> <<>>

-----------------------------------------------------------------------------
(* What is not looked at. *)
AVisit == entries = <<NoFilters>>
AList == filter = forth /\ viewPort = 1

(* What a behaviour looks at. *)
VARIABLE looked

MCInit ==
    /\ looked \in {"search box", "toolbar", "filters", "books"}
    /\ SearchBoxInit /\ ToolbarInit
    /\ (looked = "filters" \/ AVisit) /\ PageFiltersInit
    /\ (looked = "books" \/ AList) /\ Init

MCNext ==
    /\ UNCHANGED looked
    /\ IF looked = "search box" THEN SearchBoxNext ELSE UNCHANGED searchBoxVars
    /\ IF looked = "toolbar" THEN ToolbarNext ELSE UNCHANGED toolbarVars
    /\ IF looked = "filters" THEN PageFiltersNext ELSE UNCHANGED pageFiltersVars
    /\ IF looked = "books" THEN Next ELSE UNCHANGED vars

MCVars == <<looked, searchBoxVars, toolbarVars, pageFiltersVars, vars>>

(* The fairness of CatalogPage, for the list that is looked at. *)
Looked(A) == looked = "books" /\ A
             /\ UNCHANGED <<looked, searchBoxVars, toolbarVars, pageFiltersVars>>

MCFairness == WF_vars(Looked(Progress)) /\ WF_vars(Looked(LoadSubset))

MCSpec == MCInit /\ [][MCNext]_MCVars /\ MCFairness

(* A user who scrolls on gets to see all books of the filter in the end    *)
(* (AllBooksAreShown), where the list is looked at.                        *)
ListIsCompleted == looked = "books" => AllBooksAreShown
=============================================================================
