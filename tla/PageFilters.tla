----------------------------- MODULE PageFilters -----------------------------
(***************************************************************************)
(* The filters of the page with the books (src/static/skin/index.js): they *)
(* are in the address, in a cookie, in the variable params that makes the  *)
(* requests, and in the controls of the page.  The user chooses, goes back *)
(* and forth, loads the page again and has it open in several tabs.        *)
(***************************************************************************)
EXTENDS Integers, Sequences

CONSTANTS
    FilterType,    \* filterTypes
    Option,        \* Option[type]: what its control offers, besides nothing
    BrowserLang,   \* the option for the language of the browser, or Nothing
    Absent,        \* a filter that an address does not name
    MaxHistory,    \* bound on the entries of the history
    MaxWaiting     \* bound on the answers that are waited for

Nothing == ""

(* The three controls of the page, of which the one for the language is    *)
(* filled with langList, the one for the category with categoryList.  A    *)
(* text is one that no conversion changes.                                 *)
Offered(type) == Option[type] \cup {Nothing}

(* The code of two letters is looked up in iso6391To3, and a language that *)
(* the control does not offer leaves it empty.                             *)
ASSUME PageFiltersAssumption ==
    /\ "lang" \in FilterType
    /\ DOMAIN Option = FilterType
    /\ \A type \in FilterType : Absent \notin Offered(type)
    /\ BrowserLang \in Offered("lang")
    /\ MaxHistory \in Nat \ {0} /\ MaxWaiting \in Nat

Params == {p \in [FilterType -> (UNION {Offered(t) : t \in FilterType}) \cup {Absent}] :
               \A t \in FilterType : p[t] \in Offered(t) \cup {Absent}}

NoFilters == [t \in FilterType |-> Absent]

VARIABLES
    ready,          \* window.onload is through
    params,
    filters,        \* the cookie as it was when the page was loaded
    entries, at,    \* the history: the addresses of the page, and the present one
    cookie,
    controls,
    waiting,        \* the times going back or forth waits for its answer
    sound           \* history: nothing failed since all controls were set

pageFiltersVars == <<ready, params, filters, entries, at, cookie, controls, waiting, sound>>

address == entries[at]

PageFiltersInit ==
    /\ ready = FALSE
    /\ cookie = NoFilters /\ filters = NoFilters
    /\ entries \in {<<p>> : p \in Params} /\ at = 1
    /\ params = address
    /\ controls = [t \in FilterType |-> Nothing]
    /\ waiting = 0 /\ sound = TRUE

-----------------------------------------------------------------------------

(* history.pushState drops what is ahead. *)
Push(p) ==
    /\ at < MaxHistory
    /\ entries' = Append(SubSeq(entries, 1, at), p)
    /\ at' = at + 1

Value(p, type) == IF p[type] = Absent THEN Nothing ELSE p[type]

(* resetAndFilter, by a control that has been set to a value, up to where  *)
(* it asks the server.                                                     *)
ResetAndFilter(type, choice) ==
    LET chosen == [address EXCEPT ![type] = choice]
    IN /\ params' = chosen
       /\ Push(chosen)
       /\ cookie' = chosen

Choose(type, choice) ==
    /\ ready
    /\ choice # controls[type]
    /\ controls' = [controls EXCEPT ![type] = choice]
    /\ ResetAndFilter(type, choice)
    /\ UNCHANGED <<ready, filters, waiting, sound>>

(* Back or forward.  The controls are set when the answer is there. *)
Popstate(step) ==
    /\ at + step \in DOMAIN entries
    /\ waiting < MaxWaiting
    /\ at' = at + step
    /\ params' = entries[at + step]
    /\ waiting' = waiting + 1
    /\ UNCHANGED <<ready, filters, entries, cookie, controls, sound>>

(* Mutant of SetControls: what the address does not name stays as it is.   *)
SetNamedControls(p, now) ==
    [t \in FilterType |-> IF p[t] = Absent \/ (t # "q" /\ ~ready) THEN now[t] ELSE p[t]]

(* As long as there are no options a control takes nothing. *)
SetControls(p, now) ==
    [t \in FilterType |-> IF t # "q" /\ ~ready THEN Nothing ELSE Value(p, t)]

PopstateAnswered ==
    /\ waiting > 0 /\ waiting' = waiting - 1
    /\ controls' = SetControls(params, controls)
    /\ sound' = TRUE
    /\ UNCHANGED <<ready, params, filters, entries, at, cookie>>

PopstateFails ==
    /\ waiting > 0 /\ waiting' = waiting - 1
    /\ sound' = FALSE
    /\ UNCHANGED <<ready, params, filters, entries, at, cookie, controls>>

(* The link in the message that there are no books. *)
ResetLink ==
    LET all == [NoFilters EXCEPT !["lang"] = Nothing]
    IN /\ Push(all) /\ params' = all /\ cookie' = all
       /\ controls' = SetControls(all, controls)
       /\ sound' = TRUE
       /\ UNCHANGED <<ready, filters, waiting>>

(* A visit, by an address that the page has made or with none, or the page *)
(* loaded again, which keeps the history.                                  *)
Load(addresses, i) ==
    /\ ready' = FALSE
    /\ entries' = addresses /\ at' = i
    /\ filters' = cookie
    /\ params' = IF addresses[i] = NoFilters THEN cookie ELSE addresses[i]
    /\ controls' = [t \in FilterType |-> Nothing]
    /\ waiting' = 0 /\ sound' = TRUE
    /\ UNCHANGED cookie

(* The rest of window.onload.  What a cookie has given goes to the         *)
(* address; with nothing there the language of the browser is chosen.      *)
Onload ==
    LET named == [t \in FilterType |-> IF params[t] = Absent THEN controls[t] ELSE params[t]]
        search == IF filters = NoFilters THEN address ELSE params
    IN /\ ~ready /\ ready' = TRUE
       /\ IF search = NoFilters
          THEN LET chosen == [search EXCEPT !["lang"] = BrowserLang] IN
               /\ controls' = [named EXCEPT !["lang"] = BrowserLang]
               /\ params' = chosen /\ cookie' = chosen
               /\ at + 1 < MaxHistory
               /\ at' = IF filters = NoFilters THEN at + 1 ELSE at + 2
               /\ entries' = SubSeq(entries, 1, at)
                                \o (IF filters = NoFilters THEN <<chosen>> ELSE <<search, chosen>>)
          ELSE /\ controls' = named
               /\ cookie' = params
               /\ IF filters = NoFilters THEN UNCHANGED <<entries, at>> ELSE Push(params)
               /\ UNCHANGED params
       /\ UNCHANGED <<filters, waiting, sound>>

(* Another tab has chosen something, or the cookie is a day old. *)
Elsewhere ==
    /\ cookie' \in {p \in Params : \E t \in FilterType : \A u \in FilterType \ {t} : p[u] = Absent}
    /\ UNCHANGED <<ready, params, filters, entries, at, controls, waiting, sound>>

PageFiltersNext ==
    \/ \E t \in FilterType : \E choice \in Offered(t) : Choose(t, choice)
    \/ \E step \in {-1, 1} : Popstate(step)
    \/ PopstateAnswered \/ PopstateFails \/ ResetLink
    \/ \E p \in Params : Load(<<p>>, 1)
    \/ Load(entries, at)
    \/ Onload \/ Elsewhere

PageFiltersSpec == PageFiltersInit /\ [][PageFiltersNext]_pageFiltersVars

-----------------------------------------------------------------------------
(* Properties.                                                             *)

(* Whatever the user chooses, goes back to or loads again, and whichever   *)
(* cookie he comes with: when going back has had its answer, the controls  *)
(* show the filters by which the server is asked, and so does the address, *)
(* unless an answer was lost and the controls have not been set since.     *)
ControlsShowTheFilters ==
    ready /\ waiting = 0 /\ sound =>
        /\ params = address
        /\ controls = [t \in FilterType |-> Value(params, t)]

=============================================================================
