------------------------------- MODULE SearchBox -------------------------------
(***************************************************************************)
(* The search box in the toolbar of a book: taskbar.js puts the            *)
(* autocomplete widget of jQuery UI on it, and the widget keeps the text,  *)
(* a timer, a request and a menu widget in step, with a keyboard and a     *)
(* mouse that both move through the menu.  The handlers of the page run    *)
(* one at a time; timers go off and answers come between any two of them.  *)
(***************************************************************************)
EXTENDS Integers, Sequences

CONSTANTS
    Text,         \* what the box may hold
    Item,         \* suggestions
    ValueOf,      \* ValueOf[item]: the text that stands for it in the box
    IsPath,       \* IsPath[item]: an entry, and not a search
    Answer,       \* Answer[text]: what the server suggests
    MaxArmed,     \* bound on the number of handlers that wait for the mouse
    None,         \* no text, no request
    Gone          \* an item of a menu that has been filled again

Empty == ""

ASSUME SearchBoxAssumption ==
    /\ Empty \in Text /\ None \notin Text
    /\ ValueOf \in [Item -> Text \ {Empty}]
    /\ IsPath \in [Item -> BOOLEAN]
    /\ Answer \in [Text \ {Empty} -> Seq(Item)]
    /\ Gone \notin Nat

VARIABLES
    value, term,        \* the text, and the one last searched for
    focused,            \* the keyboard writes into the box
    searching,          \* the timer of 300 ms: "none", or the kind of event
                        \* that started it, "plain" or with a "modifier" key
    request,            \* the text of the request that may still be heard
    cancelSearch,       \* its answer will not be shown
    visible, items,     \* the menu
    active,             \* the item of the menu in use, 0 for none
    lost,               \* activeMenu is no menu of the page
    isNewMenu,
    armed,              \* document.one("mousemove"): where the mouse was
    leaving,            \* menu.timer, as collapseAll starts it
    cancelBlur,
    outside,            \* document.one("mousedown"): "no", "arming", "armed"
    page,               \* <<"here">>, or where the user has been sent
    calm                \* history: nobody has done anything but look since
                        \* the text was typed, and no request has failed

text == <<value, term>>
search == <<searching, request, cancelSearch>>
menu == <<visible, items, active, lost, isNewMenu, armed, leaving>>
mouse == <<cancelBlur, outside>>
searchBoxVars == <<text, focused, search, menu, mouse, page, calm>>

SearchBoxInit ==
    /\ value = Empty /\ term = None
    /\ focused = FALSE
    /\ searching = "none" /\ request = None /\ cancelSearch = FALSE
    /\ visible = FALSE /\ items = <<>>
    /\ active = 0 /\ lost = FALSE /\ isNewMenu = TRUE /\ armed = <<>>
    /\ leaving = FALSE
    /\ cancelBlur = FALSE /\ outside = "no"
    /\ page = <<"here">> /\ calm = FALSE

-----------------------------------------------------------------------------
(* The menu.                                                               *)

(* menu.blur: with nothing in use only the timer stops. *)
MenuBlur == active' = 0 /\ leaving' = FALSE

(* _close. *)
Hide ==
    /\ UNCHANGED <<items, lost, armed>>
    /\ IF visible
       THEN visible' = FALSE /\ isNewMenu' = TRUE /\ MenuBlur
       ELSE UNCHANGED <<visible, isNewMenu, active, leaving>>

Close == cancelSearch' = TRUE /\ Hide

(* _suggest: the elements of the old items are gone, and refresh lets go   *)
(* of one that was in use.                                                 *)
Suggest(content) ==
    /\ items' = content
    /\ visible' = TRUE /\ isNewMenu' = TRUE
    /\ active' = 0
    /\ leaving' = (leaving /\ active = 0)
    /\ armed' = [k \in DOMAIN armed |-> Gone]
    /\ UNCHANGED lost

-----------------------------------------------------------------------------
(* Searching.                                                              *)

(* Mutant of Ask: a search that was called off calls off the next one.     *)
AskStillCancelled ==
    /\ request' = value
    /\ UNCHANGED <<cancelSearch, menu>>

(* _search: a request that is under way is aborted, and its answer counts  *)
(* no more.                                                                *)
Ask ==
    /\ request' = value
    /\ cancelSearch' = FALSE
    /\ UNCHANGED menu

Search ==
    /\ term' = value
    /\ IF value = Empty THEN Close /\ UNCHANGED request ELSE Ask

SearchTimer ==
    /\ searching # "none"
    /\ searching' = "none"
    /\ IF value # term \/ (~visible /\ searching = "plain")
       THEN Search
       ELSE UNCHANGED <<term, request, cancelSearch, menu>>
    /\ UNCHANGED <<value, focused, mouse, page, calm>>

(* Mutant of Response: an answer that was called off is shown.             *)
ResponseAnyway(content) == IF content # <<>> THEN Suggest(content) ELSE Hide

(* __response. *)
Response(content) ==
    IF content # <<>> /\ ~cancelSearch THEN Suggest(content) ELSE Hide

Answered ==
    /\ request # None
    /\ request' = None
    /\ \/ Response(Answer[request]) /\ UNCHANGED calm
       \/ Response(<<>>) /\ calm' = FALSE    \* no answer, or a bad one
    /\ UNCHANGED <<text, focused, searching, cancelSearch, mouse, page>>

-----------------------------------------------------------------------------
(* The keyboard.                                                           *)

(* The key, by the default of keydown, and the input event each start the  *)
(* timer again.  A paste has no key.                                       *)
Type(v) ==
    /\ focused
    /\ value' = v
    /\ searching' = "plain"
    /\ calm' = TRUE
    /\ UNCHANGED <<term, focused, request, cancelSearch, menu, mouse, page>>

(* A key that changes nothing, like Shift or Home. *)
PressOther(modifier) ==
    /\ focused
    /\ searching' = IF modifier THEN "modifier" ELSE "plain"
    /\ calm' = (calm /\ ~modifier)
    /\ UNCHANGED <<text, focused, request, cancelSearch, menu, mouse, page>>

AtTop == active \in {1, Gone}
AtEnd == active \in {Len(items), Gone}

(* Where the arrows and the page keys lead, in a menu that never scrolls.  *)
Target(key) ==
    CASE key = "down"     -> active + 1
      [] key = "up"       -> IF active = 0 THEN Len(items) ELSE active - 1
      [] key = "pageDown" -> IF active = 0 THEN 1 ELSE Len(items)
      [] key = "pageUp"   -> 1

(* menu.focus by a key, and menufocus: the text becomes that of the item.  *)
(* With no menu to look in, it is no item, and an exception ends it.       *)
FocusByKey(key) ==
    /\ IF lost /\ active = 0
       THEN active' = Gone /\ UNCHANGED value
       ELSE active' = Target(key) /\ value' = ValueOf[items[Target(key)]]
    /\ isNewMenu' = FALSE
    /\ leaving' = FALSE
    /\ UNCHANGED <<visible, items, lost, armed>>

(* _move: with no menu to be seen it searches at once; past the ends the   *)
(* text is again the one that was searched for.                            *)
Move(key) ==
    /\ focused
    /\ \/ ~visible /\ Search /\ UNCHANGED <<value, calm>>
       \/ /\ visible
          /\ IF (key \in {"up", "pageUp"} /\ AtTop) \/ (key \in {"down", "pageDown"} /\ AtEnd)
             THEN /\ value' = term
                  /\ MenuBlur
                  /\ UNCHANGED <<visible, items, lost, isNewMenu, armed>>
             ELSE FocusByKey(key)
          /\ calm' = FALSE
          /\ UNCHANGED <<term, request, cancelSearch>>
    /\ UNCHANGED <<focused, searching, mouse, page>>

(* menuselect, and the callback of taskbar.js: to the entry or, with the   *)
(* text of the item, to the results of a search.  An item that is gone has *)
(* no data, and an exception ends it.                                      *)
Select(item) ==
    IF item = Gone
    THEN /\ leaving' = TRUE
         /\ UNCHANGED <<text, cancelSearch, visible, items, active, lost, isNewMenu, armed,
                        page>>
    ELSE LET chosen == items[item] IN
         /\ page' = IF IsPath[chosen] THEN <<"entry", chosen>> ELSE <<"search", ValueOf[chosen]>>
         /\ value' = ValueOf[chosen] /\ term' = ValueOf[chosen]
         /\ cancelSearch' = TRUE
         /\ visible' = FALSE
         /\ active' = IF visible THEN 0 ELSE item
         /\ isNewMenu' = (visible \/ isNewMenu)
         /\ leaving' = ~visible
         /\ UNCHANGED <<items, lost, armed>>

(* With nothing in use the browser sends the form. *)
Enter ==
    /\ focused
    /\ IF active = 0
       THEN /\ page' = <<"search", value>>
            /\ UNCHANGED <<text, cancelSearch, menu>>
       ELSE Select(active)
    /\ calm' = FALSE
    /\ UNCHANGED <<focused, searching, request, mouse>>

(* The blur event; cancelBlur makes it count for nothing, once. *)
StopSearching == searching' = IF cancelBlur THEN searching ELSE "none"

Blur ==
    /\ focused /\ focused' = FALSE
    /\ cancelBlur' = FALSE
    /\ StopSearching
    /\ IF cancelBlur THEN UNCHANGED <<cancelSearch, menu>> ELSE Close
    /\ calm' = FALSE
    /\ UNCHANGED <<text, request, outside, page>>

Focus ==
    /\ ~focused /\ focused' = TRUE
    /\ UNCHANGED <<text, search, menu, mouse, page, calm>>

(* TAB takes what is in use, and then the focus goes.  With nothing in use *)
(* it is Blur, with an item that is gone LeaveMenu and Blur.               *)
Tab ==
    /\ active \notin {0, Gone}
    /\ Select(active)
    /\ focused /\ focused' = FALSE
    /\ cancelBlur' = FALSE
    /\ StopSearching
    /\ calm' = FALSE
    /\ UNCHANGED <<request, outside>>

Escape ==
    /\ focused /\ visible
    /\ value' = term
    /\ Close
    /\ calm' = FALSE
    /\ UNCHANGED <<term, focused, searching, request, mouse, page>>

-----------------------------------------------------------------------------
(* The mouse.                                                              *)

(* menu.focus by the mouse: what lies under the mouse when the menu is new *)
(* is only taken when the mouse moves.                                     *)
Hover(i) ==
    /\ visible /\ i \in DOMAIN items
    /\ Len(armed) < MaxArmed
    /\ active' = IF isNewMenu THEN 0 ELSE i
    /\ armed' = IF isNewMenu THEN Append(armed, i) ELSE armed
    /\ isNewMenu' = FALSE /\ lost' = FALSE /\ leaving' = FALSE
    /\ UNCHANGED <<text, focused, search, visible, items, mouse, page, calm>>

(* The handlers of document.one run in their order.  In a menu that is new *)
(* the first one waits again.  An item that is gone is in use all the      *)
(* same, and its missing text an exception: the handlers after it stay.    *)
MouseMove ==
    LET again == IF isNewMenu THEN <<Head(armed)>> ELSE <<>>
        due == IF isNewMenu THEN Tail(armed) ELSE armed
    IN /\ armed # <<>>
       /\ \E last \in 0 .. Len(due) :
            /\ \A k \in 1 .. last - 1 : due[k] # Gone
            /\ last = Len(due) \/ (last > 0 /\ due[last] = Gone)
            /\ active' = IF last = 0 THEN 0 ELSE due[last]
            /\ lost' = ((IF last = 0 THEN Head(armed) ELSE due[last]) = Gone)
            /\ armed' = again \o SubSeq(due, last + 1, Len(due))
       /\ isNewMenu' = FALSE /\ leaving' = FALSE
       /\ UNCHANGED <<text, focused, search, visible, items, mouse, page, calm>>

(* The mouse leaves the menu, or a click goes elsewhere: collapseAll, and  *)
(* 300 ms later what it delays.                                            *)
LeaveMenu ==
    /\ leaving' = TRUE
    /\ UNCHANGED <<text, focused, search, visible, items, active, lost, isNewMenu, armed,
                   mouse, page, calm>>

LeaveTimer ==
    /\ leaving
    /\ MenuBlur /\ lost' = FALSE
    /\ UNCHANGED <<text, focused, search, visible, items, isNewMenu, armed, mouse, page, calm>>

(* On an item, or on the menu beside the items.  The focus may go with it: *)
(* Blur.                                                                   *)
MouseDownOnMenu ==
    /\ visible
    /\ cancelBlur' = TRUE
    /\ outside' \in IF outside = "no" THEN {"no", "arming"} ELSE {outside}
    /\ UNCHANGED <<text, focused, search, menu, page, calm>>

(* The delays of no time that MouseDownOnMenu starts. *)
AfterMouseDown ==
    /\ cancelBlur \/ outside = "arming"
    /\ cancelBlur' = FALSE
    /\ outside' = IF outside = "arming" THEN "armed" ELSE outside
    /\ UNCHANGED <<text, focused, search, menu, page, calm>>

(* It may take the focus too: Blur. *)
MouseDownOutside ==
    /\ outside = "armed" /\ outside' = "no"
    /\ Close
    /\ calm' = FALSE
    /\ UNCHANGED <<text, focused, searching, request, cancelBlur, page>>

(* The item in use goes before the one that is clicked. *)
Click(i) ==
    /\ visible /\ i \in DOMAIN items
    /\ Select(IF active = 0 THEN i ELSE active)
    /\ focused' = TRUE
    /\ calm' = FALSE
    /\ UNCHANGED <<searching, request, mouse>>

-----------------------------------------------------------------------------
(* The user comes back, and the page is loaded again. *)
Return ==
    /\ page # <<"here">> /\ page' = <<"here">>
    /\ value' = Empty /\ term' = None /\ focused' = FALSE
    /\ searching' = "none" /\ request' = None /\ cancelSearch' = FALSE
    /\ visible' = FALSE /\ items' = <<>>
    /\ active' = 0 /\ lost' = FALSE /\ isNewMenu' = TRUE /\ armed' = <<>>
    /\ leaving' = FALSE
    /\ cancelBlur' = FALSE /\ outside' = "no"
    /\ calm' = FALSE

Keyboard ==
    \/ \E v \in Text : Type(v)
    \/ \E modifier \in BOOLEAN : PressOther(modifier)
    \/ \E key \in {"up", "down", "pageUp", "pageDown"} : Move(key)
    \/ Enter \/ Tab \/ Escape

Mouse ==
    \/ \E i \in DOMAIN items : Hover(i) \/ Click(i)
    \/ MouseMove \/ LeaveMenu \/ MouseDownOnMenu \/ MouseDownOutside

SearchBoxNext ==
    \/ /\ page = <<"here">>
       /\ \/ Keyboard \/ Mouse \/ Focus \/ Blur
          \/ SearchTimer \/ LeaveTimer \/ AfterMouseDown \/ Answered
    \/ Return

SearchBoxSpec == SearchBoxInit /\ [][SearchBoxNext]_searchBoxVars

-----------------------------------------------------------------------------
(* Properties.                                                             *)

Suggestions(v) == IF v = Empty THEN <<>> ELSE Answer[v]

(* With no request under way, a menu that can be seen has the suggestions  *)
(* for the text that was last searched for: an answer that comes late is   *)
(* never shown for another text.                                           *)
MenuAnswersTheTerm == visible /\ request = None => items = Suggestions(term)

(* What is typed last is what suggestions are shown for, in the end: when  *)
(* the timer has gone off and the answer has come, and nobody has used a   *)
(* key or the mouse for something else since, the menu shows just what the *)
(* server suggests for the text, whatever went on before it was typed.     *)
TypedIsSuggested ==
    calm /\ searching = "none" /\ request = None =>
        /\ term = value
        /\ visible <=> Suggestions(value) # <<>>
        /\ visible => items = Suggestions(value)

-----------------------------------------------------------------------------
(***************************************************************************)
(* The toolbar that the box is in, on a narrow screen: it goes away when   *)
(* the user scrolls down and comes back when he scrolls up.  Where the     *)
(* page stands is looked at only four times a second, and a small          *)
(* difference counts for nothing.                                          *)
(***************************************************************************)
CONSTANTS
    MaxScroll,   \* the height of the page, less the height of the screen
    Delta        \* the difference that counts for nothing

ASSUME ToolbarAssumption == MaxScroll \in Nat /\ Delta \in Nat

VARIABLES
    scrollTop,       \* where the page stands
    didScroll, lastScrollTop,
    shown            \* the toolbar has top: 0, not -100%

toolbarVars == <<scrollTop, didScroll, lastScrollTop, shown>>

ToolbarInit ==
    /\ scrollTop = 0
    /\ didScroll = FALSE /\ lastScrollTop = 0
    /\ shown = TRUE

Scroll(to) ==
    /\ to # scrollTop
    /\ scrollTop' = to
    /\ didScroll' = TRUE
    /\ UNCHANGED <<lastScrollTop, shown>>

Difference == IF scrollTop > lastScrollTop THEN scrollTop - lastScrollTop
              ELSE lastScrollTop - scrollTop

(* Mutant of HasScrolled: a small difference is forgotten.                 *)
HasScrolledForgetting ==
    /\ lastScrollTop' = scrollTop
    /\ shown' = IF Difference <= Delta THEN shown ELSE scrollTop <= lastScrollTop

HasScrolled ==
    IF Difference <= Delta
    THEN UNCHANGED <<lastScrollTop, shown>>
    ELSE /\ lastScrollTop' = scrollTop
         /\ shown' = (scrollTop <= lastScrollTop)

(* The interval of 250 ms. *)
Interval ==
    /\ didScroll
    /\ HasScrolled
    /\ didScroll' = FALSE
    /\ UNCHANGED scrollTop

ToolbarNext == (\E to \in 0 .. MaxScroll : Scroll(to)) \/ Interval

ToolbarSpec == ToolbarInit /\ [][ToolbarNext]_toolbarVars

-----------------------------------------------------------------------------
(* Properties.                                                             *)

(* At the top of the page the toolbar is there once the scrolling has been *)
(* noticed, by whatever small or large steps the user got there: nothing   *)
(* that he can do brings it back, if it is not.                            *)
ToolbarIsThereAtTheTop == scrollTop = 0 /\ ~didScroll => shown

=============================================================================
