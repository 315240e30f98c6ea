--------------------------------- MODULE Tabs ---------------------------------
(***************************************************************************)
(* The tabs of jQuery UI: panels of which one is open, or none if they are *)
(* collapsible.  The old panel is hidden and then the new one shown, and   *)
(* meanwhile nothing else can be chosen; a panel may be loaded from the    *)
(* server; the arrow keys choose a tab 300 ms after they move to it; tabs  *)
(* are disabled and enabled, and taken out of the page.                    *)
(***************************************************************************)
EXTENDS Integers, FiniteSets, Functions, Sublists

CONSTANTS
    Tab, NoTab,
    Remote,      \* the tabs whose panels are loaded
    Id           \* names for requests, as many as may be under way

VARIABLES
    page,          \* the tabs in the page, in their order
    tabs,          \* those that the widget knows
    option,        \* options.active: an index from 0, or Collapsed
    active,        \* this.active
    disabled, collapsible,
    shown,         \* the panels that are displayed, if only in part
    toggle,        \* the animation: its phase, and what it shows and hides
    activating,    \* the timer of the arrow keys: an index, or Collapsed
    requests,      \* requests and the timers of 1 ms that follow them
    xhr,           \* the request that this.xhr holds, or 0
    loading        \* the tabs with the class ui-tabs-loading

panels == <<option, active, shown, toggle>>
loads == <<requests, xhr, loading>>
tabsVars == <<page, tabs, panels, disabled, collapsible, activating, loads>>

Collapsed == -1
Some(tab) == {tab} \ {NoTab}
InPage == Range(page)
IndexOf(seq, x) == CHOOSE i \in 0 .. Len(seq) - 1 : seq[i + 1] = x

Still == [phase |-> "still", show |-> NoTab, hide |-> NoTab]
Running == toggle.phase # "still"
NoRequest == [tab |-> NoTab, stage |-> "none"]

(* load: a tab that is local needs none. *)
Load(tab, sent) ==
    IF tab \notin Remote
    THEN requests' = sent /\ UNCHANGED <<xhr, loading>>
    ELSE \E id \in Id :
            /\ sent[id] = NoRequest /\ xhr # id
            /\ requests' = [sent EXCEPT ![id] = [tab |-> tab, stage |-> "sent"]]
            /\ xhr' = id
            /\ loading' = loading \cup {tab}

TabsInit ==
    /\ page \in Bijection(1 .. Cardinality(Tab), Tab) /\ tabs = page
    /\ option = 0 /\ active = Head(page)
    /\ disabled = {} /\ collapsible \in BOOLEAN
    /\ shown = {active} /\ toggle = Still
    /\ activating = Collapsed
    /\ LET id == CHOOSE id \in Id : TRUE
           remote == active \in Remote
       IN /\ requests = [i \in Id |-> IF remote /\ i = id THEN [tab |-> active, stage |-> "sent"]
                                      ELSE NoRequest]
          /\ xhr = IF remote THEN id ELSE 0
          /\ loading = {active} \cap Remote

-----------------------------------------------------------------------------
(* Choosing a tab.                                                         *)

(* The request of the tab that is left, unless it has its answer. *)
Aborted ==
    [id \in Id |-> IF id = xhr /\ requests[id].stage = "sent"
                   THEN [requests[id] EXCEPT !.stage = "aborted"] ELSE requests[id]]

(* _toggle hides first and then shows. *)
Toggle(toShow, toHide) ==
    IF toHide # NoTab
    THEN toggle' = [phase |-> "hiding", show |-> toShow, hide |-> toHide] /\ UNCHANGED shown
    ELSE toggle' = [phase |-> "showing", show |-> toShow, hide |-> NoTab] /\ shown' = shown \cup {toShow}

(* Mutant of Accepts: a tab may be chosen while another one comes and goes. *)
AcceptsAnyTime(tab) ==
    /\ tab \notin disabled /\ tab \notin loading
    /\ tab = active => collapsible

Accepts(tab) ==
    /\ tab \notin disabled /\ tab \notin loading
    /\ ~Running
    /\ tab = active => collapsible

(* _eventHandler.  The panel of a tab that has gone is gone too. *)
Handle(tab, known) ==
    IF ~Accepts(tab) THEN UNCHANGED <<panels, loads>>
    ELSE LET collapsing == tab = active
         IN /\ option' = IF collapsing THEN Collapsed ELSE IndexOf(known, tab)
            /\ active' = IF collapsing THEN NoTab ELSE tab
            /\ Load(active', Aborted)
            /\ Toggle(active', IF active \in InPage THEN active ELSE NoTab)

Click(tab) ==
    /\ tab \in InPage \cap Range(tabs)
    /\ Handle(tab, tabs)
    /\ UNCHANGED <<page, tabs, disabled, collapsible, activating>>

(* _activate: an index of no tab, or false, collapses. *)
Activate(index) ==
    LET found == IF index \in 0 .. Len(tabs) - 1 THEN tabs[index + 1] ELSE NoTab
    IN IF found = active THEN UNCHANGED <<panels, loads>>
       ELSE Handle(IF found = NoTab THEN active ELSE found, tabs)

ActiveOption(index) ==
    /\ Activate(index)
    /\ UNCHANGED <<page, tabs, disabled, collapsible, activating>>

(* _findNextTab goes around, over disabled tabs, unless all of them are.   *)
NextTab(index, step, known) ==
    LET n == Len(known)
        start == IF index > n - 1 THEN 0 ELSE IF index < 0 THEN n - 1 ELSE index
        Place(k) == (start + step * k) % n
        enabled == {k \in 0 .. n - 1 : known[Place(k) + 1] \notin disabled}
    IN IF enabled = {} THEN start
       ELSE Place(CHOOSE k \in enabled : \A j \in enabled : k <= j)

(* The arrow keys, from the tab that has the focus. *)
ArrowKey(from, step) ==
    /\ from \in InPage \cap Range(tabs)
    /\ activating' = NextTab(IndexOf(tabs, from) + step, step, tabs)
    /\ UNCHANGED <<page, tabs, panels, disabled, collapsible, loads>>

ArrowTimer ==
    /\ activating # Collapsed /\ activating' = Collapsed
    /\ Activate(activating)
    /\ UNCHANGED <<page, tabs, disabled, collapsible>>

(* SPACE opens, ENTER also closes, and both stop the timer. *)
OpenKey(from, enter) ==
    /\ from \in InPage \cap Range(tabs)
    /\ LET index == IndexOf(tabs, from)
       IN Activate(IF enter /\ index = option THEN Collapsed ELSE index)
    /\ activating' = Collapsed
    /\ UNCHANGED <<page, tabs, disabled, collapsible>>

(* ALT with the page keys, in a tab or in its panel. *)
PageKey(step) ==
    /\ tabs # <<>>
    /\ Activate(NextTab(option + step, step, tabs))
    /\ UNCHANGED <<page, tabs, disabled, collapsible, activating>>

-----------------------------------------------------------------------------
(* Animations and loading.                                                 *)

HideEnds ==
    /\ toggle.phase = "hiding"
    /\ shown' = (shown \ {toggle.hide}) \cup Some(toggle.show)
    /\ toggle' = IF toggle.show = NoTab THEN Still ELSE [toggle EXCEPT !.phase = "showing"]

ShowEnds == toggle.phase = "showing" /\ toggle' = Still /\ UNCHANGED shown

AnimationEnds ==
    /\ HideEnds \/ ShowEnds
    /\ UNCHANGED <<page, tabs, option, active, disabled, collapsible, activating, loads>>

(* panels.stop(false, true) ends what runs; where the panel that is shown  *)
(* then comes after the one that was hidden, it is through as well.        *)
StopPanels ==
    \/ ~Running /\ UNCHANGED <<shown, toggle>>
    \/ HideEnds \/ ShowEnds
    \/ /\ toggle.phase = "hiding"
       /\ shown' = (shown \ {toggle.hide}) \cup Some(toggle.show)
       /\ toggle' = Still

(* An answer or an error. *)
Answered(id) ==
    /\ requests[id].stage = "sent"
    /\ requests' = [requests EXCEPT ![id].stage = "answered"]
    /\ UNCHANGED <<page, tabs, panels, disabled, collapsible, activating, xhr, loading>>

LoadTimer(id) ==
    /\ requests[id].stage \in {"answered", "aborted"}
    /\ requests' = [requests EXCEPT ![id] = NoRequest]
    /\ loading' = loading \ {requests[id].tab}
    /\ xhr' = IF xhr = id THEN 0 ELSE xhr
    /\ IF requests[id].stage = "aborted" THEN StopPanels ELSE UNCHANGED <<shown, toggle>>
    /\ UNCHANGED <<page, tabs, option, active, disabled, collapsible, activating>>

(* The method load, for any tab. *)
LoadTab(tab) ==
    /\ tab \in Range(tabs) \cap Remote
    /\ Load(tab, requests)
    /\ UNCHANGED <<page, tabs, panels, disabled, collapsible, activating>>

-----------------------------------------------------------------------------
(* What the page does with its tabs.                                       *)

SetDisabled(new) ==
    /\ new \subseteq Range(tabs)
    /\ disabled' = new
    /\ UNCHANGED <<page, tabs, panels, collapsible, activating, loads>>

SetCollapsible(new) ==
    /\ collapsible' = new
    /\ IF ~new /\ option = Collapsed /\ tabs # <<>> /\ ~Running /\ tabs[1] \notin disabled \cup loading
       THEN /\ option' = 0 /\ active' = tabs[1]
            /\ Load(tabs[1], Aborted)
            /\ Toggle(tabs[1], NoTab)
       ELSE UNCHANGED <<panels, loads>>
    /\ UNCHANGED <<page, tabs, disabled, activating>>

(* A tab and its panel go, and no other one before refresh is called. *)
TakeAway(tab) ==
    /\ tabs = page /\ tab \in InPage
    /\ page' = OnlyIn(page, Tab \ {tab})
    /\ UNCHANGED <<tabs, panels, disabled, collapsible, activating, loads>>

(* refresh, and _refresh, which shows the panel of the active tab and      *)
(* hides the others at once.                                               *)
Refresh ==
    /\ tabs' = page
    /\ disabled' = disabled \cap InPage
    /\ \/ /\ option = Collapsed \/ page = <<>> \/ (active \notin InPage /\ InPage \subseteq disabled)
          /\ option' = Collapsed /\ active' = NoTab /\ shown' = {}
          /\ UNCHANGED <<toggle, loads>>
       \/ /\ active \in InPage /\ option # Collapsed
          /\ option' = IndexOf(page, active) /\ shown' = {active}
          /\ UNCHANGED <<active, toggle, loads>>
       \/ /\ option # Collapsed /\ active \notin InPage /\ ~(InPage \subseteq disabled)
          /\ LET index == NextTab(IF option = 0 THEN 0 ELSE option - 1, -1, page)
                 tab == page[index + 1]
             IN IF Running \/ tab \in loading
                THEN shown' = {} /\ UNCHANGED <<option, active, toggle, loads>>
                ELSE /\ option' = index /\ active' = tab
                     /\ Load(tab, Aborted)
                     /\ toggle' = [phase |-> "showing", show |-> tab, hide |-> NoTab]
                     /\ shown' = {tab}
    /\ UNCHANGED <<page, collapsible, activating>>

TabsNext ==
    \/ \E t \in Tab : Click(t) \/ LoadTab(t) \/ TakeAway(t)
    \/ \E t \in Tab, step \in {-1, 1} : ArrowKey(t, step)
    \/ \E t \in Tab, enter \in BOOLEAN : OpenKey(t, enter)
    \/ \E step \in {-1, 1} : PageKey(step)
    \/ \E index \in Collapsed .. Len(tabs) - 1 : ActiveOption(index)
    \/ \E new \in SUBSET Tab : SetDisabled(new)
    \/ \E new \in BOOLEAN : SetCollapsible(new)
    \/ \E id \in Id : Answered(id) \/ LoadTimer(id)
    \/ ArrowTimer \/ AnimationEnds \/ Refresh

TabsSpec == TabsInit /\ [][TabsNext]_tabsVars

-----------------------------------------------------------------------------
(* Properties.                                                             *)

(* When nothing moves, and the widget knows the tabs of the page and could *)
(* replace the one that has gone, just the panel of the active tab is      *)
(* displayed, its index is the option, and none is open only where that    *)
(* may be.  And a tab that loads, so that it cannot be chosen, has a       *)
(* request or a timer that will end that.                                  *)
OneTabIsOpen ==
    /\ ~Running /\ tabs = page /\ active \in InPage \cup {NoTab} =>
        /\ shown \cap InPage = Some(active)
        /\ active # NoTab => option = IndexOf(tabs, active)
        /\ active = NoTab => option = Collapsed
    /\ \A tab \in loading : \E id \in Id : requests[id].tab = tab

=============================================================================
