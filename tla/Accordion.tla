------------------------------- MODULE Accordion -------------------------------
(***************************************************************************)
(* The accordion of jQuery UI: panels under headers, of which one is open, *)
(* or none if it is collapsible.  A panel is opened and another one closed *)
(* by an animation, and the next one may be chosen before it ends; the     *)
(* page may take panels away and call refresh.                             *)
(***************************************************************************)
EXTENDS Integers, FiniteSets, Functions, Sublists

CONSTANTS Panel, NoPanel

VARIABLES
    inPage,          \* the panels in the page, in their order
    headers,         \* those that the widget knows
    option,          \* options.active: an index from 0, or Collapsed
    active,          \* the panel of this.active
    shown,           \* the panels that are displayed, if only in part
    contentActive,   \* those with the class of an open panel
    tabStops,        \* those whose header the TAB key reaches
    animation,       \* what the running animation shows and hides
    prevShow, prevHide,
    collapsible

accordionVars == <<inPage, headers, option, active, shown, contentActive, tabStops,
                   animation, prevShow, prevHide, collapsible>>

Collapsed == -1
Some(panel) == {panel} \ {NoPanel}
InPage == Range(inPage)
IndexOf(seq, x) == CHOOSE i \in 0 .. Len(seq) - 1 : seq[i + 1] = x

Still == [show |-> NoPanel, hide |-> NoPanel, old |-> NoPanel]

(* _create, with the first panel open. *)
AccordionInit ==
    /\ inPage \in Bijection(1 .. Cardinality(Panel), Panel) /\ headers = inPage
    /\ option = 0 /\ active = Head(inPage)
    /\ shown = {active} /\ contentActive = {active} /\ tabStops = {active}
    /\ animation = Still /\ prevShow = NoPanel /\ prevHide = NoPanel
    /\ collapsible \in BOOLEAN

-----------------------------------------------------------------------------

(* Mutant of AfterStop: the animation stops where it stands.               *)
AfterHalt == [shown |-> shown, content |-> contentActive]

(* What stop(true, true) leaves, which ends the animation at once, and its *)
(* _toggleComplete.                                                        *)
AfterStop == [shown |-> shown \ {animation.hide},
              content |-> contentActive \ {animation.old}]

(* _toggle.  Where a panel is opened and none is closed, the old headers    *)
(* stay in the tab order: the attribute "0" is compared with the number 0. *)
Toggle(toShow, old, now) ==
    LET toHide == IF prevShow # NoPanel THEN prevShow ELSE old
    IN /\ prevShow' = toShow /\ prevHide' = toHide
       /\ animation' = [show |-> toShow, hide |-> toHide, old |-> old]
       /\ shown' = now.shown \cup Some(toShow)
       /\ tabStops' = Some(toShow) \cup
                      IF toShow # NoPanel /\ toHide # NoPanel THEN tabStops \ {toHide}
                      ELSE tabStops

(* _eventHandler, for the header of a panel. *)
Handle(clicked, now, known) ==
    IF clicked = active /\ ~collapsible
    THEN UNCHANGED <<option, active, shown, contentActive, tabStops, animation, prevShow, prevHide>>
    ELSE LET collapsing == clicked = active
         IN /\ option' = IF collapsing THEN Collapsed ELSE IndexOf(known, clicked)
            /\ active' = IF collapsing THEN NoPanel ELSE clicked
            /\ Toggle(active', active, now)
            /\ contentActive' = now.content \cup Some(active')

Click(panel) ==
    /\ panel \in InPage \cap Range(headers)
    /\ Handle(panel, AfterStop, headers)
    /\ UNCHANGED <<inPage, headers, collapsible>>

(* option("active", index): an index of no header, or false, collapses. *)
Activate(index) ==
    LET found == IF index \in 0 .. Len(headers) - 1 THEN headers[index + 1] ELSE NoPanel
    IN /\ found # active
       /\ Handle(IF found = NoPanel THEN active ELSE found, AfterStop, headers)
       /\ UNCHANGED <<inPage, headers, collapsible>>

(* An accordion that may not be collapsed any more opens its first panel.  *)
SetCollapsible(new) ==
    /\ collapsible' = new
    /\ IF ~new /\ option = Collapsed /\ headers # <<>>
       THEN /\ option' = 0 /\ active' = headers[1]
            /\ Toggle(headers[1], NoPanel, AfterStop)
            /\ contentActive' = AfterStop.content \cup {headers[1]}
       ELSE UNCHANGED <<option, active, shown, contentActive, tabStops, animation, prevShow, prevHide>>
    /\ UNCHANGED <<inPage, headers>>

(* The arrow keys, HOME and END move the focus from a header to another.   *)
Keydown(from, to) ==
    /\ {from, to} \subseteq InPage \cap Range(headers)
    /\ tabStops' = (tabStops \ {from}) \cup {to}
    /\ UNCHANGED <<inPage, headers, option, active, shown, contentActive, animation,
                   prevShow, prevHide, collapsible>>

AnimationEnds ==
    /\ animation # Still /\ animation' = Still
    /\ shown' = shown \ {animation.hide}
    /\ contentActive' = contentActive \ {animation.old}
    /\ UNCHANGED <<inPage, headers, option, active, tabStops, prevShow, prevHide, collapsible>>

(* The page takes a panel and its header away, and does not take another   *)
(* one before it calls refresh.                                            *)
TakeAway(panel) ==
    /\ headers = inPage
    /\ panel \in InPage
    /\ inPage' = OnlyIn(inPage, Panel \ {panel})
    /\ UNCHANGED <<headers, option, active, shown, contentActive, tabStops, animation,
                   prevShow, prevHide, collapsible>>

(* _refresh: the header of the index is the active one. *)
ShowActive(index) ==
    /\ option' = index
    /\ active' = IF index = Collapsed THEN NoPanel ELSE inPage[index + 1]
    /\ shown' = Some(active') /\ contentActive' = contentActive \cup Some(active')
    /\ tabStops' = IF active' # NoPanel THEN {active'} ELSE {p \in InPage : p = inPage[1]}

(* refresh.  What it opens instead of a panel that has gone it opens by    *)
(* _eventHandler, and _refresh comes over that: the panels that are not    *)
(* active are hidden without waiting for the animation.                    *)
Refresh ==
    /\ headers' = inPage
    /\ \/ /\ option = Collapsed \/ inPage = <<>>
          /\ ShowActive(Collapsed)
          /\ UNCHANGED <<animation, prevShow, prevHide>>
       \/ /\ active \in InPage
          /\ ShowActive(IndexOf(inPage, active))
          /\ UNCHANGED <<animation, prevShow, prevHide>>
       \/ /\ option # Collapsed /\ inPage # <<>> /\ active \notin InPage
          /\ LET index == IF option = 0 THEN 0 ELSE option - 1
                 panel == inPage[index + 1]
                 toHide == IF prevShow # NoPanel THEN prevShow ELSE active
             IN /\ option' = index /\ active' = panel
                /\ prevShow' = panel /\ prevHide' = toHide
                /\ animation' = [show |-> panel, hide |-> toHide, old |-> active]
                /\ shown' = {panel}
                /\ contentActive' = AfterStop.content \cup {panel}
                /\ tabStops' = {panel}
    /\ UNCHANGED <<inPage, collapsible>>

AccordionNext ==
    \/ \E p \in Panel : Click(p) \/ TakeAway(p)
    \/ \E i \in Collapsed .. Len(headers) : Activate(i)
    \/ \E new \in BOOLEAN : SetCollapsible(new)
    \/ \E from, to \in Panel : Keydown(from, to)
    \/ AnimationEnds \/ Refresh

AccordionSpec == AccordionInit /\ [][AccordionNext]_accordionVars

-----------------------------------------------------------------------------
(* Properties.                                                             *)

(* When nothing moves and the widget knows the panels of the page, the     *)
(* panel that is displayed is the active one, its index is the option, and *)
(* none is displayed only where that may be; the TAB key reaches a header, *)
(* if not always just one.  However many panels were chosen while others   *)
(* were moving.                                                            *)
OnePanelIsOpen ==
    animation = Still /\ headers = inPage =>
        /\ shown \cap InPage = Some(active)
        /\ contentActive \cap InPage = Some(active)
        /\ active # NoPanel => option = IndexOf(headers, active)
        /\ active = NoPanel => option = Collapsed /\ (collapsible \/ inPage = <<>>)
        /\ inPage # <<>> => tabStops \cap InPage # {}

=============================================================================
