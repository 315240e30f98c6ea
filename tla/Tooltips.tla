------------------------------- MODULE Tooltips -------------------------------
(***************************************************************************)
(* The tooltips of jQuery UI, with the titles of the elements as their     *)
(* contents: the mouse and the focus open and close them, an element in    *)
(* another one closes the tooltip of that, and so that the browser shows   *)
(* none of its own, titles are taken off the elements and put back.        *)
(***************************************************************************)
EXTENDS Integers, FiniteSets

CONSTANTS
    Element,
    Around,     \* Around[e]: the elements that e lies in
    Out         \* a place in none of them

VARIABLES
    over,       \* the innermost element under the mouse, or Out
    focused,    \* the element with the focus, or Out
    title,      \* the attribute: "text", "empty" or "absent"
    savedTitle, \* the elements with their title in ui-tooltip-title,
    isOpen,     \* those with ui-tooltip-open,
    shown,      \* shown[e]: the event that opened the tooltip of e, "mouseover"
                \* or "focusin", or "none"
    parents,    \* the elements whose titles this.parents keeps
    isDisabled

tips == <<title, savedTitle, isOpen, shown, parents>>
tooltipVars == <<over, focused, tips, isDisabled>>

Holding(e) == Around[e] \cup {e}
In(place, e) == place # Out /\ e \in Holding(place)

TooltipInit ==
    /\ over = Out /\ focused = Out
    /\ title = [e \in Element |-> "text"] /\ savedTitle = {}
    /\ isOpen = {} /\ shown = [e \in Element |-> "none"] /\ parents = {}
    /\ isDisabled = FALSE

-----------------------------------------------------------------------------
(* The tooltips as a record, which one event may change several times.     *)

Now == [title |-> title, saved |-> savedTitle, open |-> isOpen, shown |-> shown,
        parents |-> parents]

Become(s) ==
    /\ title' = s.title /\ savedTitle' = s.saved
    /\ isOpen' = s.open /\ shown' = s.shown /\ parents' = s.parents

(* close, of several at once. *)
Closed(s, closing) ==
    [s EXCEPT !.title = [e \in Element |-> IF e \in closing \cap s.saved THEN "text" ELSE s.title[e]],
              !.open = @ \ closing,
              !.shown = [e \in Element |-> IF e \in closing THEN "none" ELSE s.shown[e]]]

(* After a mouseleave the parents have their titles again. *)
ParentsRestored(s) ==
    [s EXCEPT !.title = [e \in Element |-> IF e \in s.parents THEN "text" ELSE s.title[e]],
              !.parents = {}]

(* What the mouse opens takes the titles of the parents, and closes their  *)
(* tooltips.                                                               *)
ParentsKilled(s, e) ==
    LET closed == Closed(s, Around[e] \cap s.open)
        titled == {p \in Around[e] : closed.title[p] = "text"}
    IN [closed EXCEPT !.title = [p \in Element |-> IF p \in titled THEN "empty" ELSE closed.title[p]],
                      !.parents = @ \cup titled]

(* open, _updateContent and _open: without a title there is nothing to     *)
(* show.                                                                   *)
Opened(s, e, event) ==
    IF s.shown[e] # "none" THEN s
    ELSE LET marked == [s EXCEPT !.open = @ \cup {e},
                                 !.saved = IF s.title[e] = "text" THEN @ \cup {e} ELSE @]
             ready == IF event = "mouseover" THEN ParentsKilled(marked, e) ELSE marked
         IN IF s.title[e] # "text" THEN ready
            ELSE [ready EXCEPT !.shown[e] = event,
                               !.title[e] = IF event = "mouseover" THEN "empty" ELSE "absent"]

(* closest(items): the innermost element with a title, if only an empty    *)
(* one.                                                                    *)
OpenedAt(s, place, event) ==
    LET titled == {e \in Element : In(place, e) /\ s.title[e] # "absent"}
    IN IF titled = {} THEN s
       ELSE Opened(s, CHOOSE e \in titled : titled \subseteq Holding(e), event)

-----------------------------------------------------------------------------
(* While the widget is disabled its handlers do nothing.                   *)
MouseTo(to) ==
    /\ to # over /\ over' = to
    /\ IF isDisabled THEN UNCHANGED tips
       ELSE LET left == {e \in Element : In(over, e) /\ ~In(to, e) /\ shown[e] = "mouseover"}
                s == IF left = {} THEN Now ELSE ParentsRestored(Closed(Now, left))
            IN Become(OpenedAt(s, to, "mouseover"))
    /\ UNCHANGED <<focused, isDisabled>>

FocusTo(to) ==
    /\ to # focused /\ focused' = to
    /\ IF isDisabled THEN UNCHANGED tips
       ELSE LET left == {e \in Element : In(focused, e) /\ shown[e] = "focusin"}
            IN Become(OpenedAt(Closed(Now, left), to, "focusin"))
    /\ UNCHANGED <<over, isDisabled>>

Escape ==
    /\ focused # Out /\ ~isDisabled
    /\ Become(Closed(Now, {e \in Holding(focused) : shown[e] # "none"}))
    /\ UNCHANGED <<over, focused, isDisabled>>

(* Mutant of Disable: what is open stays so.                               *)
DisableOpen ==
    /\ ~isDisabled /\ isDisabled' = TRUE
    /\ Become([Now EXCEPT !.saved = {e \in Element : title[e] = "text"},
                          !.title = [e \in Element |-> "absent"]])
    /\ UNCHANGED <<over, focused>>

(* _disable: it closes all, and takes the titles as it finds them, an      *)
(* empty one too.                                                          *)
Disable ==
    /\ ~isDisabled /\ isDisabled' = TRUE
    /\ LET s == Closed(Now, {e \in Element : shown[e] # "none"})
       IN Become([s EXCEPT !.saved = (@ \ {e \in Element : s.title[e] = "empty"})
                                      \cup {e \in Element : s.title[e] = "text"},
                           !.title = [e \in Element |-> "absent"]])
    /\ UNCHANGED <<over, focused>>

(* _enable looks for elements with a title, and so finds none of those     *)
(* that _disable took it from.                                             *)
Enable ==
    /\ isDisabled /\ isDisabled' = FALSE
    /\ title' = [e \in Element |-> IF title[e] # "absent" /\ e \in savedTitle THEN "text" ELSE title[e]]
    /\ UNCHANGED <<over, focused, savedTitle, isOpen, shown, parents>>

TooltipNext ==
    \/ \E to \in Element \cup {Out} : MouseTo(to) \/ FocusTo(to)
    \/ Escape \/ Disable \/ Enable

TooltipSpec == TooltipInit /\ [][TooltipNext]_tooltipVars

-----------------------------------------------------------------------------
(* Properties.                                                             *)

(* What a tooltip is shown for still holds: the mouse is on its element,   *)
(* or the focus is in it; so there will be an event that closes it.  Its   *)
(* element has no title for the browser to show.  And a title that an      *)
(* element has not any more is still kept somewhere.                       *)
TooltipIsHeld ==
    \A e \in Element :
        /\ shown[e] = "mouseover" => In(over, e)
        /\ shown[e] = "focusin" => In(focused, e)
        /\ shown[e] # "none" => title[e] # "text"
        /\ title[e] = "text" \/ e \in savedTitle \cup parents

=============================================================================
