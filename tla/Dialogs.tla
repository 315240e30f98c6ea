-------------------------------- MODULE Dialogs --------------------------------
(***************************************************************************)
(* The dialogs of jQuery UI on one page.  A modal dialog puts an overlay   *)
(* on the page and keeps the focus in the dialogs: with a counter of the   *)
(* overlays, one handler for all of them, and a list of the dialogs by the *)
(* time they last had the focus, which the document keeps.                 *)
(*                                                                         *)
(* Some dialogs have an effect that shows them, and none one that hides    *)
(* them.  While the effect runs the dialog can be closed and opened again: *)
(* what is to show it and to hide it waits in the queue of its effects.    *)
(***************************************************************************)
EXTENDS Integers, FiniteSets, Functions, Sublists

CONSTANTS
    Dialog,
    Modal,       \* those with the option modal,
    Animated,    \* and those that an effect shows
    EffectLimit, \* bound: so many are in a queue when a dialog is not opened
    Page,        \* elements outside of the dialogs
    Nowhere      \* no element: the body

Place == Dialog \cup {Page, Nowhere}

VARIABLES
    open,        \* the dialogs with _isOpen
    showing,     \* how many times the queue of a dialog is to show or to hide
                 \* it, in turn and first to show it: its effect runs
    opener,      \* where the focus was when the dialog was opened
    focus,
    instances,   \* ui-dialog-instances
    overlays,    \* ui-dialog-overlays
    bound,       \* the document has the handler,
    isOpening    \* which does not work yet

focusVars == <<focus, instances>>
modality == <<overlays, bound, isOpening>>
dialogVars == <<open, showing, opener, focusVars, modality>>

DialogInit ==
    /\ open = {} /\ showing = [d \in Dialog |-> 0]
    /\ opener = [d \in Dialog |-> Nowhere]
    /\ focus \in {Page, Nowhere} /\ instances = <<>>
    /\ overlays = 0 /\ bound = FALSE /\ isOpening = FALSE

-----------------------------------------------------------------------------
(* The focus.                                                              *)

(* A dialog that was closed is seen until its effect has ended.            *)
Visible == open \cup {d \in Dialog : showing[d] > 0}

Without(list, d) == OnlyIn(list, Dialog \ {d})

(* The focus is to go to a place.  Out of the dialogs the handler sends it *)
(* to the dialog that had it last, in vain if that is hidden, and with     *)
(* none there is an exception.  In a dialog _trackFocus notes it, unless   *)
(* it is where it was.  A dialog that is hidden then loses it.             *)
FocusGoes(to, list, handled, hidden) ==
    LET sent == to = Page /\ handled /\ list # <<>> /\ Head(list) \in Visible
        final == IF sent THEN Head(list) ELSE to
    IN /\ focus' = IF final \in hidden THEN Nowhere ELSE final
       /\ \/ final \in Dialog /\ instances' = <<final>> \o Without(list, final)
          \/ (final = focus \/ final \notin Dialog) /\ instances' = list

Handled == bound /\ ~isOpening

(* The user.  TAB stays within a dialog, but a click need not.             *)
UserFocuses(to) ==
    /\ to \in Visible \cup {Page}
    /\ FocusGoes(to, instances, Handled, {})
    /\ UNCHANGED <<open, showing, opener, modality>>

(* _keepFocus. *)
ClickOverlay(d) ==
    /\ d \in open \cap Modal
    /\ IF focus = d THEN UNCHANGED focusVars ELSE FocusGoes(d, instances, Handled, {})
    /\ UNCHANGED <<open, showing, opener, modality>>

-----------------------------------------------------------------------------
(* Opening.                                                                *)

(* The variable isOpening of the handler is the one of the dialog that     *)
(* brought it.                                                             *)
CreateOverlay(d) ==
    IF d \notin Modal THEN UNCHANGED modality
    ELSE /\ overlays' = overlays + 1
         /\ bound' = TRUE
         /\ isOpening' = IF overlays = 0 THEN TRUE ELSE isOpening

(* _focusTabbable comes when the dialog is shown. *)
Open(d) ==
    /\ d \notin open /\ open' = open \cup {d}
    /\ showing[d] < EffectLimit
    /\ opener' = [opener EXCEPT ![d] = focus]
    /\ CreateOverlay(d)
    /\ IF d \in Animated
       THEN showing' = [showing EXCEPT ![d] = @ + 1] /\ UNCHANGED focusVars
       ELSE UNCHANGED showing /\ FocusGoes(d, instances, FALSE, {})

(* The delay of no time. *)
OpeningEnds ==
    /\ isOpening /\ isOpening' = FALSE
    /\ UNCHANGED <<open, showing, opener, focusVars, overlays, bound>>

(* What hides the dialog, if that comes next in its queue, comes at once.  *)
ShowEnds(d) ==
    /\ showing[d] > 0
    /\ showing' = [showing EXCEPT ![d] = IF @ = 1 THEN 0 ELSE @ - 2]
    /\ FocusGoes(d, instances, FALSE, IF showing[d] = 1 THEN {} ELSE {d})
    /\ UNCHANGED <<open, opener, modality>>

(* open, of one that is, and a click in it: to the top. *)
MoveToTop(d) ==
    /\ d \in Visible
    /\ FocusGoes(d, instances, FALSE, {})
    /\ UNCHANGED <<open, showing, opener, modality>>

-----------------------------------------------------------------------------
(* Closing.                                                                *)

(* _destroyOverlay: the last one takes the handler along. *)
DestroyOverlay(d) ==
    IF d \notin Modal THEN UNCHANGED modality
    ELSE /\ overlays' = overlays - 1
         /\ bound' = (overlays # 1)
         /\ isOpening' = (isOpening /\ overlays # 1)

(* Mutant of Close: the dialog stays in the list.                          *)
CloseTracked(d) ==
    /\ d \in open /\ open' = open \ {d}
    /\ DestroyOverlay(d)
    /\ showing' = [showing EXCEPT ![d] = IF @ = 0 THEN 0 ELSE @ + 1]
    /\ FocusGoes(IF opener[d] \in Visible \cup {Page} THEN opener[d] ELSE Nowhere,
                 instances, bound' /\ ~isOpening', IF showing[d] = 0 THEN {d} ELSE {})
    /\ UNCHANGED opener

(* By ESCAPE or the button of a dialog, or by the page, in any order: the  *)
(* focus goes to the opener, if that still may have it, or is taken away;  *)
(* and the dialog is hidden, after its effect if that runs.                *)
Close(d) ==
    /\ d \in open /\ open' = open \ {d}
    /\ DestroyOverlay(d)
    /\ FocusGoes(IF opener[d] \in Visible \cup {Page} THEN opener[d] ELSE Nowhere,
                 Without(instances, d), bound' /\ ~isOpening',
                 IF showing[d] = 0 THEN {d} ELSE {})
    /\ showing' = [showing EXCEPT ![d] = IF @ = 0 THEN 0 ELSE @ + 1]
    /\ UNCHANGED opener

DialogNext ==
    \/ \E to \in Place : UserFocuses(to)
    \/ \E d \in Dialog : ClickOverlay(d) \/ Open(d) \/ ShowEnds(d) \/ MoveToTop(d) \/ Close(d)
    \/ OpeningEnds

DialogSpec == DialogInit /\ [][DialogNext]_dialogVars

-----------------------------------------------------------------------------
(* Properties.                                                             *)

(* "the dialogs stack and must be closed in reverse order": closed in any  *)
(* order they keep count, and the handler is there while a modal dialog is *)
(* open.                                                                   *)
OverlaysAreCounted ==
    /\ overlays = Cardinality(open \cap Modal)
    /\ bound <=> open \cap Modal # {}

(* A dialog that is open and shown is one that the handler can send the    *)
(* focus to, and one that is closed is not, unless it has an effect.       *)
ShownAreTracked ==
    /\ {d \in open : showing[d] = 0} \subseteq Range(instances)
    /\ Range(instances) \ open \subseteq Animated

(* A focus that comes to the page while the handler works does not stay    *)
(* there: only while all that is open is still being shown, or where a     *)
(* dialog that was closed during its effect has got the focus after that.  *)
FocusLeavesPage ==
    focus # Page /\ focus' = Page /\ bound' /\ ~isOpening' =>
        \/ \A d \in open' : showing'[d] > 0
        \/ \E d \in Range(instances') \cap Animated : d \notin open'

ModalKeepsFocus == [](OverlaysAreCounted /\ ShownAreTracked) /\ [][FocusLeavesPage]_dialogVars

=============================================================================
