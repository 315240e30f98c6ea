------------------------------- MODULE DragDrop -------------------------------
(***************************************************************************)
(* Dragging and dropping in jQuery UI: the mouse widget, which turns the   *)
(* events of one mouse into drags, the draggable widget on it, and the     *)
(* manager that tells the droppable widgets of a drag over them.  The      *)
(* mouse may be released where the page does not see it, a drag may be     *)
(* refused, cancelled or put back by an animation, and the widget may be   *)
(* destroyed in the middle of it.                                          *)
(***************************************************************************)
EXTENDS Integers, FiniteSets, Functions, Sequences

CONSTANTS
    Draggable, Droppable,
    Place,          \* where the mouse may be
    Under,          \* Under[place]: the droppables that the helper is over
    Parent,         \* Parent[droppable]: the one that it lies in, or Nothing
    Greedy,         \* the droppables that keep a drop from their parent
    Accepted,       \* Accepted[droppable]: the draggables that it accepts
    Delayed,        \* the draggables with a delay
    Revert,         \* Revert[draggable]: "always", "never", "valid", "invalid"
    Nothing

VARIABLES
    droppables,     \* the manager's list, in the order of their creation
    place, button,  \* the mouse, and whether its button is down
    mouseHandled,
    listener,       \* the widget that listens to the document, or Nothing
    pressedAt,      \* where the mouse was when it began
    started,        \* _mouseStarted
    delayMet,       \* the draggables for which mouseDelayMet holds,
    timers,         \* and those with a timer to that end
    helper,         \* the draggables that have a helper,
    reverting,      \* those among them that an animation puts back
    destroyOnClear, gone,
    dd              \* the droppables, each a set: over (isover), greedyChild,
                    \* visible, lit (hoverClass), waiting (activeClass)

mouse == <<place, button, mouseHandled, listener, pressedAt, started, delayMet, timers>>
drags == <<helper, reverting, destroyOnClear, gone>>
dragDropVars == <<droppables, mouse, drags, dd>>

Some(x) == {x} \ {Nothing}
Accepting(d) == {p \in Droppable : d \in Accepted[p]}

DragDropInit ==
    /\ droppables \in Bijection(1 .. Cardinality(Droppable), Droppable)
    /\ place \in Place /\ button = FALSE
    /\ mouseHandled = FALSE /\ listener = Nothing /\ pressedAt = place
    /\ started = FALSE /\ delayMet = {} /\ timers = {}
    /\ helper = {} /\ reverting = {} /\ destroyOnClear = {} /\ gone = {}
    /\ dd = [over |-> {}, greedyChild |-> {}, visible |-> {}, lit |-> {}, waiting |-> {}]

-----------------------------------------------------------------------------
(* The manager.                                                            *)

(* prepareOffsets; it activates when it is called for a mousedown.  What a *)
(* droppable is told while it does not accept the draggable stays.         *)
PrepareOffsets(s, d, activating) ==
    [s EXCEPT !.visible = @ \cup Accepting(d),
              !.waiting = IF activating THEN @ \cup Accepting(d) ELSE @]

(* Mutant of Entered: the parent of a greedy child stays lit.              *)
EnteredAlone(s, p, parent, d) ==
    [s EXCEPT !.greedyChild = @ \cup parent,
              !.over = @ \cup {p},
              !.lit = @ \cup ({p} \cap Accepting(d))]

(* The helper comes over a droppable and, if that is greedy, is not over   *)
(* the parent any more.                                                    *)
Entered(s, p, parent, d) ==
    [s EXCEPT !.greedyChild = @ \cup parent,
              !.over = (@ \ parent) \cup {p},
              !.lit = (@ \ (parent \cap Accepting(d))) \cup ({p} \cap Accepting(d))]

Left(s, p, parent, d) ==
    [s EXCEPT !.greedyChild = @ \ parent,
              !.over = (@ \ {p}) \cup parent,
              !.lit = (@ \ ({p} \cap Accepting(d))) \cup (parent \cap Accepting(d))]

(* What drag does to one droppable. *)
Tell(s, p, d, at) ==
    LET under == p \in Under[at]
        parent == IF p \in Greedy THEN Some(Parent[p]) ELSE {}
    IN IF p \in s.greedyChild \/ p \notin s.visible \/ under = (p \in s.over) THEN s
       ELSE IF under THEN Entered(s, p, parent, d)
       ELSE Left(s, p, parent, d)

(* Each one in its turn sees what the ones before it did. *)
Drag(s, d, at) ==
    LET after[n \in 0 .. Len(droppables)] ==
            IF n = 0 THEN s ELSE Tell(after[n - 1], droppables[n], d, at)
    IN  after[Len(droppables)]

(* Those that get the drop: the parent of a greedy one that is also there  *)
(* and takes it does not.                                                  *)
Takers(s, d, at) ==
    {p \in Under[at] \cap s.visible \cap Accepting(d) :
        \A c \in Greedy \cap Under[at] \cap Accepting(d) : Parent[c] # p}

Drop(s, d, at) ==
    LET told == s.visible \cap Accepting(d)
    IN [s EXCEPT !.over = @ \ told, !.lit = @ \ Takers(s, d, at), !.waiting = @ \ told]

-----------------------------------------------------------------------------
(* The end of a drag.                                                      *)

(* _clear, and the destroy that had to wait for it. *)
Clear(d) ==
    /\ helper' = helper \ {d}
    /\ reverting' = reverting \ {d}
    /\ gone' = gone \cup (destroyOnClear \cap {d})
    /\ destroyOnClear' = destroyOnClear \ {d}

PutsBack(d, dropped) ==
    CASE Revert[d] = "always"  -> TRUE
      [] Revert[d] = "never"   -> FALSE
      [] Revert[d] = "valid"   -> dropped
      [] Revert[d] = "invalid" -> ~dropped

(* _mouseUp and _mouseStop; the manager hears of it even when nothing has  *)
(* been dragged.                                                           *)
MouseUp(d, wasStarted, at, s) ==
    LET prepared == PrepareOffsets(s, d, FALSE)
    IN /\ listener' = Nothing /\ mouseHandled' = FALSE /\ started' = FALSE
       /\ IF ~wasStarted THEN dd' = prepared /\ UNCHANGED drags
          ELSE /\ dd' = Drop(prepared, d, at)
               /\ IF PutsBack(d, Takers(prepared, d, at) # {})
                  THEN /\ reverting' = reverting \cup {d} /\ helper' = helper \cup {d}
                       /\ UNCHANGED <<destroyOnClear, gone>>
                  ELSE Clear(d)

RevertEnds(d) ==
    /\ d \in reverting
    /\ Clear(d)
    /\ UNCHANGED <<droppables, mouse, dd>>

-----------------------------------------------------------------------------
(* The events of the mouse.                                                *)

(* _mouseDown and _mouseCapture: one widget at a time, and none that still *)
(* has a helper.                                                           *)
MouseDown(d) ==
    /\ ~button /\ button' = TRUE
    /\ IF mouseHandled \/ d \in helper \cup gone
       THEN UNCHANGED <<mouseHandled, listener, pressedAt, started, delayMet, timers>>
       ELSE /\ mouseHandled' = TRUE /\ listener' = d /\ pressedAt' = place
            /\ delayMet' = IF d \in Delayed THEN delayMet \ {d} ELSE delayMet \cup {d}
            /\ timers' = timers \cup ({d} \cap Delayed)
            /\ UNCHANGED started
    /\ UNCHANGED <<droppables, place, drags, dd>>

(* A timer of an earlier press counts like one of this press; others may   *)
(* still run.                                                              *)
DelayTimer(d) ==
    /\ d \in timers
    /\ timers' \in {timers, timers \ {d}}
    /\ delayMet' = delayMet \cup {d}
    /\ UNCHANGED <<droppables, place, button, mouseHandled, listener, pressedAt, started, drags, dd>>

(* _mouseStart, if "start" does not refuse it, and the first two calls of  *)
(* _mouseDrag, for the place where the button went down and for this one.  *)
MouseStart(d, to) ==
    \/ /\ started' = TRUE
       /\ helper' = helper \cup {d}
       /\ dd' = Drag(Drag(PrepareOffsets(dd, d, TRUE), d, pressedAt), d, to)
       /\ UNCHANGED <<mouseHandled, listener, reverting, destroyOnClear, gone>>
    \/ MouseUp(d, FALSE, to, dd)

(* _mouseDrag, which "drag" may call off before the manager hears of the   *)
(* new place.  (Where that is over other droppables, those the helper was  *)
(* over stay lit; the page is taken not to call a drag off just there.)    *)
MouseDrag(d, to) ==
    \/ /\ dd' = Drag(dd, d, to)
       /\ UNCHANGED <<mouseHandled, listener, started, drags>>
    \/ Under[to] = Under[place] /\ MouseUp(d, TRUE, to, dd)

(* The mouse moves, if only within the place; it may not have moved when   *)
(* it is back at the point where the button went down.                     *)
MouseMove(to, moved) ==
    /\ place' = to
    /\ (to # pressedAt => moved)
    /\ CASE listener = Nothing -> UNCHANGED <<mouseHandled, listener, started, drags, dd>>
         [] listener # Nothing /\ ~button -> MouseUp(listener, started, place, dd)
         [] listener # Nothing /\ button /\ started -> MouseDrag(listener, to)
         [] OTHER -> IF moved /\ listener \in delayMet THEN MouseStart(listener, to)
                     ELSE UNCHANGED <<mouseHandled, listener, started, drags, dd>>
    /\ UNCHANGED <<droppables, button, pressedAt, delayMet, timers>>

Release ==
    /\ button /\ button' = FALSE
    /\ IF listener # Nothing THEN MouseUp(listener, started, place, dd)
       ELSE mouseHandled' = FALSE /\ UNCHANGED <<listener, started, drags, dd>>
    /\ UNCHANGED <<droppables, place, pressedAt, delayMet, timers>>

(* Out of the window, or in a frame. *)
ReleaseUnseen ==
    /\ button /\ button' = FALSE
    /\ UNCHANGED <<droppables, place, mouseHandled, listener, pressedAt, started, delayMet, timers,
                   drags, dd>>

-----------------------------------------------------------------------------
(* What the page may do at any time.                                       *)

Cancel ==
    /\ started
    /\ MouseUp(listener, TRUE, place, dd)
    /\ UNCHANGED <<droppables, place, button, pressedAt, delayMet, timers>>

Destroy(d) ==
    /\ d \notin gone
    /\ IF d \in helper
       THEN destroyOnClear' = destroyOnClear \cup {d} /\ UNCHANGED <<gone, listener>>
       ELSE /\ gone' = gone \cup {d} /\ UNCHANGED destroyOnClear
            /\ listener' = IF listener = d THEN Nothing ELSE listener
    /\ UNCHANGED <<droppables, place, button, mouseHandled, pressedAt, started, delayMet, timers,
                   helper, reverting, dd>>

DragDropNext ==
    \/ \E d \in Draggable : MouseDown(d) \/ DelayTimer(d) \/ RevertEnds(d) \/ Destroy(d)
    \/ \E to \in Place, moved \in BOOLEAN : MouseMove(to, moved)
    \/ Release \/ ReleaseUnseen \/ Cancel

DragDropSpec == DragDropInit /\ [][DragDropNext]_dragDropVars

-----------------------------------------------------------------------------
(* Properties.                                                             *)

(* A droppable without a greedy one in it is lit only while something is   *)
(* dragged over it; its parent is not lit together with a greedy one; and  *)
(* after the drag none waits for a drop, however the drag ended.  And a    *)
(* draggable whose helper is left, so that it cannot be dragged again, is  *)
(* being put back.                                                         *)
NothingStaysLit ==
    /\ \A p \in dd.lit :
          /\ (\A c \in Greedy : Parent[c] # p) => started /\ p \in Under[place]
          /\ p \in Greedy => Parent[p] \notin dd.lit
    /\ started \/ dd.waiting = {}
    /\ helper = reverting \cup IF started THEN {listener} ELSE {}

=============================================================================
