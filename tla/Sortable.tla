------------------------------- MODULE Sortable -------------------------------
(***************************************************************************)
(* jQuery UI's sortable lists, connected with each other.  Only a          *)
(* placeholder moves through the lists while an item is dragged; the item  *)
(* follows when the drag ends, at once or after an animation, during which *)
(* another list's item may be dragged.  The lists whose order has changed  *)
(* are then told "update".  (How the mouse makes a drag is in DragDrop.)   *)
(***************************************************************************)
EXTENDS Integers, Functions, Sublists

CONSTANTS
    List, Item,
    Initial,        \* Initial[list]: its items on the page
    ConnectWith,    \* ConnectWith[list]: the lists its items may be put into
    Animated,       \* the lists with option revert
    DropOnEmpty,    \* those whose items may be put into an empty list
    Nothing

VARIABLES
    nodes,          \* nodes[list]: the items in it and the placeholders, the
                    \* placeholder of a list's drag being written like the list
    phase,          \* phase[list]: "idle", "dragging" or "reverting"
    drag,           \* drag[list]: its drag, or the last one
    over,           \* the lists whose containerCache.over is set
    told,           \* told[list]: its order when the page was last told of it
    crossed         \* an item has been dragged while another was on its way

sortableVars == <<nodes, phase, drag, over, told, crossed>>

Containers(l) == {l} \cup ConnectWith[l]
InList(n, x) == CHOOSE l \in List : x \in Range(n[l])
IsIn(n, x) == \E l \in List : x \in Range(n[l])
Position(s, x) == CHOOSE i \in DOMAIN s : s[i] = x
Prev(n, l, x) ==
    LET i == Position(n[l], x) IN IF i = 1 THEN Nothing ELSE n[l][i - 1]
ItemsOf(s) == OnlyIn(s, Item)

Without(n, x) == [l \in List |-> OnlyIn(n[l], Range(n[l]) \ {x})]
Insert(s, i, x) == SubSeq(s, 1, i) \o <<x>> \o SubSeq(s, i + 1, Len(s))
Before(n, x, y) ==
    LET m == Without(n, x) IN [m EXCEPT ![InList(m, y)] = Insert(@, Position(@, y) - 1, x)]
After(n, x, y) ==
    LET m == Without(n, x) IN [m EXCEPT ![InList(m, y)] = Insert(@, Position(@, y), x)]

SortableInit ==
    /\ nodes = Initial /\ told = Initial
    /\ phase = [l \in List |-> "idle"]
    /\ drag = [l \in List |-> [item |-> Nothing, prev |-> Nothing,
                               items |-> [m \in List |-> {}], currentContainer |-> l]]
    /\ over = {} /\ crossed = FALSE

-----------------------------------------------------------------------------
(* _contactContainers, for a helper over list at or over none.  In a list  *)
(* that it was not in, the placeholder comes beside the nearest of the     *)
(* items known since the press, or to the end if there is none.            *)
ContactContainers(l, n, d, at) ==
    LET near == Range(n[at]) \cap (UNION Range(d.items) \ {d.item})
        Entered == /\ Containers(l) # {l}
                   /\ d.currentContainer # at
                   /\ near # {} \/ l \in DropOnEmpty
    IN IF at \in List /\ Entered
       THEN /\ nodes' \in IF near = {} THEN {[Without(n, l) EXCEPT ![at] = Append(@, l)]}
                         ELSE {Before(n, l, y) : y \in near} \cup {After(n, l, y) : y \in near}
            /\ drag' = [drag EXCEPT ![l] = [d EXCEPT !.currentContainer = at]]
            /\ over' = (over \ Containers(l)) \cup {at}
       ELSE /\ nodes' = n
            /\ drag' = [drag EXCEPT ![l] = d]
            /\ over' = (over \ (Containers(l) \ {at}))
                         \cup (IF Containers(l) = {l} THEN {l} \cap {at} ELSE {})

(* _mouseCapture and _mouseStart, with the drag to the same point.  A list *)
(* whose last item is still on its way is not pressed; a placeholder of    *)
(* another list counts as an item.                                         *)
Start(l, x, at) ==
    /\ phase[l] = "idle" /\ "dragging" \notin Range(phase)
    /\ crossed' = (crossed \/ "reverting" \in Range(phase))
    /\ x \in Range(nodes[l]) \cap Item
    /\ phase' = [phase EXCEPT ![l] = "dragging"]
    /\ ContactContainers(l, After(nodes, l, x),
           [item |-> x, prev |-> Prev(nodes, l, x), currentContainer |-> l,
            items |-> [m \in List |-> IF m \in Containers(l) THEN Range(nodes[m]) ELSE {}]], at)
    /\ UNCHANGED told

(* _mouseDrag: the placeholder may change its place in the list it is in.  *)
Rearranged(l) ==
    LET d == drag[l]
        m == d.currentContainer
        near == (Range(nodes[m]) \cap d.items[m]) \ {d.item}
    IN {nodes} \cup {Before(nodes, l, y) : y \in near} \cup {After(nodes, l, y) : y \in near}

MouseDrag(l, at) ==
    /\ phase[l] = "dragging"
    /\ \E n \in Rearranged(l) : ContactContainers(l, n, drag[l], at)
    /\ UNCHANGED <<phase, told, crossed>>

-----------------------------------------------------------------------------
(* The end of a drag.                                                      *)

(* The element before the item, if that is not itself on its way.          *)
PrevAtRest(n, l, x) ==
    LET p == Prev(n, InList(n, x), x)
    IN IF \E m \in List \ {l} : phase[m] # "idle" /\ drag[m].item = p THEN Nothing ELSE p

(* Mutant of HasMoved: the list is not compared. *)
HasMovedInList(l, n) == PrevAtRest(n, l, drag[l].item) # drag[l].prev

HasMoved(l, n) ==
    \/ PrevAtRest(n, l, drag[l].item) # drag[l].prev
    \/ InList(n, drag[l].item) # l

(* _clear: the item comes to the placeholder, and those that hear of it.   *)
Sorted(l) == Before(nodes, drag[l].item, l)
Updated(l) ==
    {m \in {l} : HasMoved(l, Sorted(l))} \cup {m \in {drag[l].currentContainer} : m # l}

(* The drag as it is kept for a later cancel. *)
Over(l) ==
    [drag EXCEPT ![l].items = [m \in List |-> {}], ![l].currentContainer = l]

Clear(l) ==
    /\ nodes' = Without(Sorted(l), l)
    /\ told' = [m \in List |-> IF m \in Updated(l) THEN ItemsOf(Sorted(l)[m]) ELSE told[m]]
    /\ drag' = Over(l)
    /\ over' = over \ Containers(l)
    /\ phase' = [phase EXCEPT ![l] = "idle"]
    /\ UNCHANGED crossed

Stop(l) ==
    /\ phase[l] = "dragging"
    /\ IF l \in Animated THEN /\ phase' = [phase EXCEPT ![l] = "reverting"]
                              /\ UNCHANGED <<nodes, drag, over, told, crossed>>
       ELSE Clear(l)

AnimationEnds(l) == phase[l] = "reverting" /\ Clear(l)

(* cancel, during a drag or after it: the item goes after the element that *)
(* it was after, if that is still on the page, or to the front.  During a  *)
(* drag the lists have been told "update" before, so the page is taken to  *)
(* read them again; with an animation it is taken not to cancel, whose end *)
(* would come for a drag that is over.  (After a drag: in "stop".)          *)
Cancel(l) ==
    LET d == drag[l]
        n == IF phase[l] = "idle" THEN nodes ELSE Without(Sorted(l), l)
    IN /\ d.item # Nothing
       /\ \/ phase[l] = "dragging" /\ l \notin Animated
          \/ \A m \in List : phase[m] = "idle"
       /\ nodes' = CASE d.prev = Nothing -> [Without(n, d.item) EXCEPT ![l] = <<d.item>> \o @]
                     [] IsIn(n, d.prev)  -> After(n, d.item, d.prev)
                     [] OTHER            -> n
       /\ told' = [m \in List |-> ItemsOf(nodes'[m])]
       /\ drag' = Over(l)
       /\ over' = IF phase[l] = "idle" THEN over ELSE over \ Containers(l)
       /\ phase' = [phase EXCEPT ![l] = "idle"]
       /\ UNCHANGED crossed

SortableNext ==
    \E l \in List :
        \/ \E at \in Containers(l) \cup {Nothing} :
              MouseDrag(l, at) \/ \E x \in Item : Start(l, x, at)
        \/ Stop(l) \/ AnimationEnds(l) \/ Cancel(l)

SortableSpec == SortableInit /\ [][SortableNext]_sortableVars

-----------------------------------------------------------------------------
(* Properties.                                                             *)

(* Even when an item is dragged while another is still on its way, the     *)
(* lists together hold each item once, the page has been told which items  *)
(* each list holds, a placeholder is in the lists only while its drag      *)
(* lasts, and no list thinks that an item is over it when none is dragged. *)
(* The page has also been told of their order, if no two drags crossed: an *)
(* item put between another and where that will come is not seen by the    *)
(* test for the "update".                                                  *)
ListsAreTold ==
    /\ \A x \in Item : \E l \in List :
          /\ Len(OnlyIn(nodes[l], {x})) = 1
          /\ \A m \in List \ {l} : x \notin Range(nodes[m])
    /\ \A l \in List : /\ Range(told[l]) = Range(ItemsOf(nodes[l]))
                       /\ crossed \/ told[l] = ItemsOf(nodes[l])
    /\ \A l \in List : IsIn(nodes, l) = (phase[l] # "idle")
    /\ (\A l \in List : phase[l] = "idle") => over = {}

=============================================================================
