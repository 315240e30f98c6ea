-------------------------------- MODULE Widgets --------------------------------
(***************************************************************************)
(* The widgets of jQuery UI on one page, each for itself: they do not know *)
(* of each other.  Variables and constants have the names that the modules *)
(* of the widgets give them, but where two modules use one name.           *)
(***************************************************************************)
EXTENDS Integers, Sequences, FiniteSets

CONSTANT NoElement    \* no element of the page

-----------------------------------------------------------------------------
CONSTANTS Panel, NoPanel

VARIABLES
    accordionOption, accordionActive, accordionShown, accordionCollapsible,
    inPage, headers, contentActive, tabStops, animation, prevShow, prevHide

accordionVars == <<accordionOption, accordionActive, accordionShown,
    accordionCollapsible, inPage, headers, contentActive, tabStops, animation, prevShow,
    prevHide>>

ASSUME AccordionAssumption == IsFiniteSet(Panel) /\ Panel # {} /\ NoPanel \notin Panel

Accordion == INSTANCE Accordion WITH
    option <- accordionOption, active <- accordionActive,
    shown <- accordionShown, collapsible <- accordionCollapsible

-----------------------------------------------------------------------------
CONSTANTS TabName, NoTab, RemoteTab, RequestId

VARIABLES
    tabsPage, tabs, option, tabsActive, disabled, collapsible, tabsShown, toggle,
    activating, requests, xhr, loading

tabsVars == <<tabsPage, tabs, option, tabsActive, disabled, collapsible, tabsShown,
    toggle, activating, requests, xhr, loading>>

ASSUME TabsAssumption ==
    /\ IsFiniteSet(TabName) /\ TabName # {} /\ NoTab \notin TabName
    /\ RemoteTab \subseteq TabName /\ RequestId # {}

Tabs == INSTANCE Tabs WITH
    Tab <- TabName, Remote <- RemoteTab, Id <- RequestId,
    page <- tabsPage, active <- tabsActive, shown <- tabsShown

-----------------------------------------------------------------------------
CONSTANTS Draggable, Droppable, Spot, Under, Parent, Greedy, Accepted, Delayed, Revert

VARIABLES
    droppables, place, button, mouseHandled, listener, pressedAt, started, delayMet,
    timers, helper, reverting, destroyOnClear, gone, dd

dragAndDropVars == <<droppables, place, button, mouseHandled, listener, pressedAt,
    started, delayMet, timers, helper, reverting, destroyOnClear, gone, dd>>

(* No greedy droppable is around another one, no two are in the same one,  *)
(* and they accept nothing that the one around them does not.              *)
ASSUME DragDropAssumption ==
    /\ IsFiniteSet(Droppable) /\ NoElement \notin Draggable \cup Droppable
    /\ Parent \in [Droppable -> Droppable \cup {NoElement}] /\ Greedy \subseteq Droppable
    /\ \A c \in Greedy :
          /\ Parent[c] \notin Greedy
          /\ Parent[c] # NoElement => /\ Accepted[c] \subseteq Accepted[Parent[c]]
                                      /\ \A b \in Greedy \ {c} : Parent[b] # Parent[c]

DragDrop == INSTANCE DragDrop WITH Place <- Spot, Nothing <- NoElement

-----------------------------------------------------------------------------
CONSTANTS Step, LowestBound, HighestBound

VARIABLES min, max, values, handleIndex, keySliding, focus, lastChangedValue, announced

sliderVars == <<min, max, values, handleIndex, keySliding, focus, lastChangedValue,
    announced>>

ASSUME SliderAssumption ==
    Step \in Nat \ {0} /\ LowestBound \in Int /\ HighestBound \in Int

Slider == INSTANCE Slider WITH Lowest <- LowestBound, Highest <- HighestBound

-----------------------------------------------------------------------------
CONSTANTS LowestNumber, HighestNumber

VARIABLES
    number, previous, saved, spinnerFocused, spinning, timer, wheelTimer, spinnerCancelBlur,
    pressed, direction, held, spinnerTold

spinnerVars == <<number, previous, saved, spinnerFocused, spinning, timer, wheelTimer,
    spinnerCancelBlur, pressed, direction, held, spinnerTold>>

Spinner == INSTANCE Spinner WITH
    Lowest <- LowestNumber, Highest <- HighestNumber,
    value <- number, focused <- spinnerFocused,
    cancelBlur <- spinnerCancelBlur, told <- spinnerTold

-----------------------------------------------------------------------------
CONSTANTS Dialog, Modal, AnimatedDialog, EffectLimit, Page, Nowhere

VARIABLES open, showing, opener, dialogsFocus, instances, overlays, bound, isOpening

dialogsVars == <<open, showing, opener, dialogsFocus, instances, overlays, bound,
    isOpening>>

ASSUME DialogAssumption ==
    Page \notin Dialog /\ Nowhere \notin Dialog /\ Page # Nowhere /\ EffectLimit \in Nat \ {0}

Dialogs == INSTANCE Dialogs WITH Animated <- AnimatedDialog, focus <- dialogsFocus

-----------------------------------------------------------------------------
CONSTANTS Element, Around, Out

VARIABLES mouseOver, focusIn, title, savedTitle, isOpen, tooltips, parents, isDisabled

tooltipVars == <<mouseOver, focusIn, title, savedTitle, isOpen, tooltips, parents,
    isDisabled>>

(* Of some elements around one there is an innermost.                      *)
ASSUME TooltipAssumption ==
    /\ Around \in [Element -> SUBSET Element] /\ Out \notin Element
    /\ \A e \in Element :
          /\ e \notin Around[e]
          /\ \A some \in SUBSET (Around[e] \cup {e}) :
                some # {} => \E inner \in some : some \subseteq Around[inner] \cup {inner}

Tooltips == INSTANCE Tooltips WITH
    over <- mouseOver, focused <- focusIn, shown <- tooltips

-----------------------------------------------------------------------------
CONSTANTS List, ListItem, Initial, ConnectWith, AnimatedList, DropOnEmpty

(* The page is made with each item in one list, at one place.              *)
ASSUME SortableAssumption ==
    /\ List \cap ListItem = {} /\ NoElement \notin List \cup ListItem
    /\ ConnectWith \in [List -> SUBSET List]
    /\ Initial \in [List -> Seq(ListItem)]
    /\ \A x \in ListItem : \E l \in List : \E i \in DOMAIN Initial[l] :
          \A m \in List : \A j \in DOMAIN Initial[m] : Initial[m][j] = x <=> m = l /\ j = i

VARIABLES nodes, phase, drag, over, told, crossed

sortableVars == <<nodes, phase, drag, over, told, crossed>>

Sortable == INSTANCE Sortable WITH
    Item <- ListItem, Animated <- AnimatedList, Nothing <- NoElement

-----------------------------------------------------------------------------
(* The properties of the widgets, whose modules say what they are for.     *)

(* When nothing moves, one panel is displayed, which is the active one and *)
(* the one of the option, or none if that may be; the TAB key reaches some *)
(* header, perhaps more than one.                                          *)
OnePanelIsOpen == Accordion!OnePanelIsOpen

(* One tab is open, once what it needs has come.                           *)
OneTabIsOpen == Tabs!OneTabIsOpen

(* Nothing of a drag stays behind when it is over.                         *)
NothingStaysLit == DragDrop!NothingStaysLit

(* The lower handle stays at or below the upper one.                       *)
RangeIsInOrder == Slider!RangeIsInOrder

(* The page is told of every value that a spin leads to.                   *)
NoSpinIsLost == Spinner!NoSpinIsLost

(* The overlays are counted and the dialogs that may get the focus are     *)
(* known, in whatever order dialogs are closed; so while a modal dialog is *)
(* open, and not just being opened, a focus that comes to the page goes    *)
(* back to a dialog, but for dialogs whose effect has not ended, or had    *)
(* not when they were closed.                                              *)
ModalKeepsFocus == Dialogs!ModalKeepsFocus

(* Every tooltip has an event to come that closes it.                      *)
TooltipIsHeld == Tooltips!TooltipIsHeld

(* The page knows which items its lists hold, in their order.              *)
ListsAreTold == Sortable!ListsAreTold
=============================================================================
