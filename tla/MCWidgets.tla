------------------------------ MODULE MCWidgets ------------------------------
(* Values for model checking Widgets.  A behaviour looks at one of the     *)
(* widgets, and the others stay as they were made.                         *)
EXTENDS Widgets, TLC

(* The droppable "child" lies in "parent", and "beside" in none. *)
MCUnder == "outside" :> {} @@ "parent" :> {"parent"} @@ "child" :> {"parent", "child"}
              @@ "beside" :> {"beside"}
MCParent == "parent" :> NoElement @@ "child" :> "parent" @@ "beside" :> NoElement
MCAccepted == "parent" :> {"d1", "d2"} @@ "child" :> {"d1"} @@ "beside" :> {"d2"}
MCRevert == "d1" :> "invalid" @@ "d2" :> "valid"

(* A link in an item of a list. *)
MCAround == "list" :> {} @@ "item" :> {"list"} @@ "link" :> {"list", "item"} @@ "other" :> {}

MCInitial == "l1" :> <<"x", "y">> @@ "l2" :> <<"z">>
MCConnectWith == "l1" :> {"l2"} @@ "l2" :> {"l1"}

-----------------------------------------------------------------------------
(* What is not looked at. *)
AnAccordion == inPage = <<"p1", "p2", "p3">> /\ accordionCollapsible = FALSE
SomeTabs == tabsPage = <<"t1", "t2">> /\ collapsible = FALSE
SomeDroppables == droppables = <<"parent", "child", "beside">> /\ place = "outside"
ASlider == min = LowestBound /\ max = HighestBound
ASpinner == number = LowestNumber
SomeDialogs == dialogsFocus = Page

(* What a behaviour looks at. *)
VARIABLE looked

MCInit ==
    /\ looked \in {"accordion", "tabs", "drag and drop",
                   "slider", "spinner", "dialogs", "tooltips", "sortable"}
    /\ (looked = "accordion" \/ AnAccordion) /\ Accordion!AccordionInit
    /\ (looked = "tabs" \/ SomeTabs) /\ Tabs!TabsInit
    /\ (looked = "drag and drop" \/ SomeDroppables) /\ DragDrop!DragDropInit
    /\ (looked = "slider" \/ ASlider) /\ Slider!SliderInit
    /\ (looked = "spinner" \/ ASpinner) /\ Spinner!SpinnerInit
    /\ (looked = "dialogs" \/ SomeDialogs) /\ Dialogs!DialogInit
    /\ Tooltips!TooltipInit /\ Sortable!SortableInit

MCNext ==
    /\ UNCHANGED looked
    /\ IF looked = "accordion" THEN Accordion!AccordionNext ELSE UNCHANGED accordionVars
    /\ IF looked = "tabs" THEN Tabs!TabsNext ELSE UNCHANGED tabsVars
    /\ IF looked = "drag and drop" THEN DragDrop!DragDropNext ELSE UNCHANGED dragAndDropVars
    /\ IF looked = "slider" THEN Slider!SliderNext ELSE UNCHANGED sliderVars
    /\ IF looked = "spinner" THEN Spinner!SpinnerNext ELSE UNCHANGED spinnerVars
    /\ IF looked = "dialogs" THEN Dialogs!DialogNext ELSE UNCHANGED dialogsVars
    /\ IF looked = "tooltips" THEN Tooltips!TooltipNext ELSE UNCHANGED tooltipVars
    /\ IF looked = "sortable" THEN Sortable!SortableNext ELSE UNCHANGED sortableVars

MCVars ==
    <<looked, accordionVars, tabsVars, dragAndDropVars, sliderVars, spinnerVars,
      dialogsVars, tooltipVars, sortableVars>>

MCSpec == MCInit /\ [][MCNext]_MCVars
=============================================================================
