---------------------------- MODULE ControlsProofs -----------------------------
(***************************************************************************)
(* The controls of the pages: the toolbar, the search box and the filters, *)
(* and the widgets of jQuery UI, each with proofs of its own.              *)
(***************************************************************************)
EXTENDS SearchBox, PageFilters, Widgets, FoldTheorems, FiniteSetTheorems

-----------------------------------------------------------------------------
(***************************************************************************)
(* The toolbar can always be brought back, whatever the height of the page *)
(* and the difference that counts for nothing.                             *)
(***************************************************************************)

ToolbarTypeOK ==
    /\ scrollTop \in 0 .. MaxScroll /\ lastScrollTop \in 0 .. MaxScroll
    /\ didScroll \in BOOLEAN /\ shown \in BOOLEAN

(* Where the page was last looked at is near to where it stands, unless    *)
(* the interval has something to look at; and a toolbar that is hidden was *)
(* hidden so far down that the way to the top is more than a small         *)
(* difference.  Both are needed: near the top, and noticed there.          *)
ToolbarInv ==
    /\ ToolbarTypeOK
    /\ ~didScroll => Difference <= Delta
    /\ ~shown => lastScrollTop > Delta

(* The invariant holds in every reachable state of the toolbar.            *)
THEOREM ToolbarInvariant == ToolbarSpec => []ToolbarInv
<1>1. ToolbarInit => ToolbarInv
  <2> SUFFICES ASSUME ToolbarInit PROVE ToolbarInv
      OBVIOUS
  <2>1. scrollTop = 0 /\ lastScrollTop = 0 /\ didScroll = FALSE /\ shown = TRUE
      BY DEF ToolbarInit
  <2>2. 0 \in 0 .. MaxScroll /\ 0 <= Delta
      BY ToolbarAssumption
  <2>3. Difference = 0
      BY <2>1 DEF Difference
  <2> QED BY <2>1, <2>2, <2>3 DEF ToolbarInv, ToolbarTypeOK
<1>2. ToolbarInv /\ [ToolbarNext]_toolbarVars => ToolbarInv'
  <2> SUFFICES ASSUME ToolbarInv, [ToolbarNext]_toolbarVars PROVE ToolbarInv'
      OBVIOUS
  <2> USE ToolbarAssumption DEF ToolbarInv, ToolbarTypeOK, Difference
  <2>1. CASE \E to \in 0 .. MaxScroll : Scroll(to)
      BY <2>1 DEF Scroll
  <2>2. CASE Interval
    <3>1. CASE Difference <= Delta
        BY <2>2, <3>1 DEF Interval, HasScrolled
    <3>2. CASE ~(Difference <= Delta)
      <4>1. /\ scrollTop' = scrollTop /\ lastScrollTop' = scrollTop
            /\ shown' = (scrollTop <= lastScrollTop) /\ didScroll' = FALSE
          BY <2>2, <3>2 DEF Interval, HasScrolled
      <4>2. scrollTop > lastScrollTop => scrollTop > Delta
          BY <3>2
      <4>3. Difference' <= Delta
          BY <4>1
      <4>4. ~shown' => lastScrollTop' > Delta
        <5>1. CASE scrollTop <= lastScrollTop
            BY <4>1, <5>1
        <5>2. CASE scrollTop > lastScrollTop
            BY <4>1, <4>2, <5>2
        <5> QED BY <5>1, <5>2
      <4>5. ToolbarTypeOK'
        <5>1. scrollTop' \in 0 .. MaxScroll /\ lastScrollTop' \in 0 .. MaxScroll
            BY <4>1
        <5>2. shown' \in BOOLEAN
          <6>1. CASE scrollTop <= lastScrollTop
              BY <4>1, <6>1
          <6>2. CASE ~(scrollTop <= lastScrollTop)
              BY <4>1, <6>2
          <6> QED BY <6>1, <6>2
        <5> QED BY <4>1, <5>1, <5>2
      <4> QED BY <4>3, <4>4, <4>5
    <3> QED BY <3>1, <3>2
  <2>3. CASE UNCHANGED toolbarVars
      BY <2>3 DEF toolbarVars
  <2> QED BY <2>1, <2>2, <2>3 DEF ToolbarNext
<1> QED BY <1>1, <1>2, PTL DEF ToolbarSpec

(* hasScrolled() and its interval: once the scrolling has been noticed,    *)
(* the toolbar is there at the top of the page, for pages of every height  *)
(* and every delta.                                                        *)
THEOREM ToolbarComesBack == ToolbarSpec => []ToolbarIsThereAtTheTop
<1>1. ToolbarInv => ToolbarIsThereAtTheTop
    BY ToolbarAssumption
    DEF ToolbarInv, ToolbarTypeOK, ToolbarIsThereAtTheTop, Difference
<1> QED BY <1>1, ToolbarInvariant, PTL

-----------------------------------------------------------------------------
(***************************************************************************)
(* The menu of the search box has the suggestions for what was searched    *)
(* for last, and what is typed last gets searched for: for all texts, all  *)
(* answers and any number of handlers that wait for the mouse.             *)
(***************************************************************************)

Question == Text \ {Empty}
ItemInUse == 1 .. Len(items) \cup {Gone}

BoxTypeOK ==
    /\ value \in Text /\ term \in Text \cup {None}
    /\ searching \in {"none", "plain", "modifier"}
    /\ request \in Question \cup {None}
    /\ cancelSearch \in BOOLEAN /\ visible \in BOOLEAN /\ calm \in BOOLEAN
    /\ items \in Seq(Item)
    /\ active \in {0} \cup ItemInUse
    /\ armed \in Seq(ItemInUse)

(* A search that has not been called off is the last one, and a menu is    *)
(* only seen while that is so.                                             *)
LastSearchCounts ==
    /\ request # None /\ ~cancelSearch => request = term
    /\ visible => items # <<>> /\ term \in Text /\ ~cancelSearch
    /\ visible /\ request = None => term # Empty /\ items = Answer[term]

(* What was typed last waits for the timer, for the answer, or for nothing *)
(* any more.                                                               *)
TypedIsOnItsWay ==
    calm =>
        /\ searching # "modifier"
        /\ searching = "none" =>
            /\ term = value
            /\ value = Empty => ~visible /\ (request = None \/ cancelSearch)
            /\ value # Empty =>
                \/ request = value /\ ~cancelSearch
                \/ request = None /\ (visible <=> Answer[value] # <<>>)

BoxInv == BoxTypeOK /\ LastSearchCounts /\ TypedIsOnItsWay

-----------------------------------------------------------------------------

(* The arrows and the page keys lead to an item of the menu.               *)
LEMMA TargetIsAnItem ==
    ASSUME items \in Seq(Item), items # <<>>, active \in {0} \cup ItemInUse,
           NEW key \in {"up", "down", "pageUp", "pageDown"},
           ~((key \in {"up", "pageUp"} /\ AtTop) \/ (key \in {"down", "pageDown"} /\ AtEnd)),
           active # Gone
    PROVE  Target(key) \in 1 .. Len(items)
<1>1. Len(items) \in Nat /\ Len(items) > 0
    OBVIOUS
<1>2. active \in 0 .. Len(items)
    BY <1>1 DEF ItemInUse
<1>3. CASE key = "down"
    BY <1>1, <1>2, <1>3 DEF AtEnd, Target
<1>4. CASE key = "up"
    BY <1>1, <1>2, <1>4 DEF AtTop, Target
<1>5. CASE key = "pageDown"
    BY <1>1, <1>5 DEF Target
<1>6. CASE key = "pageUp"
    BY <1>1, <1>6 DEF Target
<1> QED BY <1>3, <1>4, <1>5, <1>6

(* A question has an answer that a menu can be made of.                    *)
LEMMA ItemsHaveTexts ==
    ASSUME NEW i \in 1 .. Len(items), items \in Seq(Item)
    PROVE  ValueOf[items[i]] \in Question
<1>1. items[i] \in Item
    OBVIOUS
<1> QED BY <1>1, SearchBoxAssumption DEF Question

(* What the menu does when it is closed, and what a search does.           *)
LEMMA HideKeeps ==
    ASSUME BoxTypeOK, Hide
    PROVE  /\ ~visible' /\ items' = items /\ armed' = armed
           /\ visible' \in BOOLEAN /\ active' \in {0} \cup ItemInUse
BY DEF BoxTypeOK, Hide, MenuBlur

LEMMA SearchKeeps ==
    ASSUME BoxTypeOK, LastSearchCounts, Search,
           UNCHANGED <<value, searching, calm>> \/ (searching' = "none" /\ UNCHANGED <<value, calm>>),
           searching' # "modifier" \/ ~calm
    PROVE  BoxInv'
<1> USE SearchBoxAssumption
<1>1. CASE value = Empty
  <2>1. Hide /\ cancelSearch' = TRUE /\ term' = value /\ request' = request
      BY <1>1 DEF Search, Close
  <2>2. BoxTypeOK'
      BY <2>1, HideKeeps DEF BoxTypeOK, ItemInUse
  <2>3. LastSearchCounts' /\ TypedIsOnItsWay'
      BY <1>1, <2>1, HideKeeps DEF LastSearchCounts, TypedIsOnItsWay, BoxTypeOK
  <2> QED BY <2>2, <2>3 DEF BoxInv
<1>2. CASE value # Empty
  <2>1. /\ term' = value /\ request' = value /\ cancelSearch' = FALSE
        /\ UNCHANGED menu
      BY <1>2 DEF Search, Ask
  <2>2. BoxTypeOK'
      BY <1>2, <2>1 DEF BoxTypeOK, ItemInUse, Question, menu
  <2>3. LastSearchCounts'
      BY <1>2, <2>1 DEF LastSearchCounts, BoxTypeOK, menu
  <2>4. TypedIsOnItsWay'
      BY <1>2, <2>1 DEF TypedIsOnItsWay, BoxTypeOK
  <2> QED BY <2>2, <2>3, <2>4 DEF BoxInv
<1> QED BY <1>1, <1>2

(* The item in use is chosen.                                              *)
LEMMA SelectKeeps ==
    ASSUME BoxTypeOK, LastSearchCounts, NEW item \in ItemInUse, Select(item),
           request' = request, searching' \in {"none", "plain", "modifier"}, calm' = FALSE
    PROVE  BoxInv'
<1> USE SearchBoxAssumption
<1>1. CASE item = Gone
  <2>1. /\ text' = text
        /\ UNCHANGED <<cancelSearch, visible, items, active, armed>>
      BY <1>1 DEF Select, text
  <2> QED BY <2>1 DEF BoxInv, BoxTypeOK, LastSearchCounts, TypedIsOnItsWay, text, ItemInUse
<1>2. CASE item # Gone
  <2>1. item \in 1 .. Len(items)
      BY <1>2 DEF ItemInUse
  <2>2. ValueOf[items[item]] \in Question
      BY <2>1, ItemsHaveTexts DEF BoxTypeOK
  <2>3. /\ value' = ValueOf[items[item]] /\ term' = ValueOf[items[item]]
        /\ cancelSearch' = TRUE /\ visible' = FALSE
        /\ active' \in {0, item}
        /\ UNCHANGED <<items, armed>>
      BY <1>2 DEF Select
  <2>4. BoxTypeOK'
      BY <2>1, <2>2, <2>3 DEF BoxTypeOK, ItemInUse, Question
  <2> QED BY <2>3, <2>4 DEF BoxInv, LastSearchCounts, TypedIsOnItsWay
<1> QED BY <1>1, <1>2

(* The box is closed by something that is not typing.                      *)
LEMMA CloseKeeps ==
    ASSUME BoxTypeOK, LastSearchCounts, Close, term' = term, value' \in Text,
           request' = request, searching' \in {"none", "plain", "modifier"}, calm' = FALSE
    PROVE  BoxInv'
<1>1. Hide /\ cancelSearch' = TRUE
    BY DEF Close
<1>2. BoxTypeOK'
    BY <1>1, HideKeeps DEF BoxTypeOK, ItemInUse
<1> QED BY <1>1, <1>2, HideKeeps DEF BoxInv, LastSearchCounts, TypedIsOnItsWay

(* The menu is used, or a timer stops: neither the text nor the search nor *)
(* what the menu holds is changed.                                         *)
LEMMA PointingKeeps ==
    ASSUME BoxInv, UNCHANGED <<text, request, cancelSearch, visible, items>>,
           active' \in {0} \cup ItemInUse, armed' \in Seq(ItemInUse),
           UNCHANGED <<searching, calm>> \/
              (searching' \in {"none", "plain", "modifier"} /\ calm' = FALSE)
    PROVE  BoxInv'
<1>1. BoxTypeOK'
    BY DEF BoxInv, BoxTypeOK, ItemInUse, text
<1> QED BY <1>1 DEF BoxInv, BoxTypeOK, LastSearchCounts, TypedIsOnItsWay, text

(* The answer comes, or none does.                                         *)
LEMMA BoxAnsweredKeeps ==
    ASSUME BoxInv, Answered PROVE BoxInv'
<1> USE SearchBoxAssumption
<1>1. /\ request \in Question /\ request' = None
      /\ UNCHANGED <<value, term, searching, cancelSearch>>
    BY DEF Answered, BoxInv, BoxTypeOK, text
<1>2. Answer[request] \in Seq(Item)
    BY <1>1 DEF Question
<1>3. CASE Suggest(Answer[request]) /\ Answer[request] # <<>> /\ ~cancelSearch /\ calm' = calm
  <2>1. /\ items' = Answer[request] /\ visible' = TRUE /\ active' = 0
        /\ armed' = [k \in DOMAIN armed |-> Gone]
      BY <1>3 DEF Suggest
  <2>2. request = term
      BY <1>1, <1>3 DEF BoxInv, LastSearchCounts, Question
  <2>3. armed' \in Seq(ItemInUse')
    <3>1. armed' \in [1 .. Len(armed) -> {Gone}] /\ Len(armed) \in Nat
        BY <2>1 DEF BoxInv, BoxTypeOK
    <3> QED BY <3>1 DEF ItemInUse
  <2>4. BoxTypeOK'
      BY <1>1, <1>2, <1>3, <2>1, <2>3 DEF BoxInv, BoxTypeOK
  <2>5. LastSearchCounts'
      BY <1>1, <1>3, <2>1, <2>2 DEF LastSearchCounts, Question
  <2>6. TypedIsOnItsWay'
      BY <1>1, <1>3, <2>1, <2>2 DEF BoxInv, TypedIsOnItsWay, Question
  <2> QED BY <2>4, <2>5, <2>6 DEF BoxInv
<1>4. CASE Hide /\ (calm' = FALSE \/ (calm' = calm /\ (Answer[request] = <<>> \/ cancelSearch)))
  <2>1. BoxTypeOK'
      BY <1>1, <1>4, HideKeeps DEF BoxInv, BoxTypeOK, ItemInUse
  <2>2. LastSearchCounts'
      BY <1>1, <1>4, HideKeeps DEF BoxInv, LastSearchCounts
  <2>3. TypedIsOnItsWay'
      BY <1>1, <1>4, HideKeeps DEF BoxInv, TypedIsOnItsWay, Question
  <2> QED BY <2>1, <2>2, <2>3 DEF BoxInv
<1> QED BY <1>3, <1>4 DEF Answered, Response

(* The timer of 300 ms.                                                    *)
LEMMA TimerKeeps ==
    ASSUME BoxInv, SearchTimer PROVE BoxInv'
<1>1. /\ searching # "none" /\ searching' = "none"
      /\ UNCHANGED <<value, calm>>
    BY DEF SearchTimer
<1>2. CASE Search
    BY <1>1, <1>2, SearchKeeps DEF BoxInv
<1>3. CASE /\ value = term /\ (visible \/ searching # "plain")
           /\ UNCHANGED <<term, request, cancelSearch, menu>>
  <2>1. BoxTypeOK'
      BY <1>1, <1>3 DEF BoxInv, BoxTypeOK, menu, ItemInUse
  <2>2. LastSearchCounts'
      BY <1>1, <1>3 DEF BoxInv, LastSearchCounts, menu
  <2>3. TypedIsOnItsWay'
    <3>1. calm => searching = "plain" /\ visible
        BY <1>1, <1>3 DEF BoxInv, BoxTypeOK, TypedIsOnItsWay
    <3>2. visible => value # Empty /\ (request # None => request = value /\ ~cancelSearch)
        BY <1>3 DEF BoxInv, BoxTypeOK, LastSearchCounts, Question
    <3>3. visible /\ request = None => Answer[value] # <<>>
        BY <1>3 DEF BoxInv, LastSearchCounts
    <3> QED BY <1>1, <1>3, <3>1, <3>2, <3>3 DEF TypedIsOnItsWay, menu
  <2> QED BY <2>1, <2>2, <2>3 DEF BoxInv
<1> QED BY <1>2, <1>3 DEF SearchTimer

(* The keys that move through the menu.                                    *)
LEMMA MoveKeeps ==
    ASSUME BoxInv, NEW key \in {"up", "down", "pageUp", "pageDown"}, Move(key)
    PROVE  BoxInv'
<1> USE SearchBoxAssumption
<1>1. UNCHANGED searching
    BY DEF Move
<1>2. CASE ~visible /\ Search /\ UNCHANGED <<value, calm>>
    BY <1>1, <1>2, SearchKeeps DEF BoxInv, TypedIsOnItsWay, BoxTypeOK
<1>3. CASE visible /\ calm' = FALSE /\ UNCHANGED <<term, request, cancelSearch, visible, items, armed>>
           /\ value' \in Text /\ active' \in {0} \cup ItemInUse
  <2>1. BoxTypeOK'
      BY <1>1, <1>3 DEF BoxInv, BoxTypeOK, ItemInUse
  <2> QED BY <1>3, <2>1 DEF BoxInv, LastSearchCounts, TypedIsOnItsWay
<1>4. ASSUME visible
      PROVE  /\ calm' = FALSE /\ UNCHANGED <<term, request, cancelSearch, visible, items, armed>>
             /\ value' \in Text /\ active' \in {0} \cup ItemInUse
  <2>1. calm' = FALSE /\ UNCHANGED <<term, request, cancelSearch>>
      BY <1>4 DEF Move
  <2>2. term \in Text /\ value \in Text /\ items \in Seq(Item) /\ items # <<>>
        /\ active \in {0} \cup ItemInUse
      BY <1>4 DEF BoxInv, LastSearchCounts, BoxTypeOK
  <2>3. CASE (key \in {"up", "pageUp"} /\ AtTop) \/ (key \in {"down", "pageDown"} /\ AtEnd)
    <3>1. value' = term /\ MenuBlur /\ UNCHANGED <<visible, items, armed>>
        BY <1>4, <2>3 DEF Move
    <3> QED BY <2>1, <2>2, <3>1 DEF MenuBlur
  <2>4. CASE ~((key \in {"up", "pageUp"} /\ AtTop) \/ (key \in {"down", "pageDown"} /\ AtEnd))
    <3>1. FocusByKey(key)
        BY <1>4, <2>4 DEF Move
    <3>2. active # Gone
        BY <2>4 DEF AtTop, AtEnd
    <3>3. Target(key) \in 1 .. Len(items)
        BY <2>2, <2>4, <3>2, TargetIsAnItem
    <3>4. ValueOf[items[Target(key)]] \in Text
        BY <2>2, <3>3, ItemsHaveTexts DEF Question
    <3> QED BY <2>1, <2>2, <3>1, <3>3, <3>4 DEF FocusByKey, ItemInUse
  <2> QED BY <2>3, <2>4
<1> QED BY <1>2, <1>3, <1>4 DEF Move

(* The mouse over the menu.                                                *)
LEMMA HoverKeeps ==
    ASSUME BoxInv, NEW i \in DOMAIN items, Hover(i) PROVE BoxInv'
<1>1. i \in ItemInUse
    BY DEF BoxInv, BoxTypeOK, ItemInUse
<1>2. active' \in {0} \cup ItemInUse /\ armed' \in Seq(ItemInUse)
    BY <1>1 DEF Hover, BoxInv, BoxTypeOK
<1>3. UNCHANGED <<text, request, cancelSearch, visible, items, searching, calm>>
    BY DEF Hover, search
<1> QED BY <1>2, <1>3, PointingKeeps

LEMMA MouseMoveKeeps ==
    ASSUME BoxInv, MouseMove PROVE BoxInv'
<1> DEFINE again == IF isNewMenu THEN <<Head(armed)>> ELSE <<>>
           due == IF isNewMenu THEN Tail(armed) ELSE armed
<1>1. armed \in Seq(ItemInUse) /\ armed # <<>>
    BY DEF MouseMove, BoxInv, BoxTypeOK
<1>2. due \in Seq(ItemInUse) /\ again \in Seq(ItemInUse)
    BY <1>1
<1>3. PICK last \in 0 .. Len(due) :
          /\ active' = IF last = 0 THEN 0 ELSE due[last]
          /\ armed' = again \o SubSeq(due, last + 1, Len(due))
    BY DEF MouseMove
<1> HIDE DEF again, due
<1>4. active' \in {0} \cup ItemInUse
    BY <1>2, <1>3
<1>5. SubSeq(due, last + 1, Len(due)) \in Seq(ItemInUse)
    BY <1>2, <1>3
<1>6. armed' \in Seq(ItemInUse)
    BY <1>2, <1>3, <1>5
<1>7. UNCHANGED <<text, request, cancelSearch, visible, items, searching, calm>>
    BY DEF MouseMove, search
<1> QED BY <1>4, <1>6, <1>7, PointingKeeps

-----------------------------------------------------------------------------

(* Every step of the user, the browser and the server keeps the invariant. *)
LEMMA BoxNextKeepsInv ==
    ASSUME BoxInv, [SearchBoxNext]_searchBoxVars PROVE BoxInv'
<1> USE SearchBoxAssumption
<1>0. /\ BoxTypeOK /\ LastSearchCounts
      /\ active \in {0} \cup ItemInUse /\ armed \in Seq(ItemInUse)
    BY DEF BoxInv, BoxTypeOK
<1>1. ASSUME NEW v \in Text, Type(v) PROVE BoxInv'
  <2>1. BoxTypeOK'
      BY <1>0, <1>1 DEF Type, BoxTypeOK, menu, ItemInUse
  <2> QED BY <1>0, <1>1, <2>1 DEF Type, BoxInv, LastSearchCounts, TypedIsOnItsWay, menu
<1>2. ASSUME NEW modifier \in BOOLEAN, PressOther(modifier) PROVE BoxInv'
  <2>1. BoxTypeOK'
      BY <1>0, <1>2 DEF PressOther, BoxTypeOK, menu, text, ItemInUse
  <2> QED BY <1>0, <1>2, <2>1
          DEF PressOther, BoxInv, LastSearchCounts, TypedIsOnItsWay, menu, text
<1>3. ASSUME NEW key \in {"up", "down", "pageUp", "pageDown"}, Move(key) PROVE BoxInv'
    BY <1>3, MoveKeeps
<1>4. CASE Enter
  <2>1. CASE active = 0
      BY <1>4, <2>1, <1>0, PointingKeeps DEF Enter, text, menu, BoxTypeOK
  <2>2. CASE active # 0
      BY <1>4, <2>2, <1>0, SelectKeeps DEF Enter, BoxTypeOK
  <2> QED BY <2>1, <2>2
<1>5. CASE Tab
  <2>1. searching' \in {"none", "plain", "modifier"}
      BY <1>0, <1>5 DEF Tab, StopSearching, BoxTypeOK
  <2> QED BY <1>5, <1>0, <2>1, SelectKeeps DEF Tab
<1>6. CASE Escape
    BY <1>6, <1>0, CloseKeeps DEF Escape, BoxTypeOK, LastSearchCounts
<1>7. CASE Focus
    BY <1>7, <1>0, PointingKeeps DEF Focus, search, menu
<1>8. CASE Blur
  <2>1. searching' \in {"none", "plain", "modifier"} /\ calm' = FALSE
        /\ UNCHANGED <<text, request>>
      BY <1>0, <1>8 DEF Blur, StopSearching, BoxTypeOK
  <2>2. CASE cancelBlur
      BY <1>8, <2>1, <2>2, <1>0, PointingKeeps DEF Blur, menu
  <2>3. CASE ~cancelBlur
      BY <1>8, <2>1, <2>3, <1>0, CloseKeeps DEF Blur, text, BoxTypeOK
  <2> QED BY <2>2, <2>3
<1>9. ASSUME NEW i \in DOMAIN items, Hover(i) PROVE BoxInv'
    BY <1>9, HoverKeeps
<1>10. CASE MouseMove
    BY <1>10, MouseMoveKeeps
<1>11. CASE LeaveMenu
    BY <1>11, <1>0, PointingKeeps DEF LeaveMenu, search
<1>12. CASE LeaveTimer
    BY <1>12, <1>0, PointingKeeps DEF LeaveTimer, MenuBlur, search
<1>13. CASE MouseDownOnMenu \/ AfterMouseDown
    BY <1>13, <1>0, PointingKeeps DEF MouseDownOnMenu, AfterMouseDown, search, menu
<1>14. CASE MouseDownOutside
    BY <1>14, <1>0, CloseKeeps DEF MouseDownOutside, text, BoxTypeOK
<1>15. ASSUME NEW i \in DOMAIN items, Click(i) PROVE BoxInv'
  <2>1. (IF active = 0 THEN i ELSE active) \in ItemInUse
      BY <1>0, <1>15 DEF ItemInUse, BoxTypeOK
  <2> QED BY <1>15, <1>0, <2>1, SelectKeeps DEF Click, BoxTypeOK
<1>16. CASE SearchTimer
    BY <1>16, TimerKeeps
<1>17. CASE Answered
    BY <1>17, BoxAnsweredKeeps
<1>18. CASE Return
  <2>1. /\ value' = Empty /\ term' = None /\ searching' = "none" /\ request' = None
        /\ cancelSearch' = FALSE /\ visible' = FALSE /\ items' = <<>>
        /\ active' = 0 /\ armed' = <<>> /\ calm' = FALSE
      BY <1>18 DEF Return
  <2>2. <<>> \in Seq(Item) /\ <<>> \in Seq(ItemInUse')
      OBVIOUS
  <2>3. BoxTypeOK'
      BY <2>1, <2>2 DEF BoxTypeOK
  <2> QED BY <2>1, <2>3 DEF BoxInv, LastSearchCounts, TypedIsOnItsWay
<1>19. CASE UNCHANGED searchBoxVars
    BY <1>19, <1>0, PointingKeeps DEF searchBoxVars, search, menu
<1> QED BY <1>1, <1>2, <1>3, <1>4, <1>5, <1>6, <1>7, <1>8, <1>9, <1>10, <1>11, <1>12, <1>13,
           <1>14, <1>15, <1>16, <1>17, <1>18, <1>19 DEF SearchBoxNext, Keyboard, Mouse

(* The invariant holds in every reachable state of the search box.         *)
THEOREM SearchBoxInvariant == SearchBoxSpec => []BoxInv
<1>1. SearchBoxInit => BoxInv
  <2> SUFFICES ASSUME SearchBoxInit PROVE BoxInv
      OBVIOUS
  <2>1. /\ value = Empty /\ term = None /\ searching = "none" /\ request = None
        /\ cancelSearch = FALSE /\ visible = FALSE /\ items = <<>>
        /\ active = 0 /\ armed = <<>> /\ calm = FALSE
      BY DEF SearchBoxInit
  <2>2. <<>> \in Seq(Item) /\ <<>> \in Seq(ItemInUse)
      OBVIOUS
  <2>3. BoxTypeOK
      BY <2>1, <2>2, SearchBoxAssumption DEF BoxTypeOK
  <2> QED BY <2>1, <2>3 DEF BoxInv, LastSearchCounts, TypedIsOnItsWay
<1>2. BoxInv /\ [SearchBoxNext]_searchBoxVars => BoxInv'
    BY BoxNextKeepsInv
<1> QED BY <1>1, <1>2, PTL DEF SearchBoxSpec

(* _search, __response and _close of the autocomplete widget: a menu that  *)
(* can be seen has the suggestions for the text that was searched for      *)
(* last, however late answers come.                                        *)
THEOREM MenuCorrect == SearchBoxSpec => []MenuAnswersTheTerm
<1>1. BoxInv => MenuAnswersTheTerm
    BY DEF BoxInv, LastSearchCounts, MenuAnswersTheTerm, Suggestions
<1> QED BY <1>1, SearchBoxInvariant, PTL

(* _searchTimeout and _search: what is typed last is suggested for, once   *)
(* the timer and the answer are through.                                   *)
THEOREM TypingCorrect == SearchBoxSpec => []TypedIsSuggested
<1>1. BoxInv => TypedIsSuggested
  <2> SUFFICES ASSUME BoxInv, calm, searching = "none", request = None
               PROVE  /\ term = value
                      /\ visible <=> Suggestions(value) # <<>>
                      /\ visible => items = Suggestions(value)
      BY DEF TypedIsSuggested
  <2>1. term = value
      BY DEF BoxInv, TypedIsOnItsWay
  <2>2. CASE value = Empty
      BY <2>1, <2>2 DEF BoxInv, TypedIsOnItsWay, Suggestions
  <2>3. CASE value # Empty
    <3>1. request # value
        BY SearchBoxAssumption DEF BoxInv, BoxTypeOK
    <3>2. visible <=> Answer[value] # <<>>
        BY <2>3, <3>1 DEF BoxInv, TypedIsOnItsWay
    <3>3. visible => items = Answer[value]
        BY <2>1 DEF BoxInv, LastSearchCounts
    <3> QED BY <2>1, <2>3, <3>2, <3>3 DEF Suggestions
  <2> QED BY <2>2, <2>3
<1> QED BY <1>1, SearchBoxInvariant, PTL

-----------------------------------------------------------------------------
(***************************************************************************)
(* The controls of the front page show the filters by which it asks, for   *)
(* any filters and any length of the history.                              *)
(***************************************************************************)

Setting == (UNION {Offered(t) : t \in FilterType}) \cup {Absent}
Filters == [FilterType -> Setting]

PageTypeOK ==
    /\ params \in Filters /\ filters \in Filters /\ cookie \in Filters
    /\ entries \in Seq(Filters) /\ at \in 1 .. Len(entries)
    /\ controls \in [FilterType -> Setting]
    /\ waiting \in Nat

(* The address and the parameters are the same, but before onload has put  *)
(* into the address what it took from the cookie; and what nobody has      *)
(* asked for is not in the controls, of which that is all that can be said *)
(* as long as they have no options.                                        *)
PageInv ==
    /\ PageTypeOK
    /\ ready \/ filters = NoFilters => params = address
    /\ waiting = 0 /\ sound =>
        \A t \in FilterType :
            /\ params[t] = Absent => controls[t] = Nothing
            /\ ready /\ params[t] # Absent => controls[t] = params[t]

-----------------------------------------------------------------------------

LEMMA ParamsAreFilters == Params \subseteq Filters
BY DEF Params, Filters, Setting

LEMMA NoFiltersIsOne == NoFilters \in Filters
BY DEF NoFilters, Filters, Setting

(* What a control offers can be set in the address.                        *)
LEMMA SettingOfAChoice ==
    ASSUME NEW t \in FilterType, NEW choice \in Offered(t), NEW p \in Filters
    PROVE  /\ choice \in Setting /\ choice # Absent
           /\ [p EXCEPT ![t] = choice] \in Filters
<1>1. choice \in Setting /\ choice # Absent
    BY PageFiltersAssumption DEF Setting
<1> QED BY <1>1 DEF Filters

(* An address that is pushed is the present one.                           *)
LEMMA PushedIsThere ==
    ASSUME PageTypeOK, NEW p \in Filters, Push(p)
    PROVE  entries' \in Seq(Filters) /\ at' \in 1 .. Len(entries') /\ address' = p
<1>1. SubSeq(entries, 1, at) \in Seq(Filters) /\ Len(SubSeq(entries, 1, at)) = at
    BY DEF PageTypeOK
<1>2. entries' = Append(SubSeq(entries, 1, at), p) /\ at' = at + 1
    BY DEF Push
<1> QED BY <1>1, <1>2 DEF PageTypeOK, address

(* What the controls are set to.                                           *)
LEMMA ControlsAreSet ==
    ASSUME NEW p \in Filters
    PROVE  /\ SetControls(p, controls) \in [FilterType -> Setting]
           /\ \A t \in FilterType :
                /\ p[t] = Absent => SetControls(p, controls)[t] = Nothing
                /\ ready /\ p[t] # Absent => SetControls(p, controls)[t] = p[t]
<1>1. Nothing \in Setting
    BY PageFiltersAssumption DEF Setting, Offered
<1> QED BY <1>1 DEF SetControls, Value, Filters

(* A choice: the address, the parameters and the control are changed in    *)
(* one place, to the same.                                                 *)
LEMMA ChooseKeeps ==
    ASSUME PageInv, NEW type \in FilterType, NEW choice \in Offered(type), Choose(type, choice)
    PROVE  PageInv'
<1> DEFINE chosen == [address EXCEPT ![type] = choice]
<1>1. address \in Filters
    BY DEF PageInv, PageTypeOK, address
<1>2. choice \in Setting /\ choice # Absent /\ chosen \in Filters
    BY <1>1, SettingOfAChoice
<1>3. /\ ready /\ params = address /\ params' = chosen /\ cookie' = chosen /\ Push(chosen)
      /\ controls' = [controls EXCEPT ![type] = choice]
      /\ UNCHANGED <<ready, filters, waiting, sound>>
    BY DEF Choose, ResetAndFilter, PageInv
<1>4. entries' \in Seq(Filters) /\ at' \in 1 .. Len(entries') /\ address' = chosen
    BY <1>2, <1>3, PushedIsThere DEF PageInv
<1>5. PageTypeOK'
    BY <1>2, <1>3, <1>4 DEF PageInv, PageTypeOK
<1>6. ASSUME waiting = 0, sound, NEW t \in FilterType
      PROVE  /\ chosen[t] = Absent => controls'[t] = Nothing
             /\ chosen[t] # Absent => controls'[t] = chosen[t]
  <2>1. CASE t = type
      BY <1>1, <1>2, <1>3, <2>1 DEF PageInv, PageTypeOK, Filters
  <2>2. CASE t # type
    <3>1. chosen[t] = params[t] /\ controls'[t] = controls[t]
        BY <1>1, <1>3, <2>2 DEF PageInv, PageTypeOK, Filters
    <3> QED BY <1>3, <1>6, <3>1 DEF PageInv
  <2> QED BY <2>1, <2>2
<1> HIDE DEF chosen
<1> QED BY <1>3, <1>4, <1>5, <1>6 DEF PageInv

(* Back and forward, and the link that resets the filters.                 *)
LEMMA PopstateKeeps ==
    ASSUME PageInv, NEW step \in {-1, 1}, Popstate(step)
    PROVE  PageInv'
<1>1. /\ at' = at + step /\ at' \in DOMAIN entries /\ params' = entries[at']
      /\ waiting' = waiting + 1
      /\ UNCHANGED <<ready, filters, entries, cookie, controls, sound>>
    BY DEF Popstate
<1>2. waiting' \in Nat /\ waiting' # 0
    BY <1>1 DEF PageInv, PageTypeOK
<1>3. PageTypeOK' /\ address' = params'
    BY <1>1, <1>2 DEF PageInv, PageTypeOK, address
<1> QED BY <1>2, <1>3 DEF PageInv

LEMMA PageAnsweredKeeps ==
    ASSUME PageInv, PopstateAnswered \/ PopstateFails
    PROVE  PageInv'
<1>1. waiting' \in Nat /\ UNCHANGED <<ready, params, filters, entries, at, cookie>>
    BY DEF PageInv, PageTypeOK, PopstateAnswered, PopstateFails
<1>2. address' = address
    BY <1>1 DEF address
<1>3. CASE PopstateAnswered
  <2>1. controls' = SetControls(params, controls) /\ params \in Filters
      BY <1>3 DEF PopstateAnswered, PageInv, PageTypeOK
  <2> QED BY <1>1, <1>2, <2>1, ControlsAreSet DEF PageInv, PageTypeOK
<1>4. CASE PopstateFails
    BY <1>1, <1>2, <1>4 DEF PopstateFails, PageInv, PageTypeOK
<1> QED BY <1>3, <1>4

LEMMA ResetKeeps ==
    ASSUME PageInv, ResetLink
    PROVE  PageInv'
<1> DEFINE all == [NoFilters EXCEPT !["lang"] = Nothing]
<1>1. all \in Filters
    BY NoFiltersIsOne, PageFiltersAssumption, SettingOfAChoice DEF Offered
<1>2. /\ Push(all) /\ params' = all /\ cookie' = all
      /\ controls' = SetControls(all, controls)
      /\ UNCHANGED <<ready, filters, waiting>>
    BY DEF ResetLink
<1> HIDE DEF all
<1>3. entries' \in Seq(Filters) /\ at' \in 1 .. Len(entries') /\ address' = all
    BY <1>1, <1>2, PushedIsThere DEF PageInv
<1> QED BY <1>1, <1>2, <1>3, ControlsAreSet DEF PageInv, PageTypeOK

(* A page that is loaded, again or for the first time.                     *)
LEMMA LoadKeeps ==
    ASSUME PageInv, NEW addresses \in Seq(Filters), NEW i \in 1 .. Len(addresses),
           Load(addresses, i)
    PROVE  PageInv'
<1>1. addresses[i] \in Filters /\ address' = addresses[i]
    BY DEF Load, address
<1>2. /\ ready' = FALSE /\ filters' = cookie /\ waiting' = 0
      /\ params' = IF addresses[i] = NoFilters THEN cookie ELSE addresses[i]
      /\ controls' = [t \in FilterType |-> Nothing]
      /\ entries' = addresses /\ at' = i /\ cookie' = cookie
    BY DEF Load
<1>3. Nothing \in Setting
    BY PageFiltersAssumption DEF Setting, Offered
<1>4. PageTypeOK'
    BY <1>1, <1>2, <1>3 DEF PageInv, PageTypeOK, Filters
<1>5. filters' = NoFilters => params' = address'
    BY <1>1, <1>2
<1> QED BY <1>2, <1>4, <1>5 DEF PageInv

(* The rest of window.onload.                                              *)
LEMMA OnloadKeeps ==
    ASSUME PageInv, Onload
    PROVE  PageInv'
<1> DEFINE named == [t \in FilterType |-> IF params[t] = Absent THEN controls[t] ELSE params[t]]
           asked == IF filters = NoFilters THEN address ELSE params
           chosen == [asked EXCEPT !["lang"] = BrowserLang]
           before == SubSeq(entries, 1, at)
<1>1. /\ asked = params /\ params \in Filters /\ named \in [FilterType -> Setting]
      /\ ~ready /\ ready' = TRUE /\ UNCHANGED <<filters, waiting, sound>>
    BY DEF PageInv, PageTypeOK, Onload, Filters
<1>2. before \in Seq(Filters) /\ Len(before) = at
    BY DEF PageInv, PageTypeOK
<1>3. CASE asked = NoFilters
  <2>1. BrowserLang \in Setting /\ BrowserLang # Absent /\ chosen \in Filters
      BY <1>1, PageFiltersAssumption, SettingOfAChoice
  <2>2. /\ controls' = [named EXCEPT !["lang"] = BrowserLang]
        /\ params' = chosen /\ cookie' = chosen
        /\ at' = (IF filters = NoFilters THEN at + 1 ELSE at + 2)
        /\ entries' = before \o (IF filters = NoFilters THEN <<chosen>> ELSE <<asked, chosen>>)
      BY <1>3 DEF Onload
  <2>3. entries' \in Seq(Filters) /\ at' \in 1 .. Len(entries') /\ entries'[at'] = chosen
    <3> HIDE DEF asked, chosen, before
    <3>1. CASE filters = NoFilters
      <4>1. entries' = Append(before, chosen)
          BY <1>2, <2>1, <2>2, <3>1
      <4> QED BY <1>2, <2>1, <2>2, <3>1, <4>1
    <3>2. CASE filters # NoFilters
      <4>1. entries' = Append(Append(before, asked), chosen) /\ asked \in Filters
          BY <1>1, <1>2, <2>1, <2>2, <3>2
      <4>2. Append(before, asked) \in Seq(Filters) /\ Len(Append(before, asked)) = at + 1
          BY <1>2, <4>1
      <4> QED BY <1>2, <2>1, <2>2, <3>2, <4>1, <4>2
    <3> QED BY <3>1, <3>2
  <2>4. PageTypeOK'
      BY <1>1, <2>1, <2>2, <2>3, PageFiltersAssumption DEF PageInv, PageTypeOK
  <2>5. ASSUME waiting = 0, sound, NEW t \in FilterType
        PROVE  /\ chosen[t] = Absent => controls'[t] = Nothing
               /\ chosen[t] # Absent => controls'[t] = chosen[t]
    <3>1. params[t] = Absent /\ controls[t] = Nothing
        BY <1>1, <1>3, <2>5 DEF PageInv, NoFilters
    <3>2. CASE t = "lang"
        BY <1>1, <2>1, <2>2, <3>2 DEF Filters
    <3>3. CASE t # "lang"
        BY <1>1, <2>2, <3>1, <3>3 DEF Filters
    <3> QED BY <3>2, <3>3
  <2> HIDE DEF asked, chosen
  <2> QED BY <1>1, <2>2, <2>3, <2>4, <2>5 DEF PageInv, address
<1>4. CASE asked # NoFilters
  <2>1. /\ controls' = named /\ cookie' = params /\ params' = params
        /\ IF filters = NoFilters THEN UNCHANGED <<entries, at>> ELSE Push(params)
      BY <1>4 DEF Onload
  <2>2. entries' \in Seq(Filters) /\ at' \in 1 .. Len(entries') /\ address' = params
    <3>1. CASE filters = NoFilters
        BY <2>1, <3>1 DEF PageInv, PageTypeOK, address
    <3>2. CASE filters # NoFilters
        BY <1>1, <2>1, <3>2, PushedIsThere DEF PageInv
    <3> QED BY <3>1, <3>2
  <2>3. PageTypeOK'
      BY <1>1, <2>1, <2>2 DEF PageInv, PageTypeOK
  <2> QED BY <1>1, <2>1, <2>2, <2>3 DEF PageInv
<1> QED BY <1>3, <1>4

-----------------------------------------------------------------------------

(* Every step of the user, the browser and the server keeps the invariant. *)
LEMMA PageNextKeepsInv ==
    ASSUME PageInv, [PageFiltersNext]_pageFiltersVars PROVE PageInv'
<1>1. ASSUME NEW t \in FilterType, NEW choice \in Offered(t), Choose(t, choice) PROVE PageInv'
    BY <1>1, ChooseKeeps
<1>2. ASSUME NEW step \in {-1, 1}, Popstate(step) PROVE PageInv'
    BY <1>2, PopstateKeeps
<1>3. CASE PopstateAnswered \/ PopstateFails
    BY <1>3, PageAnsweredKeeps
<1>4. CASE ResetLink
    BY <1>4, ResetKeeps
<1>5. ASSUME NEW p \in Params, Load(<<p>>, 1) PROVE PageInv'
  <2>1. <<p>> \in Seq(Filters) /\ 1 \in 1 .. Len(<<p>>)
      BY ParamsAreFilters
  <2> QED BY <1>5, <2>1, LoadKeeps
<1>6. CASE Load(entries, at)
  <2>1. entries \in Seq(Filters) /\ at \in 1 .. Len(entries)
      BY DEF PageInv, PageTypeOK
  <2> QED BY <1>6, <2>1, LoadKeeps
<1>7. CASE Onload
    BY <1>7, OnloadKeeps
<1>8. CASE Elsewhere
  <2>1. cookie' \in Filters
      BY <1>8, ParamsAreFilters DEF Elsewhere
  <2> QED BY <1>8, <2>1 DEF Elsewhere, PageInv, PageTypeOK, address
<1>9. CASE UNCHANGED pageFiltersVars
    BY <1>9 DEF pageFiltersVars, PageInv, PageTypeOK, address
<1> QED BY <1>1, <1>2, <1>3, <1>4, <1>5, <1>6, <1>7, <1>8, <1>9 DEF PageFiltersNext

(* The invariant holds in every reachable state of the page.               *)
THEOREM PageFiltersInvariant == PageFiltersSpec => []PageInv
<1>1. PageFiltersInit => PageInv
  <2> SUFFICES ASSUME PageFiltersInit PROVE PageInv
      OBVIOUS
  <2>1. PICK p \in Params : entries = <<p>>
      BY DEF PageFiltersInit
  <2>2. p \in Filters /\ Nothing \in Setting
      BY ParamsAreFilters, PageFiltersAssumption DEF Setting, Offered
  <2>3. /\ at = 1 /\ params = address /\ waiting = 0 /\ ready = FALSE
        /\ cookie = NoFilters /\ filters = NoFilters
        /\ controls = [t \in FilterType |-> Nothing]
      BY DEF PageFiltersInit
  <2>4. address = p
      BY <2>1, <2>3 DEF address
  <2> QED BY <2>1, <2>2, <2>3, <2>4, NoFiltersIsOne DEF PageInv, PageTypeOK
<1>2. PageInv /\ [PageFiltersNext]_pageFiltersVars => PageInv'
    BY PageNextKeepsInv
<1> QED BY <1>1, <1>2, PTL DEF PageFiltersSpec

(* resetAndFilter, the handler of popstate and window.onload: the controls *)
(* and the address mean the filters by which the server is asked.          *)
THEOREM ControlsCorrect == PageFiltersSpec => []ControlsShowTheFilters
<1>1. PageInv => ControlsShowTheFilters
  <2> SUFFICES ASSUME PageInv, ready, waiting = 0, sound
               PROVE  /\ params = address
                      /\ controls = [t \in FilterType |-> Value(params, t)]
      BY DEF ControlsShowTheFilters
  <2>1. \A t \in FilterType : controls[t] = Value(params, t)
      BY DEF PageInv, Value
  <2> QED BY <2>1 DEF PageInv, PageTypeOK
<1> QED BY <1>1, PageFiltersInvariant, PTL

-----------------------------------------------------------------------------
(***************************************************************************)
(* The spinner: no change is lost, and no timer runs on.                   *)
(***************************************************************************)

SpinnerTypeOK ==
    /\ spinnerFocused \in BOOLEAN /\ spinnerCancelBlur \in BOOLEAN
    /\ spinning \in BOOLEAN
    /\ pressed \in {"none", "in", "out"}

(* While the field has the focus, or is about to get it back, the page     *)
(* knows the value from which a change is measured; otherwise it knows the *)
(* value itself, and nothing runs or is held that could change it.         *)
SpinnerInv ==
    /\ SpinnerTypeOK
    /\ spinnerFocused => spinnerTold = previous
    /\ spinnerCancelBlur => spinnerTold = saved
    /\ ~spinnerFocused /\ ~spinnerCancelBlur =>
          spinnerTold = number /\ timer = 0 /\ pressed = "none"
    /\ timer # 0 => spinning /\ (held # 0 \/ pressed = "in")

(* The invariant holds in every reachable state of a spinner.              *)
THEOREM SpinnerInvariant == Spinner!SpinnerSpec => []SpinnerInv
<1>1. Spinner!SpinnerInit => SpinnerInv
  BY DEF Spinner!SpinnerInit, SpinnerInv, SpinnerTypeOK
<1>2. SpinnerInv /\ [Spinner!SpinnerNext]_spinnerVars => SpinnerInv'
  <2> SUFFICES ASSUME SpinnerInv, [Spinner!SpinnerNext]_spinnerVars PROVE SpinnerInv'
      OBVIOUS
  <2> USE DEF SpinnerInv, SpinnerTypeOK, Spinner!Stop, Spinner!StartAndRepeat
  <2>1. ASSUME NEW up \in {-1, 1}, Spinner!Keydown(up) PROVE SpinnerInv'
      BY <2>1 DEF Spinner!Keydown
  <2>2. ASSUME NEW up \in {-1, 1}, Spinner!MouseDown(up) PROVE SpinnerInv'
      BY <2>2 DEF Spinner!MouseDown
  <2>3. ASSUME NEW up \in {-1, 1}, Spinner!MouseWheel(up) PROVE SpinnerInv'
      BY <2>3 DEF Spinner!MouseWheel
  <2>4. ASSUME NEW up \in {-1, 1}, Spinner!StepBy(up) PROVE SpinnerInv'
      BY <2>4 DEF Spinner!StepBy, Spinner!InUse
  <2>5. ASSUME NEW v \in Spinner!Values, Spinner!Type(v) PROVE SpinnerInv'
    <3>1. spinning' = spinning \/ spinning' = TRUE
        BY <2>5 DEF Spinner!Type
    <3>2. spinning' \in BOOLEAN /\ (spinning => spinning')
        BY <3>1, Zenon
    <3> QED BY <2>5, <3>2 DEF Spinner!Type
  <2>6. ASSUME NEW v \in Spinner!Values, Spinner!SetValue(v) PROVE SpinnerInv'
      BY <2>6 DEF Spinner!SetValue, Spinner!InUse
  <2>7. CASE Spinner!Keyup
      BY <2>7 DEF Spinner!Keyup
  <2>8. CASE Spinner!KeyupElsewhere
      BY <2>8 DEF Spinner!KeyupElsewhere
  <2>9. CASE Spinner!Focus
      BY <2>9 DEF Spinner!Focus
  <2>10. CASE Spinner!Blur
      BY <2>10 DEF Spinner!Blur
  <2>11. CASE Spinner!AfterMouseDown
      BY <2>11 DEF Spinner!AfterMouseDown
  <2>12. CASE Spinner!MouseUp
      BY <2>12 DEF Spinner!MouseUp
  <2>13. CASE Spinner!MouseUpElsewhere
      BY <2>13 DEF Spinner!MouseUpElsewhere
  <2>14. CASE Spinner!MouseLeave
      BY <2>14 DEF Spinner!MouseLeave
  <2>15. CASE Spinner!MouseEnter
      BY <2>15 DEF Spinner!MouseEnter
  <2>16. CASE Spinner!RepeatTimer
      BY <2>16 DEF Spinner!RepeatTimer
  <2>17. CASE Spinner!WheelTimer
      BY <2>17 DEF Spinner!WheelTimer
  <2>18. CASE UNCHANGED spinnerVars
      BY <2>18 DEF spinnerVars
  <2> QED
      BY <2>1, <2>2, <2>3, <2>4, <2>5, <2>6, <2>7, <2>8, <2>9, <2>10, <2>11, <2>12, <2>13,
         <2>14, <2>15, <2>16, <2>17, <2>18 DEF Spinner!SpinnerNext
<1> QED BY <1>1, <1>2, PTL DEF Spinner!SpinnerSpec, Spinner!spinnerVars, spinnerVars

(* _mouse, _keydown, _change: a timer that runs is held by a key or a      *)
(* button, and a field without the focus has told the page its value, for  *)
(* all bounds and whatever is typed.                                       *)
THEOREM SpinnerCorrect == Spinner!SpinnerSpec => []NoSpinIsLost
<1>1. SpinnerInv => NoSpinIsLost
  BY DEF SpinnerInv, NoSpinIsLost, Spinner!NoSpinIsLost
<1> QED BY <1>1, SpinnerInvariant, PTL

-----------------------------------------------------------------------------
(***************************************************************************)
(* The slider: the handles stay in order on the steps between the bounds.  *)
(***************************************************************************)

(* A whole number of steps from the lowest bound.                          *)
OnStep(n) == n \in Int /\ \E k \in Int : n = LowestBound + Step * k

SliderTypeOK ==
    /\ min \in Int /\ max \in Int /\ values \in [{0, 1} -> Int]
    /\ handleIndex \in {-1, 0, 1} /\ focus \in {-1, 0, 1}
    /\ keySliding \in BOOLEAN

BoundsOK == OnStep(min) /\ OnStep(max) /\ min < max

(* What is stored is in order and on a step, though not always within the  *)
(* bounds of the moment: a value between two steps could be rounded past   *)
(* the other one.                                                          *)
SliderInv ==
    /\ SliderTypeOK /\ BoundsOK
    /\ OnStep(values[0]) /\ OnStep(values[1])
    /\ values[0] <= values[1]
    /\ handleIndex = -1 /\ ~keySliding => announced = values

(* The bounds that the page chooses are on a step.                         *)
LEMMA BoundsAreOnStep ==
    ASSUME NEW b \in Slider!Bounds
    PROVE  OnStep(b)
<1> USE SliderAssumption DEF Slider!Bounds
<1>1. b \in Int /\ (b - LowestBound) % Step = 0
  OBVIOUS
<1> DEFINE k == (b - LowestBound) \div Step
<1>2. k \in Int /\ b - LowestBound = Step * k + ((b - LowestBound) % Step)
  <2>1. ASSUME NEW a \in Int PROVE a \div Step \in Int /\ a = Step * (a \div Step) + (a % Step)
      OBVIOUS
  <2> QED BY <1>1, <2>1
<1> QED BY <1>1, <1>2 DEF OnStep

(* Two numbers on steps are whole steps apart.                             *)
LEMMA StepsApart ==
    ASSUME NEW a, NEW b, OnStep(a), OnStep(b)
    PROVE  (a - b) % Step = 0 /\ (a < b => a + Step <= b) /\ OnStep(a + Step)
<1> USE SliderAssumption
<1>1. PICK k \in Int : a = LowestBound + Step * k
  BY DEF OnStep
<1>2. PICK m \in Int : b = LowestBound + Step * m
  BY DEF OnStep
<1>3. a - b = Step * (k - m)
  BY <1>1, <1>2
<1>4. (Step * (k - m)) % Step = 0
  OBVIOUS
<1>5. ASSUME Step * k < Step * m PROVE Step * k + Step <= Step * m
  BY <1>5
<1>6. a + Step = LowestBound + Step * (k + 1)
  BY <1>1
<1>7. a \in Int /\ b \in Int
  BY DEF OnStep
<1>8. OnStep(a + Step)
  <2>1. PICK j \in Int : j = k + 1
      OBVIOUS
  <2>2. a + Step \in Int /\ a + Step = LowestBound + Step * j
      BY <1>6, <1>7, <2>1
  <2> QED BY <2>2 DEF OnStep
<1>9. a < b => a + Step <= b
  <2>1. PICK x \in Int : x = Step * k
      OBVIOUS
  <2>2. PICK y \in Int : y = Step * m
      OBVIOUS
  <2>3. x < y => x + Step <= y
      BY <1>5, <2>1, <2>2
  <2>4. a = LowestBound + x /\ b = LowestBound + y
      BY <1>1, <1>2, <2>1, <2>2
  <2> QED BY <2>3, <2>4
<1> QED BY <1>3, <1>4, <1>8, <1>9

(* _trimAlignValue gives a step within the bounds, and the nearest one.    *)
LEMMA TrimAlignIsOnStep ==
    ASSUME SliderTypeOK, BoundsOK, NEW n \in Int, NEW scale \in {1, 5}
    PROVE  /\ OnStep(Slider!TrimAlign(n, scale)) /\ Slider!TrimAlign(n, scale) \in min .. max
           /\ scale = 1 /\ min < n /\ n < max =>
                 /\ 2 * (Slider!TrimAlign(n, scale) - n) <= Step
                 /\ 2 * (n - Slider!TrimAlign(n, scale)) < Step
<1> USE SliderAssumption DEF SliderTypeOK, BoundsOK
<1> DEFINE steps == (n - min * scale) % (Step * scale)
           q == (n - min * scale) \div (Step * scale)
<1>1. CASE n <= min * scale
  <2>1. Slider!TrimAlign(n, scale) = min
      BY <1>1 DEF Slider!TrimAlign
  <2> QED BY <1>1, <2>1
<1>2. CASE ~(n <= min * scale) /\ n >= max * scale
  <2>1. Slider!TrimAlign(n, scale) = max
      BY <1>2 DEF Slider!TrimAlign
  <2> QED BY <1>2, <2>1
<1>3. CASE ~(n <= min * scale) /\ ~(n >= max * scale)
  <2>1. Slider!TrimAlign(n, scale)
          = (n - steps) \div scale + IF 2 * steps >= Step * scale THEN Step ELSE 0
      BY <1>3 DEF Slider!TrimAlign
  <2>2. n - min * scale = (Step * scale) * q + steps /\ q \in Int /\ steps \in 0 .. Step * scale - 1
    <3>1. ASSUME NEW a \in Int, NEW b \in Nat \ {0}
          PROVE  a \div b \in Int /\ a = b * (a \div b) + (a % b) /\ a % b \in 0 .. b - 1
        OBVIOUS
    <3>2. n - min * scale \in Int /\ Step * scale \in Nat \ {0}
        OBVIOUS
    <3> QED BY <3>1, <3>2
  <2> HIDE DEF steps, q
  <2> DEFINE low == min + Step * q
  <2>3. low \in Int /\ n - steps = scale * low
    <3>1. (Step * scale) * q = scale * (Step * q)
        BY <2>2
    <3>2. CASE scale = 1
        BY <3>2, <2>2
    <3>3. CASE scale = 5
        BY <3>3, <3>1, <2>2
    <3> QED BY <3>2, <3>3
  <2>4. (n - steps) \div scale = low
    <3>1. CASE scale = 1
        BY <2>3, <3>1
    <3>2. CASE scale = 5
        BY <2>3, <3>2
    <3> QED BY <3>1, <3>2
  <2>5. OnStep(low)
    <3>1. PICK k \in Int : min = LowestBound + Step * k
        BY DEF OnStep
    <3>2. low = LowestBound + Step * (k + q) /\ k + q \in Int
        BY <2>2, <3>1
    <3> QED BY <2>3, <3>2 DEF OnStep
  <2>6. low < max
    <3>1. scale * low < scale * max
        BY <1>3, <2>2, <2>3
    <3> QED BY <2>3, <3>1
  <2>7. min <= low
    <3>1. scale * low > scale * min - Step * scale
        BY <1>3, <2>2, <2>3
    <3>2. low > min - Step
        BY <2>3, <3>1
    <3>3. low < min => low + Step <= min
        BY <2>5, StepsApart
    <3> QED BY <2>3, <3>2, <3>3
  <2>8. low + Step <= max /\ OnStep(low + Step)
      BY <2>5, <2>6, StepsApart
  <2> HIDE DEF low
  <2>11. scale = 1 => n = low + steps /\ Step * scale = Step
      BY <2>2, <2>3
  <2>9. CASE 2 * steps >= Step * scale
    <3>1. Slider!TrimAlign(n, scale) = low + Step
        BY <2>1, <2>4, <2>9
    <3>2. OnStep(Slider!TrimAlign(n, scale)) /\ Slider!TrimAlign(n, scale) \in min .. max
        BY <2>3, <2>7, <2>8, <3>1
    <3>3. scale = 1 => /\ 2 * ((low + Step) - n) <= Step
                       /\ 2 * (n - (low + Step)) < Step
      <4> SUFFICES ASSUME scale = 1
                   PROVE  2 * ((low + Step) - n) <= Step /\ 2 * (n - (low + Step)) < Step
          OBVIOUS
      <4>1. PICK r \in Int : r = steps
          BY <2>2
      <4>2. n = low + r /\ 2 * r >= Step /\ r < Step
          BY <2>2, <2>9, <2>11, <4>1
      <4> QED BY <2>3, <4>1, <4>2
    <3> QED BY <3>1, <3>2, <3>3
  <2>10. CASE ~(2 * steps >= Step * scale)
    <3>1. Slider!TrimAlign(n, scale) = low + 0
        BY <2>1, <2>4, <2>10
    <3>2. OnStep(Slider!TrimAlign(n, scale)) /\ Slider!TrimAlign(n, scale) \in min .. max
        BY <2>3, <2>5, <2>6, <2>7, <3>1
    <3>3. scale = 1 => 2 * (low - n) <= Step /\ 2 * (n - low) < Step
      <4> SUFFICES ASSUME scale = 1 PROVE 2 * (low - n) <= Step /\ 2 * (n - low) < Step
          OBVIOUS
      <4>1. PICK r \in Int : r = steps
          BY <2>2
      <4>2. n = low + r /\ 2 * r < Step /\ r >= 0
          BY <2>2, <2>10, <2>11, <4>1
      <4> QED BY <2>3, <4>1, <4>2
    <3>4. Slider!TrimAlign(n, scale) = low
        BY <2>3, <3>1
    <3> QED BY <3>2, <3>3, <3>4
  <2> QED BY <2>9, <2>10
<1> QED BY <1>1, <1>2, <1>3

(* On a step nothing is rounded.                                           *)
LEMMA TrimAlignOnStep ==
    ASSUME SliderTypeOK, BoundsOK, NEW n, OnStep(n)
    PROVE  Slider!TrimAlign(n, 1) = IF n <= min THEN min ELSE IF n >= max THEN max ELSE n
<1> USE SliderAssumption DEF SliderTypeOK, BoundsOK
<1>1. n \in Int
  BY DEF OnStep
<1>2. (n - min) % Step = 0
  BY StepsApart
<1>3. min * 1 = min /\ max * 1 = max /\ Step * 1 = Step /\ n \div 1 = n
  BY <1>1
<1>4. CASE n <= min
  BY <1>1, <1>3, <1>4 DEF Slider!TrimAlign
<1>5. CASE ~(n <= min) /\ n >= max
  BY <1>1, <1>3, <1>5 DEF Slider!TrimAlign
<1>6. CASE ~(n <= min) /\ ~(n >= max)
  <2>1. Slider!TrimAlign(n, 1) = (n - 0) \div 1 + IF 2 * 0 >= Step THEN Step ELSE 0
      BY <1>2, <1>3, <1>6 DEF Slider!TrimAlign
  <2>2. n - 0 = n /\ ~(2 * 0 >= Step)
      BY <1>1
  <2> QED BY <1>1, <1>3, <1>6, <2>1, <2>2
<1> QED BY <1>4, <1>5, <1>6

(* What is larger is not rounded to less.                                  *)
LEMMA TrimAlignInOrder ==
    ASSUME SliderTypeOK, BoundsOK, NEW low \in Int, NEW high \in Int, low <= high
    PROVE  Slider!TrimAlign(low, 1) <= Slider!TrimAlign(high, 1)
<1> USE DEF SliderTypeOK, BoundsOK
<1>1. PICK v : v = Slider!TrimAlign(low, 1)
  OBVIOUS
<1>2. PICK w : w = Slider!TrimAlign(high, 1)
  OBVIOUS
<1>3. OnStep(v) /\ OnStep(w) /\ v \in min .. max /\ w \in min .. max
  BY <1>1, <1>2, TrimAlignIsOnStep
<1>4. min * 1 = min /\ max * 1 = max
  OBVIOUS
<1>5. CASE low <= min
  <2>1. v = min
      BY <1>1, <1>4, <1>5 DEF Slider!TrimAlign
  <2> QED BY <1>1, <1>2, <1>3, <2>1
<1>6. CASE high >= max
  <2>1. w = max
      BY <1>2, <1>4, <1>6 DEF Slider!TrimAlign
  <2> QED BY <1>1, <1>2, <1>3, <2>1
<1>7. CASE ~(low <= min) /\ ~(high >= max)
  <2>1. min < low /\ low < max /\ min < high /\ high < max
      BY <1>7
  <2>2. 2 * (v - low) <= Step /\ 2 * (high - w) < Step
      BY <1>1, <1>2, <2>1, TrimAlignIsOnStep
  <2>3. w < v => w + Step <= v
      BY <1>3, StepsApart
  <2>4. v \in Int /\ w \in Int
      BY <1>3
  <2> HIDE DEF SliderTypeOK, BoundsOK
  <2>5. v <= w
      BY <2>2, <2>3, <2>4, SliderAssumption
  <2> QED BY <1>1, <1>2, <2>5
<1> QED BY <1>5, <1>6, <1>7

(* The values that are read are on steps within the bounds, in order.      *)
LEMMA ValuesInOrder ==
    ASSUME SliderTypeOK, BoundsOK, OnStep(values[0]), OnStep(values[1]), values[0] <= values[1]
    PROVE  /\ \A i \in {0, 1} :
                 /\ Slider!Value(i) \in min .. max /\ OnStep(Slider!Value(i))
                 /\ Slider!Value(i) = IF values[i] <= min THEN min
                                      ELSE IF values[i] >= max THEN max ELSE values[i]
           /\ Slider!Value(0) <= Slider!Value(1)
<1>1. values[0] \in Int /\ values[1] \in Int /\ min \in Int /\ max \in Int
  BY DEF SliderTypeOK
<1>2. \A i \in {0, 1} : /\ Slider!Value(i) \in min .. max /\ OnStep(Slider!Value(i))
                        /\ Slider!Value(i) = IF values[i] <= min THEN min
                                      ELSE IF values[i] >= max THEN max ELSE values[i]
  BY <1>1, TrimAlignIsOnStep, TrimAlignOnStep DEF Slider!Value
<1>3. PICK v \in Int : v = Slider!Value(0)
  BY <1>1, <1>2
<1>4. PICK w \in Int : w = Slider!Value(1)
  BY <1>1, <1>2
<1>5. /\ v = IF values[0] <= min THEN min ELSE IF values[0] >= max THEN max ELSE values[0]
      /\ w = IF values[1] <= min THEN min ELSE IF values[1] >= max THEN max ELSE values[1]
  BY <1>2, <1>3, <1>4
<1>6. v <= w
  BY <1>1, <1>5 DEF BoundsOK
<1> QED BY <1>2, <1>3, <1>4, <1>6
(* _slide moves a handle, but not past the other one.                      *)
LEMMA SlideKeepsOrder ==
    ASSUME SliderTypeOK, BoundsOK, OnStep(values[0]), OnStep(values[1]), values[0] <= values[1],
           NEW i \in {0, 1}, NEW new \in min .. max, OnStep(new), Slider!SlideTo(i, new)
    PROVE  /\ values' \in [{0, 1} -> Int]
           /\ OnStep(values[0]') /\ OnStep(values[1]') /\ values[0]' <= values[1]'
<1>1. CASE UNCHANGED values
  BY <1>1 DEF SliderTypeOK
<1>2. CASE values' = [values EXCEPT ![i] = IF Slider!Clamped(i, new) = Slider!Value(i) THEN @
                                           ELSE Slider!Clamped(i, new)]
  <2>1. PICK v \in Int : v = Slider!Value(0)
      BY ValuesInOrder DEF SliderTypeOK
  <2>2. PICK w \in Int : w = Slider!Value(1)
      BY ValuesInOrder DEF SliderTypeOK
  <2>3. PICK a \in Int : a = values[0]
      BY DEF SliderTypeOK
  <2>4. PICK b \in Int : b = values[1]
      BY DEF SliderTypeOK
  <2>5. /\ OnStep(v) /\ OnStep(w) /\ v <= w
        /\ v = IF a <= min THEN min ELSE IF a >= max THEN max ELSE a
        /\ w = IF b <= min THEN min ELSE IF b >= max THEN max ELSE b
      BY <2>1, <2>2, <2>3, <2>4, ValuesInOrder
  <2>6. CASE i = 0
    <3>1. PICK c : c = Slider!Clamped(0, new)
        OBVIOUS
    <3>2. c = IF new > w THEN w ELSE new
        BY <2>1, <2>2, <3>1 DEF Slider!Clamped, Slider!Other
    <3>3. values' = [values EXCEPT ![0] = IF c = v THEN a ELSE c]
        BY <1>2, <2>1, <2>3, <2>6, <3>1
    <3>4. values'[0] = (IF c = v THEN a ELSE c) /\ values'[1] = b
        BY <2>4, <3>3 DEF SliderTypeOK
    <3>5. OnStep(c) /\ c \in Int
        BY <2>5, <3>2
    <3>6. (IF c = v THEN a ELSE c) <= b
        BY <2>3, <2>4, <2>5, <3>2, <3>5 DEF SliderTypeOK
    <3>7. values' \in [{0, 1} -> Int]
        BY <3>3, <3>5 DEF SliderTypeOK
    <3> QED BY <2>3, <2>4, <3>4, <3>5, <3>6, <3>7
  <2>7. CASE i = 1
    <3>1. PICK c : c = Slider!Clamped(1, new)
        OBVIOUS
    <3>2. c = IF new < v THEN v ELSE new
        BY <2>1, <2>2, <3>1 DEF Slider!Clamped, Slider!Other
    <3>3. values' = [values EXCEPT ![1] = IF c = w THEN b ELSE c]
        BY <1>2, <2>2, <2>4, <2>7, <3>1
    <3>4. values'[1] = (IF c = w THEN b ELSE c) /\ values'[0] = a
        BY <2>3, <3>3 DEF SliderTypeOK
    <3>5. OnStep(c) /\ c \in Int
        BY <2>5, <3>2
    <3>6. a <= (IF c = w THEN b ELSE c)
        BY <2>3, <2>4, <2>5, <3>2, <3>5 DEF SliderTypeOK
    <3>7. values' \in [{0, 1} -> Int]
        BY <3>3, <3>5 DEF SliderTypeOK
    <3> QED BY <2>3, <2>4, <3>4, <3>5, <3>6, <3>7
  <2> QED BY <2>6, <2>7
<1> QED BY <1>1, <1>2 DEF Slider!SlideTo

(* Where the keys lead is a step within the bounds.                        *)
LEMMA TargetIsOnStep ==
    ASSUME SliderTypeOK, BoundsOK, NEW v \in Int,
           NEW key \in {"home", "end", "pageUp", "pageDown", "up", "down"}
    PROVE  Slider!Target(key, v) \in min .. max /\ OnStep(Slider!Target(key, v))
<1> USE DEF SliderTypeOK, BoundsOK
<1>1. \A n \in Int, scale \in {1, 5} :
         OnStep(Slider!TrimAlign(n, scale)) /\ Slider!TrimAlign(n, scale) \in min .. max
  BY TrimAlignIsOnStep
<1>2. CASE key = "home"
  BY <1>2 DEF Slider!Target
<1>3. CASE key = "end"
  BY <1>3 DEF Slider!Target
<1>4. CASE key = "pageUp"
  BY <1>1, <1>4 DEF Slider!Target
<1>5. CASE key = "pageDown"
  BY <1>1, <1>5 DEF Slider!Target
<1>6. CASE key = "up"
  BY <1>1, <1>6, SliderAssumption DEF Slider!Target
<1>7. CASE key = "down"
  BY <1>1, <1>7, SliderAssumption DEF Slider!Target
<1> QED BY <1>2, <1>3, <1>4, <1>5, <1>6, <1>7

(* The invariant holds in every reachable state of a slider.               *)
THEOREM SliderInvariant == Slider!SliderSpec => []SliderInv
<1>1. Slider!SliderInit => SliderInv
  <2> SUFFICES ASSUME Slider!SliderInit PROVE SliderInv
      OBVIOUS
  <2> USE DEF Slider!SliderInit
  <2>1. OnStep(min) /\ OnStep(max)
      BY BoundsAreOnStep
  <2>2. min \in Int /\ max \in Int
      BY <2>1 DEF OnStep
  <2>3. values \in [{0, 1} -> Int] /\ values[0] = min /\ values[1] = min
      BY <2>2 DEF Slider!Handle
  <2>4. SliderTypeOK /\ BoundsOK
      BY <2>1, <2>2, <2>3 DEF SliderTypeOK, BoundsOK, Slider!NoHandle
  <2>5. OnStep(values[0]) /\ OnStep(values[1]) /\ values[0] <= values[1]
      BY <2>1, <2>2, <2>3
  <2> QED BY <2>4, <2>5 DEF SliderInv
<1>2. SliderInv /\ [Slider!SliderNext]_sliderVars => SliderInv'
  <2> SUFFICES ASSUME SliderInv, [Slider!SliderNext]_sliderVars PROVE SliderInv'
      OBVIOUS
  <2> USE DEF SliderInv, Slider!NoHandle
  <2>1. \A n \in Slider!Aligned : n \in min .. max /\ OnStep(n)
    <3>1. \A n \in min .. max : n \in Int
        BY DEF SliderTypeOK
    <3> QED BY <3>1, TrimAlignIsOnStep DEF Slider!Aligned
  <2>2. ASSUME NEW norm \in min .. max, Slider!MouseDrag(norm) PROVE SliderInv'
    <3> USE DEF Slider!MouseDrag
    <3>1. handleIndex \in {0, 1}
        BY <2>2 DEF SliderTypeOK
    <3>2. /\ values' \in [{0, 1} -> Int]
          /\ OnStep(values[0]') /\ OnStep(values[1]') /\ values[0]' <= values[1]'
        BY <2>1, <2>2, <3>1, SlideKeepsOrder
    <3> QED BY <2>2, <3>2 DEF SliderTypeOK, BoundsOK
  <2>3. ASSUME NEW norm \in min .. max, NEW down \in BOOLEAN, Slider!MouseDown(norm, down)
        PROVE  SliderInv'
    <3> USE DEF Slider!MouseDown
    <3>1. PICK i \in {0, 1} : i = Slider!Nearest(norm)
        BY DEF Slider!Nearest
    <3>2. /\ values' \in [{0, 1} -> Int]
          /\ OnStep(values[0]') /\ OnStep(values[1]') /\ values[0]' <= values[1]'
      <4>1. CASE UNCHANGED values
          BY <4>1 DEF SliderTypeOK
      <4>2. CASE Slider!SlideTo(i, norm)
          BY <2>1, <2>3, <4>2, SlideKeepsOrder
      <4> QED BY <2>3, <3>1, <4>1, <4>2
    <3> QED BY <2>3, <3>1, <3>2 DEF SliderTypeOK, BoundsOK
  <2>4. ASSUME NEW key \in {"home", "end", "pageUp", "pageDown", "up", "down"}, Slider!Keydown(key)
        PROVE  SliderInv'
    <3> USE DEF Slider!Keydown
    <3>1. focus \in {0, 1}
        BY <2>4 DEF SliderTypeOK
    <3>2. Slider!Value(focus) \in Int
      <4>1. Slider!Value(focus) \in min .. max
          BY <3>1, ValuesInOrder
      <4> QED BY <4>1 DEF SliderTypeOK
    <3>3. PICK new : new = Slider!Target(key, Slider!Value(focus))
        OBVIOUS
    <3>4. new \in min .. max /\ OnStep(new)
        BY <3>2, <3>3, TargetIsOnStep
    <3>5. /\ values' \in [{0, 1} -> Int]
          /\ OnStep(values[0]') /\ OnStep(values[1]') /\ values[0]' <= values[1]'
        BY <2>4, <3>1, <3>3, <3>4, SlideKeepsOrder
    <3> QED BY <2>4, <3>5 DEF SliderTypeOK, BoundsOK
  <2>5. ASSUME NEW i \in Slider!Handle \cup {-1}, Slider!MoveFocus(i) PROVE SliderInv'
      BY <2>5 DEF Slider!MoveFocus, Slider!Handle, SliderTypeOK, BoundsOK
  <2>6. ASSUME NEW low \in LowestBound .. HighestBound, NEW high \in LowestBound .. HighestBound,
               Slider!SetValues(low, high)
        PROVE  SliderInv'
    <3> USE DEF Slider!SetValues
    <3>1. low \in Int /\ high \in Int /\ low <= high
        BY <2>6, SliderAssumption
    <3>2. PICK v : v = Slider!TrimAlign(low, 1)
        OBVIOUS
    <3>3. PICK w : w = Slider!TrimAlign(high, 1)
        OBVIOUS
    <3>4. OnStep(v) /\ OnStep(w)
        BY <3>1, <3>2, <3>3, TrimAlignIsOnStep
    <3>5. v <= w
        BY <3>1, <3>2, <3>3, TrimAlignInOrder
    <3>6. v \in Int /\ w \in Int
        BY <3>4 DEF OnStep
    <3>7. values' \in [{0, 1} -> Int] /\ values'[0] = v /\ values'[1] = w
        BY <2>6, <3>2, <3>3, <3>6 DEF Slider!Handle
    <3>8. handleIndex' = -1 /\ ~keySliding' => announced' = values'
        BY <2>6 DEF Slider!Change
    <3> QED BY <2>6, <3>4, <3>5, <3>7, <3>8 DEF SliderTypeOK, BoundsOK
  <2>7. ASSUME NEW low \in Slider!Bounds, NEW high \in Slider!Bounds, Slider!SetBounds(low, high)
        PROVE  SliderInv'
    <3>1. OnStep(low) /\ OnStep(high)
        BY BoundsAreOnStep
    <3>2. low \in Int /\ high \in Int
        BY <3>1 DEF OnStep
    <3> QED BY <2>7, <3>1, <3>2 DEF Slider!SetBounds, SliderTypeOK, BoundsOK
  <2>8. CASE Slider!MouseStop
      BY <2>8 DEF Slider!MouseStop, Slider!Change, SliderTypeOK, BoundsOK
  <2>9. CASE Slider!Keyup
      BY <2>9 DEF Slider!Keyup, Slider!Change, SliderTypeOK, BoundsOK
  <2>10. CASE UNCHANGED sliderVars
      BY <2>10 DEF sliderVars, SliderTypeOK, BoundsOK
  <2> QED
      BY <2>2, <2>3, <2>4, <2>5, <2>6, <2>7, <2>8, <2>9, <2>10 DEF Slider!SliderNext
<1> QED BY <1>1, <1>2, PTL DEF Slider!SliderSpec, Slider!sliderVars, sliderVars

(* _slide, _values, _trimAlignValue: the handles stay in order, on steps,  *)
(* and the page is told, for every step and all bounds.                    *)
THEOREM SliderCorrect == Slider!SliderSpec => []RangeIsInOrder
<1>1. SliderInv => RangeIsInOrder
  <2> SUFFICES ASSUME SliderInv PROVE RangeIsInOrder
      OBVIOUS
  <2>1. \A i \in {0, 1} : Slider!Value(i) \in min .. max /\ OnStep(Slider!Value(i))
      BY ValuesInOrder DEF SliderInv
  <2>2. Slider!Value(0) <= Slider!Value(1)
      BY ValuesInOrder DEF SliderInv
  <2>3. \A i \in {0, 1} : (Slider!Value(i) - min) % Step = 0
      BY <2>1, StepsApart DEF SliderInv, BoundsOK
  <2> QED BY <2>1, <2>2, <2>3
          DEF RangeIsInOrder, Slider!RangeIsInOrder, Slider!Handle, Slider!NoHandle, SliderInv
<1> QED BY <1>1, SliderInvariant, PTL

-----------------------------------------------------------------------------
(***************************************************************************)
(* The tooltips: each has an event to come that closes it, and no title is *)
(* lost.                                                                   *)
(***************************************************************************)

(* The tooltips as a record, which one event may change several times.     *)
Tips == [title : [Element -> {"text", "empty", "absent"}], saved : SUBSET Element,
         open : SUBSET Element, shown : [Element -> {"none", "mouseover", "focusin"}],
         parents : SUBSET Element]

(* What is open is marked so, and its title is saved; what is not open has *)
(* its title, or an empty one if it is kept for a parent.                  *)
InStep(s) ==
    \A e \in Element :
        /\ s.shown[e] # "none" =>
              s.title[e] # "text" /\ e \in s.saved \cap s.open /\ e \notin s.parents
        /\ s.shown[e] = "none" =>
              s.title[e] = IF e \in s.parents THEN "empty" ELSE "text"

(* Once the widget has been disabled: it does not give the titles back.    *)
TitlesTaken(s) ==
    \A e \in Element :
        s.shown[e] = "none" /\ s.title[e] = "absent" /\ e \in s.saved \cup s.parents

(* Nothing is shown that was not, but for what the event shows of some.    *)
ShowsOnly(o, s, some, event) ==
    \A x \in Element : \/ o.shown[x] \in {s.shown[x], "none"}
                       \/ x \in some /\ o.shown[x] = event
At(to) == {e \in Element : Tooltips!In(to, e)}

TooltipTypeOK ==
    /\ Tooltips!Now \in Tips
    /\ mouseOver \in Element \cup {Out} /\ focusIn \in Element \cup {Out}
    /\ isDisabled \in BOOLEAN

TooltipInv ==
    /\ TooltipTypeOK
    /\ InStep(Tooltips!Now) \/ TitlesTaken(Tooltips!Now)
    /\ isDisabled => TitlesTaken(Tooltips!Now)
    /\ \A e \in Element :
          /\ tooltips[e] = "mouseover" => Tooltips!In(mouseOver, e)
          /\ tooltips[e] = "focusin" => Tooltips!In(focusIn, e)

(* close keeps the titles in step.                                         *)
LEMMA ClosedInStep ==
    ASSUME NEW s \in Tips, InStep(s),
           NEW closing, closing \subseteq {e \in Element : s.shown[e] # "none"}
    PROVE  /\ Tooltips!Closed(s, closing) \in Tips /\ InStep(Tooltips!Closed(s, closing))
           /\ \A e \in Element : Tooltips!Closed(s, closing).shown[e]
                                   = IF e \in closing THEN "none" ELSE s.shown[e]
<1> DEFINE c == Tooltips!Closed(s, closing)
<1>1. c.saved = s.saved /\ c.open = s.open \ closing /\ c.parents = s.parents
  BY DEF Tips, Tooltips!Closed
<1>2. \A e \in Element :
         /\ c.shown[e] = IF e \in closing THEN "none" ELSE s.shown[e]
         /\ c.title[e] = IF e \in closing \cap s.saved THEN "text" ELSE s.title[e]
  BY DEF Tips, Tooltips!Closed
<1>3. c \in Tips
  BY DEF Tips, Tooltips!Closed
<1>4. InStep(c)
  BY <1>1, <1>2 DEF InStep, Tips
<1> QED BY <1>2, <1>3, <1>4

(* So does what a mouseleave gives back to the parents.                    *)
LEMMA RestoredInStep ==
    ASSUME NEW s \in Tips, InStep(s)
    PROVE  /\ Tooltips!ParentsRestored(s) \in Tips /\ InStep(Tooltips!ParentsRestored(s))
           /\ Tooltips!ParentsRestored(s).shown = s.shown
<1> DEFINE r == Tooltips!ParentsRestored(s)
<1>1. r.saved = s.saved /\ r.open = s.open /\ r.parents = {} /\ r.shown = s.shown
  BY DEF Tips, Tooltips!ParentsRestored
<1>2. \A e \in Element : r.title[e] = IF e \in s.parents THEN "text" ELSE s.title[e]
  BY DEF Tips, Tooltips!ParentsRestored
<1>3. r \in Tips
  BY DEF Tips, Tooltips!ParentsRestored
<1>4. InStep(r)
  BY <1>1, <1>2 DEF InStep, Tips
<1> QED BY <1>1, <1>3, <1>4

(* And what the mouse takes from the parents, when the element is marked.  *)
LEMMA KilledInStep ==
    ASSUME NEW s \in Tips, InStep(s), NEW e \in Element
    PROVE  /\ Tooltips!ParentsKilled(s, e) \in Tips /\ InStep(Tooltips!ParentsKilled(s, e))
           /\ Tooltips!ParentsKilled(s, e).title[e] = s.title[e]
           /\ Tooltips!ParentsKilled(s, e).saved = s.saved
           /\ e \in s.open => e \in Tooltips!ParentsKilled(s, e).open
           /\ e \notin s.parents => e \notin Tooltips!ParentsKilled(s, e).parents
           /\ \A x \in Element : Tooltips!ParentsKilled(s, e).shown[x] \in {s.shown[x], "none"}
<1> DEFINE closing == Around[e] \cap s.open
           c == Tooltips!Closed(s, closing)
           titled == {p \in Around[e] : c.title[p] = "text"}
           k == Tooltips!ParentsKilled(s, e)
<1>1. Around[e] \subseteq Element /\ e \notin Around[e]
  BY TooltipAssumption
<1>2. c.saved = s.saved /\ c.open = s.open \ closing /\ c.parents = s.parents
  BY DEF Tips, Tooltips!Closed
<1>3. \A x \in Element :
         /\ c.shown[x] = IF x \in closing THEN "none" ELSE s.shown[x]
         /\ c.title[x] = IF x \in closing \cap s.saved THEN "text" ELSE s.title[x]
  BY DEF Tips, Tooltips!Closed
<1>4. c \in Tips
  BY DEF Tips, Tooltips!Closed
<1>5. k = [c EXCEPT !.title = [p \in Element |-> IF p \in titled THEN "empty" ELSE c.title[p]],
                    !.parents = @ \cup titled]
  BY DEF Tooltips!ParentsKilled
<1> HIDE DEF c, k
<1>6. k \in Tips
  BY <1>1, <1>4, <1>5 DEF Tips
<1>7. /\ k.saved = s.saved /\ k.open = s.open \ closing /\ k.parents = s.parents \cup titled
      /\ k.shown = c.shown
      /\ \A x \in Element : k.title[x] = IF x \in titled THEN "empty" ELSE c.title[x]
  BY <1>2, <1>4, <1>5 DEF Tips
<1>8. InStep(k)
  <2> SUFFICES ASSUME NEW x \in Element
               PROVE  /\ k.shown[x] # "none" =>
                            k.title[x] # "text" /\ x \in k.saved \cap k.open /\ x \notin k.parents
                      /\ k.shown[x] = "none" =>
                            k.title[x] = IF x \in k.parents THEN "empty" ELSE "text"
      BY DEF InStep
  <2>1. /\ s.shown[x] # "none" =>
              s.title[x] # "text" /\ x \in s.saved \cap s.open /\ x \notin s.parents
        /\ s.shown[x] = "none" =>
              s.title[x] = IF x \in s.parents THEN "empty" ELSE "text"
      BY DEF InStep
  <2>2. CASE x \in Around[e]
      BY <1>3, <1>7, <2>1, <2>2
  <2>3. CASE x \notin Around[e]
      BY <1>3, <1>7, <2>1, <2>3
  <2> QED BY <2>2, <2>3
<1> QED BY <1>1, <1>3, <1>6, <1>7, <1>8 DEF k

(* open keeps the titles in step, and shows nothing but a tooltip of the   *)
(* element.                                                                *)
LEMMA OpenedInStep ==
    ASSUME NEW s \in Tips, InStep(s), NEW e \in Element, NEW event \in {"mouseover", "focusin"}
    PROVE  /\ Tooltips!Opened(s, e, event) \in Tips /\ InStep(Tooltips!Opened(s, e, event))
           /\ ShowsOnly(Tooltips!Opened(s, e, event), s, {e}, event)
<1>1. CASE s.shown[e] # "none"
  BY <1>1 DEF Tooltips!Opened, ShowsOnly
<1>2. CASE s.shown[e] = "none"
  <2> DEFINE marked == [s EXCEPT !.open = @ \cup {e},
                                 !.saved = IF s.title[e] = "text" THEN @ \cup {e} ELSE @]
             settled == IF event = "mouseover" THEN Tooltips!ParentsKilled(marked, e) ELSE marked
             shows == [settled EXCEPT !.shown[e] = event,
                                    !.title[e] = IF event = "mouseover" THEN "empty" ELSE "absent"]
  <2>1. Tooltips!Opened(s, e, event) = IF s.title[e] # "text" THEN settled ELSE shows
      BY <1>2 DEF Tooltips!Opened
  <2>2. marked \in Tips
      BY DEF Tips
  <2>3. /\ marked.open = s.open \cup {e} /\ marked.title = s.title /\ marked.shown = s.shown
        /\ marked.parents = s.parents
        /\ marked.saved = IF s.title[e] = "text" THEN s.saved \cup {e} ELSE s.saved
      BY DEF Tips
  <2> HIDE DEF marked
  <2>4. InStep(marked)
      BY <2>3 DEF InStep
  <2>5. /\ settled \in Tips /\ InStep(settled) /\ settled.title[e] = s.title[e]
        /\ settled.saved = marked.saved /\ e \in settled.open
        /\ e \notin s.parents => e \notin settled.parents
        /\ \A x \in Element : settled.shown[x] \in {s.shown[x], "none"}
    <3>1. CASE event = "mouseover"
      <4>1. settled = Tooltips!ParentsKilled(marked, e)
          BY <3>1
      <4> HIDE DEF settled
      <4> QED BY <4>1, <2>2, <2>3, <2>4, KilledInStep
    <3>2. CASE event # "mouseover"
        BY <3>2, <2>2, <2>3, <2>4
    <3> QED BY <3>1, <3>2
  <2> HIDE DEF settled
  <2>6. CASE s.title[e] # "text"
      BY <2>1, <2>5, <2>6 DEF ShowsOnly
  <2>7. CASE s.title[e] = "text"
    <3>1. shows \in Tips
        BY <2>5 DEF Tips
    <3>2. /\ shows.saved = settled.saved /\ shows.open = settled.open /\ shows.parents = settled.parents
          /\ shows.shown[e] = event
          /\ shows.title[e] = IF event = "mouseover" THEN "empty" ELSE "absent"
          /\ \A x \in Element \ {e} : shows.shown[x] = settled.shown[x] /\ shows.title[x] = settled.title[x]
        BY <2>5 DEF Tips
    <3> HIDE DEF shows
    <3>3. e \in shows.saved /\ e \in shows.open
        BY <2>3, <2>5, <2>7, <3>2
    <3>4. e \notin shows.parents
        BY <1>2, <2>5, <2>7, <3>2 DEF InStep
    <3>5. InStep(shows)
      <4> SUFFICES ASSUME NEW x \in Element
                   PROVE  /\ shows.shown[x] # "none" =>
                                /\ shows.title[x] # "text" /\ x \in shows.saved \cap shows.open
                                /\ x \notin shows.parents
                          /\ shows.shown[x] = "none" =>
                                shows.title[x] = IF x \in shows.parents THEN "empty" ELSE "text"
          BY DEF InStep
      <4>1. CASE x = e
          BY <3>2, <3>3, <3>4, <4>1
      <4>2. CASE x # e
          BY <2>5, <3>2, <4>2 DEF InStep
      <4> QED BY <4>1, <4>2
    <3>6. Tooltips!Opened(s, e, event) = shows
        BY <2>1, <2>7
    <3>7. ShowsOnly(shows, s, {e}, event)
        BY <2>5, <3>2 DEF ShowsOnly
    <3> QED BY <3>1, <3>5, <3>6, <3>7
  <2> QED BY <2>6, <2>7
<1> QED BY <1>1, <1>2

(* So does the opening of the innermost element with a title at a place.   *)
LEMMA OpenedAtInStep ==
    ASSUME NEW s \in Tips, InStep(s), NEW to \in Element \cup {Out},
           NEW event \in {"mouseover", "focusin"}
    PROVE  /\ Tooltips!OpenedAt(s, to, event) \in Tips /\ InStep(Tooltips!OpenedAt(s, to, event))
           /\ ShowsOnly(Tooltips!OpenedAt(s, to, event), s, At(to), event)
<1> DEFINE titled == {e \in Element : Tooltips!In(to, e) /\ s.title[e] # "absent"}
<1>1. CASE titled = {}
  BY <1>1 DEF Tooltips!OpenedAt, ShowsOnly
<1>2. CASE titled # {}
  <2>1. to \in Element /\ titled \subseteq Around[to] \cup {to}
      BY <1>2 DEF Tooltips!In, Tooltips!Holding
  <2>2. titled \in SUBSET (Around[to] \cup {to}) /\ titled # {}
      BY <1>2, <2>1
  <2>3. \E e \in titled : titled \subseteq Tooltips!Holding(e)
    <3> HIDE DEF titled
    <3>1. \E e \in titled : titled \subseteq Around[e] \cup {e}
        BY <2>1, <2>2, TooltipAssumption
    <3> QED BY <3>1 DEF Tooltips!Holding
  <2>10. PICK inner : inner = CHOOSE e \in titled : titled \subseteq Tooltips!Holding(e)
      OBVIOUS
  <2>4. inner \in titled
      BY <2>3, <2>10
  <2>5. Tooltips!OpenedAt(s, to, event) = Tooltips!Opened(s, inner, event)
      BY <1>2, <2>10 DEF Tooltips!OpenedAt
  <2>6. inner \in Element /\ Tooltips!In(to, inner)
      BY <2>4
  <2>7. PICK o : o = Tooltips!Opened(s, inner, event)
      OBVIOUS
  <2>8. /\ o \in Tips /\ InStep(o)
        /\ ShowsOnly(o, s, {inner}, event)
      BY <2>6, <2>7, OpenedInStep
  <2>9. ShowsOnly(o, s, At(to), event)
      BY <2>6, <2>8 DEF ShowsOnly, At
  <2> QED BY <2>5, <2>7, <2>8, <2>9
<1> QED BY <1>1, <1>2

(* What a step makes of the tooltips is a record again.                    *)
LEMMA BecomeIs ==
    ASSUME NEW s \in Tips, Tooltips!Become(s)
    PROVE  Tooltips!Now' = s /\ tooltips' = s.shown
BY DEF Tooltips!Become, Tooltips!Now, Tips

(* The invariant holds in every reachable state of the tooltips.           *)
THEOREM TooltipInvariant == Tooltips!TooltipSpec => []TooltipInv
<1>1. Tooltips!TooltipInit => TooltipInv
  <2> SUFFICES ASSUME Tooltips!TooltipInit PROVE TooltipInv
      OBVIOUS
  <2> USE DEF Tooltips!TooltipInit, TooltipInv, TooltipTypeOK
  <2>1. Tooltips!Now \in Tips
      BY DEF Tooltips!Now, Tips
  <2>2. InStep(Tooltips!Now)
      BY DEF Tooltips!Now, InStep
  <2> QED BY <2>1, <2>2
<1>2. TooltipInv /\ [Tooltips!TooltipNext]_(Tooltips!tooltipVars) => TooltipInv'
  <2> SUFFICES ASSUME TooltipInv, [Tooltips!TooltipNext]_(Tooltips!tooltipVars) PROVE TooltipInv'
      OBVIOUS
  <2> USE DEF TooltipInv, TooltipTypeOK
  <2>1. PICK now : now = Tooltips!Now
      OBVIOUS
  <2>2. now \in Tips /\ now.shown = tooltips /\ (InStep(now) \/ TitlesTaken(now))
      BY <2>1 DEF Tooltips!Now
  <2>3. ASSUME UNCHANGED Tooltips!tips PROVE Tooltips!Now' = Tooltips!Now /\ tooltips' = tooltips
      BY <2>3 DEF Tooltips!tips, Tooltips!Now
  (* Once the titles are taken nothing is opened or closed. *)
  <2>4. ASSUME TitlesTaken(now), NEW to \in Element \cup {Out}, NEW event
        PROVE  Tooltips!OpenedAt(now, to, event) = now
    <3>1. {e \in Element : Tooltips!In(to, e) /\ now.title[e] # "absent"} = {}
        BY <2>4 DEF TitlesTaken
    <3> QED BY <3>1 DEF Tooltips!OpenedAt
  <2>5. Tooltips!Closed(now, {}) = now
    <3>1. [e \in Element |-> IF e \in {} \cap now.saved THEN "text" ELSE now.title[e]] = now.title
        BY <2>2 DEF Tips
    <3>2. [e \in Element |-> IF e \in {} THEN "none" ELSE now.shown[e]] = now.shown
        BY <2>2 DEF Tips
    <3>3. now.open \ {} = now.open
        OBVIOUS
    <3>4. Tooltips!Closed(now, {}) = [now EXCEPT !.title = now.title, !.open = now.open, !.shown = now.shown]
        BY <3>1, <3>2, <3>3 DEF Tooltips!Closed
    <3> QED BY <2>2, <3>4 DEF Tips
  <2>6. ASSUME NEW to \in Element \cup {Out}, Tooltips!MouseTo(to) PROVE TooltipInv'
    <3> USE DEF Tooltips!MouseTo
    <3>1. /\ mouseOver' = to /\ focusIn' = focusIn /\ isDisabled' = isDisabled
        BY <2>6
    <3>2. CASE isDisabled
      <4>1. TitlesTaken(Tooltips!Now)
          BY <3>2
      <4>2. \A e \in Element : tooltips[e] = "none"
          BY <4>1 DEF TitlesTaken, Tooltips!Now
      <4>3. Tooltips!Now' = Tooltips!Now /\ tooltips' = tooltips
          BY <2>3, <2>6, <3>2
      <4> QED BY <3>1, <4>1, <4>2, <4>3
    <3>3. CASE ~isDisabled
      <4> DEFINE left == {e \in Element : Tooltips!In(mouseOver, e) /\ ~Tooltips!In(to, e)
                                            /\ tooltips[e] = "mouseover"}
                 s == IF left = {} THEN now ELSE Tooltips!ParentsRestored(Tooltips!Closed(now, left))
      <4>1. Tooltips!Become(Tooltips!OpenedAt(s, to, "mouseover"))
          BY <2>1, <2>6, <3>3
      <4>2. CASE TitlesTaken(now)
        <5>1. left = {}
            BY <2>2, <4>2 DEF TitlesTaken
        <5>2. Tooltips!OpenedAt(s, to, "mouseover") = now
            BY <2>4, <4>2, <5>1
        <5>3. Tooltips!Now' = now /\ tooltips' = tooltips
            BY <2>2, <4>1, <5>2, BecomeIs
        <5>4. \A e \in Element : tooltips[e] = "none"
            BY <2>2, <4>2 DEF TitlesTaken
        <5> QED BY <2>2, <3>1, <4>2, <5>3, <5>4
      <4>3. CASE InStep(now)
        <5>1. left \subseteq {e \in Element : now.shown[e] # "none"}
            BY <2>2
        <5>2. PICK l : l = left
            OBVIOUS
        <5>3. s \in Tips /\ InStep(s) /\ \A e \in Element :
                 s.shown[e] = IF e \in l THEN "none" ELSE tooltips[e]
          <6>1. CASE left = {}
              BY <2>2, <4>3, <5>2, <6>1
          <6>2. CASE left # {}
            <7>1. PICK c : c = Tooltips!Closed(now, l)
                OBVIOUS
            <7>2. s = Tooltips!ParentsRestored(c)
                BY <5>2, <6>2, <7>1
            <7>3. /\ c \in Tips /\ InStep(c)
                  /\ \A e \in Element : c.shown[e] = IF e \in l THEN "none" ELSE now.shown[e]
                BY <2>2, <4>3, <5>1, <5>2, <7>1, ClosedInStep
            <7> HIDE DEF s
            <7> QED BY <2>2, <7>2, <7>3, RestoredInStep
          <6> QED BY <6>1, <6>2
        <5>4. PICK t : t = s
            OBVIOUS
        <5>5. PICK o : o = Tooltips!OpenedAt(t, to, "mouseover")
            OBVIOUS
        <5>6. /\ o \in Tips /\ InStep(o)
              /\ ShowsOnly(o, t, At(to), "mouseover")
            BY <5>3, <5>4, <5>5, OpenedAtInStep
        <5>7. Tooltips!Now' = o /\ tooltips' = o.shown
            BY <4>1, <5>4, <5>5, <5>6, BecomeIs
        <5>8. \A e \in Element :
                 /\ o.shown[e] = "mouseover" => Tooltips!In(to, e)
                 /\ o.shown[e] = "focusin" => Tooltips!In(focusIn, e)
            BY <2>2, <5>2, <5>3, <5>4, <5>6 DEF ShowsOnly, At
        <5> QED BY <3>1, <3>3, <5>6, <5>7, <5>8
      <4> QED BY <2>2, <4>2, <4>3
    <3> QED BY <3>2, <3>3
  <2>7. ASSUME NEW to \in Element \cup {Out}, Tooltips!FocusTo(to) PROVE TooltipInv'
    <3> USE DEF Tooltips!FocusTo
    <3>1. focusIn' = to /\ mouseOver' = mouseOver /\ isDisabled' = isDisabled
        BY <2>7
    <3>2. CASE isDisabled
      <4>1. TitlesTaken(Tooltips!Now)
          BY <3>2
      <4>2. \A e \in Element : tooltips[e] = "none"
          BY <4>1 DEF TitlesTaken, Tooltips!Now
      <4>3. Tooltips!Now' = Tooltips!Now /\ tooltips' = tooltips
          BY <2>3, <2>7, <3>2
      <4> QED BY <3>1, <4>1, <4>2, <4>3
    <3>3. CASE ~isDisabled
      <4>1. PICK left : left = {e \in Element : Tooltips!In(focusIn, e) /\ tooltips[e] = "focusin"}
          OBVIOUS
      <4>2. PICK s : s = Tooltips!Closed(now, left)
          OBVIOUS
      <4>3. Tooltips!Become(Tooltips!OpenedAt(s, to, "focusin"))
          BY <2>1, <2>7, <3>3, <4>1, <4>2
      <4>4. CASE TitlesTaken(now)
        <5>1. left = {}
            BY <2>2, <4>1, <4>4 DEF TitlesTaken
        <5>2. Tooltips!OpenedAt(s, to, "focusin") = now
            BY <2>4, <2>5, <4>2, <4>4, <5>1
        <5>3. Tooltips!Now' = now /\ tooltips' = tooltips
            BY <2>2, <4>3, <5>2, BecomeIs
        <5>4. \A e \in Element : tooltips[e] = "none"
            BY <2>2, <4>4 DEF TitlesTaken
        <5> QED BY <2>2, <3>1, <4>4, <5>3, <5>4
      <4>5. CASE InStep(now)
        <5>1. left \subseteq {e \in Element : now.shown[e] # "none"}
            BY <2>2, <4>1
        <5>2. s \in Tips /\ InStep(s) /\ \A e \in Element :
                 s.shown[e] = IF e \in left THEN "none" ELSE now.shown[e]
            BY <2>2, <4>2, <4>5, <5>1, ClosedInStep
        <5>3. PICK o : o = Tooltips!OpenedAt(s, to, "focusin")
            OBVIOUS
        <5>4. /\ o \in Tips /\ InStep(o)
              /\ ShowsOnly(o, s, At(to), "focusin")
            BY <5>2, <5>3, OpenedAtInStep
        <5>5. Tooltips!Now' = o /\ tooltips' = o.shown
            BY <4>3, <5>3, <5>4, BecomeIs
        <5>6. \A e \in Element :
                 /\ o.shown[e] = "mouseover" => Tooltips!In(mouseOver, e)
                 /\ o.shown[e] = "focusin" => Tooltips!In(to, e)
            BY <2>2, <4>1, <5>2, <5>4 DEF ShowsOnly, At
        <5> QED BY <3>1, <3>3, <5>4, <5>5, <5>6
      <4> QED BY <2>2, <4>4, <4>5
    <3> QED BY <3>2, <3>3
  <2>8. CASE Tooltips!Escape
    <3> USE DEF Tooltips!Escape
    <3>1. UNCHANGED <<mouseOver, focusIn, isDisabled>> /\ ~isDisabled
        BY <2>8
    <3>2. PICK closing : closing = {e \in Tooltips!Holding(focusIn) : tooltips[e] # "none"}
        OBVIOUS
    <3>3. Tooltips!Become(Tooltips!Closed(now, closing))
        BY <2>1, <2>8, <3>2
    <3>4. closing \subseteq {e \in Element : now.shown[e] # "none"}
      <4>1. focusIn \in Element
          BY <2>8
      <4>2. Tooltips!Holding(focusIn) \subseteq Element
          BY <4>1, TooltipAssumption DEF Tooltips!Holding
      <4> QED BY <2>2, <3>2, <4>2
    <3>5. CASE TitlesTaken(now)
      <4>1. closing = {}
          BY <3>4, <3>5 DEF TitlesTaken
      <4>2. Tooltips!Now' = now /\ tooltips' = tooltips
          BY <2>2, <2>5, <3>3, <4>1, BecomeIs
      <4> QED BY <2>2, <3>1, <3>5, <4>2 DEF Tooltips!In
    <3>6. CASE InStep(now)
      <4>1. PICK c : c = Tooltips!Closed(now, closing)
          OBVIOUS
      <4>2. /\ c \in Tips /\ InStep(c)
            /\ \A e \in Element : c.shown[e] = IF e \in closing THEN "none" ELSE now.shown[e]
          BY <2>2, <3>4, <3>6, <4>1, ClosedInStep
      <4>3. Tooltips!Now' = c /\ tooltips' = c.shown
          BY <3>3, <4>1, <4>2, BecomeIs
      <4> QED BY <2>2, <3>1, <4>2, <4>3 DEF Tooltips!In
    <3> QED BY <2>2, <3>5, <3>6
  <2>9. CASE Tooltips!Disable
    <3> USE DEF Tooltips!Disable
    <3>1. UNCHANGED <<mouseOver, focusIn>> /\ isDisabled' = TRUE
        BY <2>9
    <3>2. PICK closing : closing = {e \in Element : now.shown[e] # "none"}
        OBVIOUS
    <3>3. PICK s : s = Tooltips!Closed(now, closing)
        OBVIOUS
    <3>4. PICK t : t = [s EXCEPT !.saved = (@ \ {e \in Element : s.title[e] = "empty"})
                                            \cup {e \in Element : s.title[e] = "text"},
                                 !.title = [e \in Element |-> "absent"]]
        OBVIOUS
    <3>5. Tooltips!Become(t)
        BY <2>1, <2>2, <2>9, <3>2, <3>3, <3>4
    <3>6. /\ s \in Tips /\ \A e \in Element : s.shown[e] = "none"
          /\ InStep(s) \/ TitlesTaken(s)
      <4>1. CASE TitlesTaken(now)
        <5>1. closing = {}
            BY <3>2, <4>1 DEF TitlesTaken
        <5> QED BY <2>2, <2>5, <3>3, <4>1, <5>1 DEF TitlesTaken
      <4>2. CASE InStep(now)
          BY <2>2, <3>2, <3>3, <4>2, ClosedInStep
      <4> QED BY <2>2, <4>1, <4>2
    <3>7. t \in Tips /\ t.shown = s.shown /\ t.parents = s.parents
        BY <3>4, <3>6 DEF Tips
    <3>8. /\ t.saved = (s.saved \ {e \in Element : s.title[e] = "empty"})
                          \cup {e \in Element : s.title[e] = "text"}
          /\ \A e \in Element : t.title[e] = "absent"
        BY <3>4, <3>6 DEF Tips
    <3>9. TitlesTaken(t)
        BY <3>6, <3>7, <3>8 DEF TitlesTaken, InStep
    <3>10. Tooltips!Now' = t /\ tooltips' = t.shown
        BY <3>5, <3>7, BecomeIs
    <3> QED BY <2>2, <3>1, <3>6, <3>7, <3>9, <3>10
  <2>10. CASE Tooltips!Enable
    <3> USE DEF Tooltips!Enable
    <3>1. TitlesTaken(now)
        BY <2>1, <2>10
    <3>2. title = now.title /\ now.title \in [Element -> {"text", "empty", "absent"}]
        BY <2>1, <2>2 DEF Tooltips!Now, Tips
    <3>3. title' = title
        BY <2>10, <3>1, <3>2 DEF TitlesTaken
    <3>4. Tooltips!Now' = Tooltips!Now /\ tooltips' = tooltips
        BY <2>10, <3>3 DEF Tooltips!Now
    <3> QED BY <2>1, <2>2, <2>10, <3>1, <3>4
  <2>11. CASE UNCHANGED Tooltips!tooltipVars
    <3>1. Tooltips!Now' = Tooltips!Now /\ tooltips' = tooltips
        BY <2>3, <2>11 DEF Tooltips!tooltipVars
    <3> QED BY <2>11, <3>1 DEF Tooltips!tooltipVars
  <2> QED BY <2>6, <2>7, <2>8, <2>9, <2>10, <2>11 DEF Tooltips!TooltipNext
<1> QED BY <1>1, <1>2, PTL DEF Tooltips!TooltipSpec

(* open, close, _disable and the titles of the parents: for elements that  *)
(* lie in each other in any way.                                           *)
THEOREM TooltipsCorrect == Tooltips!TooltipSpec => []TooltipIsHeld
<1>1. TooltipInv => TooltipIsHeld
  BY DEF TooltipInv, TooltipIsHeld, Tooltips!TooltipIsHeld, TooltipTypeOK, InStep, TitlesTaken,
         Tooltips!Now, Tips
<1> QED BY <1>1, TooltipInvariant, PTL

-----------------------------------------------------------------------------
(***************************************************************************)
(* The dialogs: closed in any order they keep count, and the focus.        *)
(***************************************************************************)

DialogsTypeOK ==
    /\ open \subseteq Dialog /\ IsFiniteSet(open)
    /\ showing \in [Dialog -> Nat]
    /\ dialogsFocus \in Dialogs!Visible \cup {Page, Nowhere}
    /\ opener \in [Dialog -> Dialog \cup {Page, Nowhere}]
    /\ instances \in Seq(Dialog)
    /\ bound \in BOOLEAN /\ isOpening \in BOOLEAN

Even(n) == \E k \in Nat : n = 2 * k
Odd(n) == \E k \in Nat : n = 2 * k + 1

(* Only dialogs with an effect have something in their queue, of which the *)
(* last shows the dialog just if it is open; and only they can have been   *)
(* opened while they were seen.                                            *)
Queued(n, isShown) == IF isShown THEN Odd(n) ELSE Even(n)

EffectsInv ==
    \A d \in Dialog :
        /\ showing[d] > 0 => d \in AnimatedDialog /\ Queued(showing[d], d \in open)
        /\ opener[d] = d => d \in AnimatedDialog

(* The dialogs that are isShown are in the list: the handler has somewhere   *)
(* to send the focus to.  One that has the focus when its effect ends is   *)
(* there before, and is not noted again.                                   *)
TrackedInv ==
    \A d \in Dialog :
        /\ d \in open /\ showing[d] = 0 => d \in ToSet(instances)
        /\ d \in ToSet(instances) /\ d \notin open => d \in AnimatedDialog
        /\ dialogsFocus = d /\ d \in open /\ showing[d] <= 1 => d \in ToSet(instances)

CountedInv ==
    /\ overlays = Cardinality(open \cap Modal)
    /\ bound <=> open \cap Modal # {}

DialogsInv == DialogsTypeOK /\ EffectsInv /\ TrackedInv /\ CountedInv

LEMMA QueuedIs ==
    ASSUME NEW n \in Nat
    PROVE  /\ n = 0 \/ Queued(n, FALSE) => Queued(n + 1, TRUE)
           /\ Queued(n, TRUE) => Queued(n + 1, FALSE)
           /\ \A isShown \in BOOLEAN : n > 2 /\ Queued(n, isShown) => Queued(n - 2, isShown)
           /\ ~Queued(1, FALSE) /\ ~Queued(2, TRUE)
<1>1. Odd(0 + 1) /\ (Even(n) => Odd(n + 1))
  BY DEF Even, Odd
<1>2. Odd(n) => Even(n + 1)
  <2> SUFFICES ASSUME NEW k \in Nat, n = 2 * k + 1 PROVE Even(n + 1)
      BY DEF Odd
  <2>1. k + 1 \in Nat /\ n + 1 = 2 * (k + 1)
      OBVIOUS
  <2> QED BY <2>1 DEF Even
<1>3. n > 2 /\ Even(n) => Even(n - 2)
  <2> SUFFICES ASSUME NEW k \in Nat, n = 2 * k, n > 2 PROVE Even(n - 2)
      BY DEF Even
  <2>1. k - 1 \in Nat /\ n - 2 = 2 * (k - 1)
      OBVIOUS
  <2> QED BY <2>1 DEF Even
<1>4. n > 2 /\ Odd(n) => Odd(n - 2)
  <2> SUFFICES ASSUME NEW k \in Nat, n = 2 * k + 1, n > 2 PROVE Odd(n - 2)
      BY DEF Odd
  <2>1. k - 1 \in Nat /\ n - 2 = 2 * (k - 1) + 1
      OBVIOUS
  <2> QED BY <2>1 DEF Odd
<1>5. ~Even(1) /\ ~Odd(2)
  BY DEF Even, Odd
<1> QED BY <1>1, <1>2, <1>3, <1>4, <1>5 DEF Queued

LEMMA WithoutIs ==
    ASSUME NEW list \in Seq(Dialog), NEW d
    PROVE  /\ Dialogs!Without(list, d) \in Seq(Dialog)
           /\ ToSet(Dialogs!Without(list, d)) = ToSet(list) \ {d}
<1>1. Dialogs!Without(list, d) = OnlyIn(list, Dialog \ {d})
  BY DEF Dialogs!Without, Dialogs!OnlyIn, OnlyIn
<1>2. ToSet(list) \subseteq Dialog
  BY DEF ToSet
<1> QED BY <1>1, <1>2, OnlyInHas

(* _trackFocus and the handler: the focus goes to a place, and is noted in *)
(* a dialog, unless it was there.                                          *)
FocusWent(final, to, list, handled, hidden) ==
    /\ dialogsFocus' = (IF final \in hidden THEN Nowhere ELSE final)
    /\ instances' \in Seq(Dialog)
    /\ ToSet(list) \subseteq ToSet(instances')
    /\ ToSet(instances') \subseteq ToSet(list) \cup {final}
    /\ final \in Dialog => final \in ToSet(instances') \/ final = dialogsFocus
    /\ to # Page => final = to
    /\ to = Page => final = Page \/ final \in ToSet(list)
    /\ final = Page /\ handled =>
          ToSet(list) = {} \/ \E d \in ToSet(list) : d \notin Dialogs!Visible

LEMMA FocusGoesWhere ==
    ASSUME NEW some \in SUBSET Dialog, Dialogs!Visible \subseteq some,
           NEW list \in Seq(Dialog), NEW to \in some \cup {Page, Nowhere},
           NEW handled \in BOOLEAN, NEW hidden,
           Dialogs!FocusGoes(to, list, handled, hidden)
    PROVE  \E final \in some \cup {Page, Nowhere} : FocusWent(final, to, list, handled, hidden)
<1> USE DialogAssumption
<1> DEFINE sent == to = Page /\ handled /\ list # <<>> /\ Head(list) \in Dialogs!Visible
           final == IF sent THEN Head(list) ELSE to
<1>1. /\ dialogsFocus' = (IF final \in hidden THEN Nowhere ELSE final)
      /\ \/ final \in Dialog /\ instances' = <<final>> \o Dialogs!Without(list, final)
         \/ (final = dialogsFocus \/ final \notin Dialog) /\ instances' = list
  BY DEF Dialogs!FocusGoes
<1>2. list # <<>> => Head(list) \in ToSet(list)
  BY DEF ToSet
<1>3. list = <<>> => ToSet(list) = {}
  BY DEF ToSet
<1>4. final \in some \cup {Page, Nowhere} /\ (to # Page => final = to)
      /\ (to = Page => final = Page \/ final \in ToSet(list))
  BY <1>2
<1>5. final = Page /\ handled => ToSet(list) = {} \/ \E d \in ToSet(list) : d \notin Dialogs!Visible
  BY <1>2, <1>3
<1> HIDE DEF final
<1>6. CASE final \in Dialog /\ instances' = <<final>> \o Dialogs!Without(list, final)
  <2>1. PICK rest \in Seq(Dialog) : /\ rest = Dialogs!Without(list, final)
                                    /\ ToSet(rest) = ToSet(list) \ {final}
      BY WithoutIs
  <2>2. instances' = <<final>> \o rest
      BY <1>6, <2>1
  <2>3. <<final>> \in Seq(Dialog) /\ <<final>> \o rest \in Seq(Dialog)
      BY <1>6
  <2>4. ToSet(<<final>> \o rest) = {final} \cup ToSet(rest)
      BY <1>6, PrependHas
  <2>5. ToSet(instances') = {final} \cup ToSet(list)
      BY <2>1, <2>2, <2>4
  <2> QED BY <1>1, <1>4, <1>5, <2>2, <2>3, <2>5 DEF FocusWent
<1>7. CASE (final = dialogsFocus \/ final \notin Dialog) /\ instances' = list
  BY <1>1, <1>4, <1>5, <1>7 DEF FocusWent
<1> QED BY <1>1, <1>6, <1>7

(* The modal dialogs are counted.                                          *)
LEMMA CountingModal ==
    ASSUME NEW some, IsFiniteSet(some)
    PROVE  /\ Cardinality(some \cap Modal) \in Nat
           /\ some \cap Modal = {} <=> Cardinality(some \cap Modal) = 0
<1>1. IsFiniteSet(some \cap Modal)
  BY FS_Subset
<1> QED BY <1>1, FS_CardinalityType, FS_EmptySet

LEMMA CountingOneMore ==
    ASSUME NEW some, IsFiniteSet(some), NEW d \in Modal \ some
    PROVE  Cardinality((some \cup {d}) \cap Modal) = Cardinality(some \cap Modal) + 1
<1>1. PICK now : now = some \cap Modal
  OBVIOUS
<1>2. IsFiniteSet(now) /\ d \notin now /\ (some \cup {d}) \cap Modal = now \cup {d}
  BY <1>1, FS_Subset
<1>3. Cardinality(now \cup {d}) = Cardinality(now) + 1
  BY <1>2, FS_AddElement
<1> QED BY <1>1, <1>2, <1>3

LEMMA CountingOneLess ==
    ASSUME NEW some, IsFiniteSet(some), NEW d \in Modal \cap some
    PROVE  Cardinality((some \ {d}) \cap Modal) = Cardinality(some \cap Modal) - 1
<1>1. PICK now : now = some \cap Modal
  OBVIOUS
<1>2. IsFiniteSet(now) /\ d \in now /\ (some \ {d}) \cap Modal = now \ {d}
  BY <1>1, FS_Subset
<1>3. Cardinality(now \ {d}) = Cardinality(now) - 1
  BY <1>2, FS_RemoveElement
<1> QED BY <1>1, <1>2, <1>3

(* The focus moves, and nothing else does.                                 *)
LEMMA FocusMovesKeep ==
    ASSUME DialogsInv, NEW to \in Dialogs!Visible \cup {Page, Nowhere}, NEW handled \in BOOLEAN,
           Dialogs!FocusGoes(to, instances, handled, {}),
           to = Page => handled = (bound /\ ~isOpening),
           UNCHANGED <<open, showing, opener, overlays, bound, isOpening>>
    PROVE  DialogsInv' /\ Dialogs!FocusLeavesPage
<1> USE DialogAssumption DEF DialogsInv, DialogsTypeOK
<1>1. Dialogs!Visible \in SUBSET Dialog /\ Dialogs!Visible' = Dialogs!Visible
  BY DEF Dialogs!Visible
<1>2. PICK final \in Dialogs!Visible \cup {Page, Nowhere} :
          FocusWent(final, to, instances, handled, {})
  <2>1. Dialogs!Visible \subseteq Dialogs!Visible /\ instances \in Seq(Dialog)
      OBVIOUS
  <2> HIDE DEF DialogsInv, DialogsTypeOK
  <2> QED BY <1>1, <2>1, FocusGoesWhere
<1> USE DEF FocusWent
<1>3. DialogsTypeOK' /\ EffectsInv' /\ CountedInv'
  BY <1>1, <1>2 DEF EffectsInv, CountedInv
<1>4. TrackedInv'
  <2> SUFFICES ASSUME NEW d \in Dialog
               PROVE  /\ d \in open /\ showing[d] = 0 => d \in ToSet(instances')
                      /\ d \in ToSet(instances') /\ d \notin open => d \in AnimatedDialog
                      /\ dialogsFocus' = d /\ d \in open /\ showing[d] <= 1 => d \in ToSet(instances')
      BY DEF TrackedInv
  <2>1. final = d /\ d \notin open => d \in AnimatedDialog
      BY <1>2 DEF EffectsInv, Dialogs!Visible
  <2> QED BY <1>2, <2>1 DEF TrackedInv
<1>5. Dialogs!FocusLeavesPage
  <2> SUFFICES ASSUME dialogsFocus' = Page, bound, ~isOpening
               PROVE  \/ \A d \in open : showing[d] > 0
                      \/ \E d \in Dialogs!Range(instances') \cap AnimatedDialog : d \notin open
      BY DEF Dialogs!FocusLeavesPage
  <2>1. final = Page /\ to = Page /\ handled
      BY <1>2
  <2>2. CASE ToSet(instances) = {}
      BY <2>2 DEF TrackedInv
  <2>3. CASE \E d \in ToSet(instances) : d \notin Dialogs!Visible
    <3>1. PICK d \in ToSet(instances) : d \notin open
        BY <2>3 DEF Dialogs!Visible
    <3>2. d \in Dialog
        BY DEF ToSet
    <3>3. d \in ToSet(instances') /\ d \in AnimatedDialog
        BY <1>2, <3>1, <3>2 DEF TrackedInv
    <3> QED BY <3>1, <3>3 DEF Dialogs!Range, ToSet
  <2> QED BY <1>2, <2>1, <2>2, <2>3
<1> QED BY <1>3, <1>4, <1>5

(* Opening counts, and shows or begins to.                                 *)
LEMMA OpenKeepsDialogs ==
    ASSUME DialogsInv, NEW d \in Dialog, Dialogs!Open(d)
    PROVE  DialogsInv' /\ Dialogs!FocusLeavesPage
<1> USE DialogAssumption DEF DialogsInv, DialogsTypeOK, Dialogs!Open, Dialogs!focusVars
<1>1. PICK now : now = open \cup {d}
  OBVIOUS
<1>2. open' = now /\ now \in SUBSET Dialog /\ d \notin open /\ IsFiniteSet(now)
  BY <1>1, FS_AddElement
<1>3. CountedInv' /\ bound' \in BOOLEAN /\ isOpening' \in BOOLEAN
  <2> USE DEF Dialogs!CreateOverlay, Dialogs!modality, CountedInv
  <2>1. CASE d \in Modal
    <3>1. Cardinality(now \cap Modal) = Cardinality(open \cap Modal) + 1
        BY <1>1, <1>2, <2>1, CountingOneMore
    <3>2. now \cap Modal # {}
        BY <1>1, <2>1
    <3>3. bound' = TRUE /\ overlays' = overlays + 1 /\ isOpening' \in BOOLEAN
        BY <2>1
    <3> QED BY <1>2, <3>1, <3>2, <3>3
  <2>2. CASE d \notin Modal
    <3>1. now \cap Modal = open \cap Modal
        BY <1>1, <2>2
    <3>2. UNCHANGED <<overlays, bound, isOpening>>
        BY <2>2
    <3> QED BY <1>2, <3>1, <3>2
  <2> QED BY <2>1, <2>2
<1>4. /\ opener' \in [Dialog -> Dialog \cup {Page, Nowhere}]
      /\ opener'[d] = dialogsFocus /\ \A e \in Dialog : e # d => opener'[e] = opener[e]
  BY DEF Dialogs!Visible
<1>5. dialogsFocus = d => showing[d] > 0
  BY <1>2 DEF Dialogs!Visible
<1>6. CASE d \in AnimatedDialog
  <2>1. /\ showing' = [showing EXCEPT ![d] = @ + 1] /\ UNCHANGED <<dialogsFocus, instances>>
      BY <1>6
  <2>2. /\ showing' \in [Dialog -> Nat] /\ showing'[d] = showing[d] + 1
        /\ \A e \in Dialog : e # d => showing'[e] = showing[e]
      BY <2>1
  <2>3. Dialogs!Visible \subseteq Dialogs!Visible'
      BY <1>1, <1>2, <2>2 DEF Dialogs!Visible
  <2>4. DialogsTypeOK'
      BY <1>2, <1>3, <1>4, <2>1, <2>2, <2>3
  <2>5. EffectsInv'
    <3> SUFFICES ASSUME NEW e \in Dialog
                 PROVE  /\ showing'[e] > 0 => e \in AnimatedDialog /\ Queued(showing'[e], e \in open')
                        /\ opener'[e] = e => e \in AnimatedDialog
        BY DEF EffectsInv
    <3>1. CASE e = d
      <4>1. showing[d] \in Nat /\ (showing[d] = 0 \/ Queued(showing[d], FALSE))
          BY <1>2 DEF EffectsInv, Queued
      <4>2. Queued(showing'[d], TRUE)
          BY <2>2, <4>1, QueuedIs
      <4>3. (d \in open') = TRUE
          BY <1>1, <1>2
      <4> QED BY <1>6, <3>1, <4>2, <4>3
    <3>2. CASE e # d
        BY <1>1, <1>2, <1>4, <2>2, <3>2 DEF EffectsInv
    <3> QED BY <3>1, <3>2
  <2>6. TrackedInv'
    <3> SUFFICES ASSUME NEW e \in Dialog
                 PROVE  /\ e \in open' /\ showing'[e] = 0 => e \in ToSet(instances)
                        /\ e \in ToSet(instances) /\ e \notin open' => e \in AnimatedDialog
                        /\ dialogsFocus = e /\ e \in open' /\ showing'[e] <= 1 => e \in ToSet(instances)
        BY <2>1 DEF TrackedInv
    <3>1. CASE e = d
        BY <1>1, <1>2, <1>5, <2>2, <3>1
    <3>2. CASE e # d
        BY <1>1, <1>2, <2>2, <3>2 DEF TrackedInv
    <3> QED BY <3>1, <3>2
  <2>7. Dialogs!FocusLeavesPage
      BY <2>1 DEF Dialogs!FocusLeavesPage
  <2> QED BY <1>3, <2>4, <2>5, <2>6, <2>7
<1>7. CASE d \notin AnimatedDialog
  <2>1. UNCHANGED showing /\ Dialogs!FocusGoes(d, instances, FALSE, {})
      BY <1>7
  <2>2. showing[d] = 0 /\ dialogsFocus # d
      BY <1>5, <1>7 DEF EffectsInv
  <2>3. Dialogs!Visible \cup {d} \in SUBSET Dialog /\ Dialogs!Visible' = Dialogs!Visible \cup {d}
      BY <1>1, <1>2, <2>1 DEF Dialogs!Visible
  <2>4. /\ dialogsFocus' = d /\ instances' \in Seq(Dialog)
        /\ ToSet(instances') = ToSet(instances) \cup {d}
    <3>1. FALSE \in BOOLEAN /\ d # Page /\ {} = {}
        OBVIOUS
    <3>2. PICK some \in SUBSET Dialog : some = Dialogs!Visible \cup {d}
        BY <2>3
    <3>3. Dialogs!Visible \subseteq some /\ d \in some \cup {Page, Nowhere} /\ instances \in Seq(Dialog)
        BY <3>2
    <3>4. PICK final \in some \cup {Page, Nowhere} :
          FocusWent(final, d, instances, FALSE, {})
      <4> HIDE DEF DialogsInv, DialogsTypeOK, Dialogs!Open
      <4> QED BY <2>1, <3>1, <3>3, FocusGoesWhere
    <3> QED BY <2>2, <3>1, <3>4 DEF FocusWent
  <2>5. DialogsTypeOK'
      BY <1>2, <1>3, <1>4, <2>1, <2>3, <2>4
  <2>6. EffectsInv'
    <3> SUFFICES ASSUME NEW e \in Dialog
                 PROVE  /\ showing[e] > 0 => e \in AnimatedDialog /\ Queued(showing[e], e \in open')
                        /\ opener'[e] = e => e \in AnimatedDialog
        BY <2>1 DEF EffectsInv
    <3> QED BY <1>1, <1>2, <1>4, <2>2 DEF EffectsInv
  <2>7. TrackedInv'
      BY <1>1, <1>2, <2>1, <2>2, <2>4 DEF TrackedInv
  <2>8. Dialogs!FocusLeavesPage
      BY <2>4 DEF Dialogs!FocusLeavesPage
  <2> QED BY <1>3, <2>5, <2>6, <2>7, <2>8
<1> QED BY <1>6, <1>7

(* When an effect ends the dialog gets the focus; but if it is closed, or  *)
(* was in between, it is hidden.                                           *)
LEMMA ShowEndsKeepsDialogs ==
    ASSUME DialogsInv, NEW d \in Dialog, Dialogs!ShowEnds(d)
    PROVE  DialogsInv' /\ Dialogs!FocusLeavesPage
<1> USE DialogAssumption DEF DialogsInv, DialogsTypeOK
<1> DEFINE hidden == IF showing[d] = 1 THEN {} ELSE {d}
<1>1. /\ showing[d] > 0 /\ showing' = [showing EXCEPT ![d] = IF @ = 1 THEN 0 ELSE @ - 2]
      /\ Dialogs!FocusGoes(d, instances, FALSE, hidden)
      /\ UNCHANGED <<open, opener, overlays, bound, isOpening>>
  BY DEF Dialogs!ShowEnds, Dialogs!modality
<1>2. /\ showing' \in [Dialog -> Nat]
      /\ showing'[d] = (IF showing[d] = 1 THEN 0 ELSE showing[d] - 2)
      /\ \A e \in Dialog : e # d => showing'[e] = showing[e]
  BY <1>1
<1>3. Dialogs!Visible \in SUBSET Dialog /\ d \in Dialogs!Visible
  BY <1>1 DEF Dialogs!Visible
<1>4. d \in AnimatedDialog /\ Queued(showing[d], d \in open) /\ showing[d] \in Nat
  BY <1>1 DEF EffectsInv
<1>5. showing[d] = 1 => d \in open
  BY <1>4, QueuedIs DEF Queued
<1>6. showing[d] = 2 => d \notin open
  BY <1>4, QueuedIs DEF Queued
<1> HIDE DEF hidden
<1>7. /\ dialogsFocus' = (IF d \in hidden THEN Nowhere ELSE d) /\ instances' \in Seq(Dialog)
      /\ ToSet(instances) \subseteq ToSet(instances')
      /\ ToSet(instances') \subseteq ToSet(instances) \cup {d}
      /\ d \in ToSet(instances') \/ d = dialogsFocus
  <2>1. FALSE \in BOOLEAN /\ d # Page
      OBVIOUS
  <2>2. Dialogs!Visible \subseteq Dialogs!Visible /\ instances \in Seq(Dialog)
        /\ d \in Dialogs!Visible \cup {Page, Nowhere}
      BY <1>3
  <2>3. PICK final \in Dialogs!Visible \cup {Page, Nowhere} :
          FocusWent(final, d, instances, FALSE, hidden)
    <3> HIDE DEF DialogsInv, DialogsTypeOK
    <3> QED BY <1>1, <1>3, <2>1, <2>2, FocusGoesWhere
  <2> QED BY <2>1, <2>3 DEF FocusWent
<1>8. d \in hidden <=> showing[d] # 1
  BY DEF hidden
<1>9. dialogsFocus' \in Dialogs!Visible' \cup {Page, Nowhere}
  BY <1>1, <1>5, <1>7, <1>8 DEF Dialogs!Visible
<1>10. DialogsTypeOK' /\ CountedInv'
  BY <1>1, <1>2, <1>7, <1>9 DEF CountedInv
<1>11. EffectsInv'
  <2> SUFFICES ASSUME NEW e \in Dialog
               PROVE  /\ showing'[e] > 0 => e \in AnimatedDialog /\ Queued(showing'[e], e \in open)
                      /\ opener[e] = e => e \in AnimatedDialog
      BY <1>1 DEF EffectsInv
  <2>1. CASE e = d
    <3>1. showing'[d] > 0 => showing[d] > 2 /\ showing'[d] = showing[d] - 2
        BY <1>1, <1>2, <1>4
    <3>2. showing'[d] > 0 => Queued(showing'[d], d \in open)
        BY <1>4, <3>1, QueuedIs DEF Queued
    <3>3. opener[d] = d => d \in AnimatedDialog
        BY <1>4
    <3> QED BY <1>4, <2>1, <3>2, <3>3
  <2>2. CASE e # d
      BY <1>2, <2>2 DEF EffectsInv
  <2> QED BY <2>1, <2>2
<1>12. TrackedInv'
  <2> SUFFICES ASSUME NEW e \in Dialog
               PROVE  /\ e \in open /\ showing'[e] = 0 => e \in ToSet(instances')
                      /\ e \in ToSet(instances') /\ e \notin open => e \in AnimatedDialog
                      /\ dialogsFocus' = e /\ e \in open /\ showing'[e] <= 1 => e \in ToSet(instances')
      BY <1>1 DEF TrackedInv
  <2>1. CASE e = d
    <3>1. showing[d] = 1 => d \in ToSet(instances')
      <4>1. showing[d] = 1 /\ d = dialogsFocus => d \in ToSet(instances)
          BY <1>5 DEF TrackedInv
      <4> QED BY <1>7, <4>1
    <3>2. showing'[d] = 0 => showing[d] = 1 \/ showing[d] = 2
        BY <1>1, <1>2
    <3>3. dialogsFocus' = d => showing[d] = 1
        BY <1>7, <1>8
    <3> QED BY <1>4, <1>6, <2>1, <3>1, <3>2, <3>3
  <2>2. CASE e # d
      BY <1>2, <1>7, <2>2 DEF TrackedInv
  <2> QED BY <2>1, <2>2
<1>13. Dialogs!FocusLeavesPage
  BY <1>7 DEF Dialogs!FocusLeavesPage
<1> QED BY <1>10, <1>11, <1>12, <1>13

(* Closing takes the dialog from the list before the focus goes back.      *)
LEMMA CloseKeepsDialogs ==
    ASSUME DialogsInv, NEW d \in Dialog, Dialogs!Close(d)
    PROVE  DialogsInv' /\ Dialogs!FocusLeavesPage
<1> USE DialogAssumption DEF DialogsInv, DialogsTypeOK
<1>1. PICK now : now = open \ {d}
  OBVIOUS
<1>2. /\ open' = now /\ now \in SUBSET Dialog /\ d \in open /\ IsFiniteSet(now)
      /\ opener' = opener /\ Dialogs!DestroyOverlay(d)
      /\ showing' = [showing EXCEPT ![d] = IF @ = 0 THEN 0 ELSE @ + 1]
  BY <1>1, FS_Subset DEF Dialogs!Close
<1>3. /\ showing' \in [Dialog -> Nat]
      /\ showing'[d] = (IF showing[d] = 0 THEN 0 ELSE showing[d] + 1)
      /\ \A e \in Dialog : e # d => showing'[e] = showing[e]
  BY <1>2
<1>4. CountedInv' /\ bound' \in BOOLEAN /\ isOpening' \in BOOLEAN
  <2> USE DEF Dialogs!DestroyOverlay, Dialogs!modality, CountedInv
  <2>1. Cardinality(open \cap Modal) \in Nat
      BY CountingModal
  <2>2. CASE d \in Modal
    <3>1. Cardinality(now \cap Modal) = Cardinality(open \cap Modal) - 1
        BY <1>1, <1>2, <2>2, CountingOneLess
    <3>2. now \cap Modal = {} <=> Cardinality(now \cap Modal) = 0
        BY <1>2, CountingModal
    <3>3. /\ overlays' = overlays - 1 /\ bound' = (overlays # 1)
          /\ isOpening' = (isOpening /\ overlays # 1)
        BY <1>2, <2>2
    <3>4. overlays = Cardinality(open \cap Modal)
        OBVIOUS
    <3>5. PICK n \in Nat : n = Cardinality(open \cap Modal)
        BY <2>1
    <3>6. overlays' = Cardinality(now \cap Modal)
        BY <3>1, <3>3, <3>4
    <3>7. overlays # 1 <=> Cardinality(now \cap Modal) # 0
        BY ONLY <3>1, <3>4, <3>5, n \in Nat
    <3>8. bound' \in BOOLEAN /\ isOpening' \in BOOLEAN
        BY <3>3
    <3> QED BY <1>2, <3>2, <3>3, <3>6, <3>7, <3>8
  <2>3. CASE d \notin Modal
    <3>1. now \cap Modal = open \cap Modal
        BY <1>1, <2>3
    <3>2. UNCHANGED <<overlays, bound, isOpening>>
        BY <1>2, <2>3
    <3> QED BY <1>2, <3>1, <3>2
  <2> QED BY <2>2, <2>3
<1>5. PICK rest \in Seq(Dialog) : /\ rest = Dialogs!Without(instances, d)
                                  /\ ToSet(rest) = ToSet(instances) \ {d}
  BY WithoutIs
<1>6. PICK handled \in BOOLEAN : handled = (bound' /\ ~isOpening')
  OBVIOUS
<1>7. PICK to : to = IF opener[d] \in Dialogs!Visible \cup {Page} THEN opener[d] ELSE Nowhere
  OBVIOUS
<1>8. PICK hidden : hidden = IF showing[d] = 0 THEN {d} ELSE {}
  OBVIOUS
<1>9. Dialogs!FocusGoes(to, rest, handled, hidden)
  BY <1>5, <1>6, <1>7, <1>8 DEF Dialogs!Close
<1>10. Dialogs!Visible \in SUBSET Dialog /\ to \in Dialogs!Visible \cup {Page, Nowhere}
  BY <1>7 DEF Dialogs!Visible
<1>11. PICK final \in Dialogs!Visible \cup {Page, Nowhere} :
          FocusWent(final, to, rest, handled, hidden)
  <2>1. Dialogs!Visible \subseteq Dialogs!Visible
      OBVIOUS
  <2> HIDE DEF DialogsInv, DialogsTypeOK
  <2> QED BY <1>9, <1>10, <2>1, FocusGoesWhere
<1> USE DEF FocusWent
<1>12. DialogsTypeOK'
  <2>1. dialogsFocus' \in Dialogs!Visible' \cup {Page, Nowhere}
    <3>1. \A e \in Dialogs!Visible : e # d \/ showing[d] # 0 => e \in Dialogs!Visible'
        BY <1>1, <1>2, <1>3 DEF Dialogs!Visible
    <3>2. d \in hidden <=> showing[d] = 0
        BY <1>8
    <3>3. hidden \subseteq {d}
        BY <1>8
    <3> QED BY <1>11, <3>1, <3>2, <3>3
  <2> QED BY <1>2, <1>3, <1>4, <1>11, <2>1
<1>13. /\ d \in open /\ showing[d] \in Nat
       /\ showing[d] > 0 => d \in AnimatedDialog /\ Queued(showing[d], TRUE)
  BY <1>2 DEF EffectsInv
<1>14. EffectsInv'
  <2> SUFFICES ASSUME NEW e \in Dialog
               PROVE  /\ showing'[e] > 0 => e \in AnimatedDialog /\ Queued(showing'[e], e \in open')
                      /\ opener[e] = e => e \in AnimatedDialog
      BY <1>2 DEF EffectsInv
  <2>1. CASE e = d
    <3>1. showing'[d] > 0 => showing[d] > 0 /\ showing'[d] = showing[d] + 1
        BY <1>3, <1>13
    <3>2. showing'[d] > 0 => d \in AnimatedDialog /\ Queued(showing'[d], FALSE)
        BY <1>13, <3>1, QueuedIs
    <3>3. (d \in open') = FALSE
        BY <1>1, <1>2
    <3>4. opener[d] = d => d \in AnimatedDialog
        BY DEF EffectsInv
    <3> QED BY <2>1, <3>2, <3>3, <3>4
  <2>2. CASE e # d
      BY <1>1, <1>2, <1>3, <2>2 DEF EffectsInv
  <2> QED BY <2>1, <2>2
<1>15. TrackedInv'
  <2> SUFFICES ASSUME NEW e \in Dialog
               PROVE  /\ e \in open' /\ showing'[e] = 0 => e \in ToSet(instances')
                      /\ e \in ToSet(instances') /\ e \notin open' => e \in AnimatedDialog
                      /\ dialogsFocus' = e /\ e \in open' /\ showing'[e] <= 1 => e \in ToSet(instances')
      BY DEF TrackedInv
  <2>1. CASE e = d
    <3>1. d \notin open' /\ d \notin ToSet(rest)
        BY <1>1, <1>2, <1>5
    <3>2. d \in ToSet(instances') => final = d
        BY <1>11, <3>1
    <3>3. final = d => d \in AnimatedDialog
      <4>1. final = d => to = d
          BY <1>11, <3>1
      <4>2. to = d => opener[d] = d
          BY <1>7
      <4> QED BY <4>1, <4>2 DEF EffectsInv
    <3> QED BY <2>1, <3>1, <3>2, <3>3
  <2>2. CASE e # d
    <3>1. e \in open' <=> e \in open
        BY <1>1, <1>2, <2>2
    <3>2. e \in ToSet(rest) <=> e \in ToSet(instances)
        BY <1>5, <2>2
    <3>3. final = e /\ e \notin open => e \in AnimatedDialog
        BY <1>11 DEF EffectsInv, Dialogs!Visible
    <3>4. e \notin hidden
        BY <1>8, <2>2
    <3>5. dialogsFocus' = e => final = e
        BY <1>11
    <3> QED BY <1>3, <1>11, <2>2, <3>1, <3>2, <3>3, <3>5 DEF TrackedInv
  <2> QED BY <2>1, <2>2
<1>16. Dialogs!FocusLeavesPage
  <2> SUFFICES ASSUME dialogsFocus' = Page, bound', ~isOpening'
               PROVE  \/ \A e \in open' : showing'[e] > 0
                      \/ \E e \in Dialogs!Range(instances') \cap AnimatedDialog : e \notin open'
      BY DEF Dialogs!FocusLeavesPage
  <2>1. final = Page /\ handled
      BY <1>6, <1>11
  <2>2. CASE ToSet(rest) = {}
    <3>1. \A e \in now : e \in Dialog /\ e # d /\ e \in open /\ e \notin ToSet(instances)
        BY <1>1, <1>2, <1>5, <2>2
    <3>2. \A e \in now : showing[e] # 0 /\ showing[e] \in Nat /\ showing'[e] = showing[e]
        BY <1>3, <3>1 DEF TrackedInv
    <3>3. \A e \in now : showing'[e] > 0
        BY <3>2
    <3> QED BY <1>2, <3>3
  <2>3. CASE \E e \in ToSet(rest) : e \notin Dialogs!Visible
    <3>1. PICK e \in ToSet(rest) : e \notin open
        BY <2>3 DEF Dialogs!Visible
    <3>2. e \in ToSet(instances') /\ e \in ToSet(instances) /\ e \notin open'
        BY <1>1, <1>2, <1>5, <1>11, <3>1
    <3>3. e \in Dialog
        BY <3>2 DEF ToSet
    <3>4. e \in AnimatedDialog
        BY <3>1, <3>2, <3>3 DEF TrackedInv
    <3> QED BY <3>2, <3>4 DEF Dialogs!Range, ToSet
  <2> QED BY <1>11, <2>1, <2>2, <2>3
<1> QED BY <1>4, <1>12, <1>14, <1>15, <1>16

LEMMA NextKeepsDialogs ==
    ASSUME DialogsInv, Dialogs!DialogNext PROVE DialogsInv' /\ Dialogs!FocusLeavesPage
<1> USE DialogAssumption
<1>1. ASSUME NEW to \in Dialogs!Place, Dialogs!UserFocuses(to)
      PROVE  DialogsInv' /\ Dialogs!FocusLeavesPage
  <2>1. PICK works \in BOOLEAN : works = (bound /\ ~isOpening)
      OBVIOUS
  <2>2. /\ to \in Dialogs!Visible \cup {Page} /\ Dialogs!FocusGoes(to, instances, works, {})
        /\ UNCHANGED <<open, showing, opener, overlays, bound, isOpening>>
      BY <1>1, <2>1 DEF Dialogs!UserFocuses, Dialogs!Handled, Dialogs!modality
  <2> QED BY <2>1, <2>2, FocusMovesKeep
<1>2. ASSUME NEW d \in Dialog, Dialogs!ClickOverlay(d)
      PROVE  DialogsInv' /\ Dialogs!FocusLeavesPage
  <2>1. PICK works \in BOOLEAN : works = (bound /\ ~isOpening)
      OBVIOUS
  <2>2. /\ d \in Dialogs!Visible /\ d # Page
        /\ UNCHANGED <<open, showing, opener, overlays, bound, isOpening>>
        /\ \/ UNCHANGED <<dialogsFocus, instances>>
           \/ Dialogs!FocusGoes(d, instances, works, {})
      BY <1>2, <2>1 DEF Dialogs!ClickOverlay, Dialogs!Handled, Dialogs!modality,
                        Dialogs!focusVars, Dialogs!Visible
  <2>3. CASE UNCHANGED <<dialogsFocus, instances>>
      BY <2>2, <2>3 DEF DialogsInv, DialogsTypeOK, EffectsInv, TrackedInv, CountedInv,
                        Dialogs!Visible, Dialogs!FocusLeavesPage
  <2>4. CASE Dialogs!FocusGoes(d, instances, works, {})
      BY <2>2, <2>4, FocusMovesKeep
  <2> QED BY <2>2, <2>3, <2>4
<1>3. ASSUME NEW d \in Dialog, Dialogs!MoveToTop(d)
      PROVE  DialogsInv' /\ Dialogs!FocusLeavesPage
  <2>1. /\ d \in Dialogs!Visible /\ d # Page /\ FALSE \in BOOLEAN
        /\ Dialogs!FocusGoes(d, instances, FALSE, {})
        /\ UNCHANGED <<open, showing, opener, overlays, bound, isOpening>>
      BY <1>3 DEF Dialogs!MoveToTop, Dialogs!modality
  <2> QED BY <2>1, FocusMovesKeep
<1>4. CASE Dialogs!OpeningEnds
  BY <1>4 DEF Dialogs!OpeningEnds, Dialogs!focusVars, DialogsInv, DialogsTypeOK, EffectsInv,
              TrackedInv, CountedInv, Dialogs!Visible, Dialogs!FocusLeavesPage
<1> QED BY <1>1, <1>2, <1>3, <1>4, OpenKeepsDialogs, ShowEndsKeepsDialogs, CloseKeepsDialogs
        DEF Dialogs!DialogNext

(* The invariant holds in every reachable state of the dialogs.            *)
THEOREM DialogsInvariant == Dialogs!DialogSpec => []DialogsInv
<1>1. Dialogs!DialogInit => DialogsInv
  <2> SUFFICES ASSUME Dialogs!DialogInit PROVE DialogsInv
      OBVIOUS
  <2> USE DEF Dialogs!DialogInit
  <2>1. IsFiniteSet(open) /\ Cardinality(open \cap Modal) = 0
      BY FS_EmptySet, CountingModal
  <2>2. instances \in Seq(Dialog) /\ ToSet(instances) = {}
      BY DEF ToSet
  <2>3. \A d \in Dialog : d \notin open /\ showing[d] = 0 /\ opener[d] # d
      BY DialogAssumption
  <2>4. EffectsInv /\ TrackedInv /\ CountedInv
      BY <2>1, <2>2, <2>3 DEF EffectsInv, TrackedInv, CountedInv
  <2>5. DialogsTypeOK
      BY <2>1, <2>2 DEF DialogsTypeOK
  <2> QED BY <2>4, <2>5 DEF DialogsInv
<1>2. DialogsInv /\ [Dialogs!DialogNext]_(Dialogs!dialogVars) => DialogsInv'
  <2>1. DialogsInv /\ UNCHANGED Dialogs!dialogVars => DialogsInv'
      BY DEF Dialogs!dialogVars, Dialogs!focusVars, Dialogs!modality, Dialogs!Visible,
             DialogsInv, DialogsTypeOK, EffectsInv, TrackedInv, CountedInv
  <2> QED BY <2>1, NextKeepsDialogs
<1> QED BY <1>1, <1>2, PTL DEF Dialogs!DialogSpec

(* _createOverlay, _destroyOverlay, _trackFocus and the handler, for any   *)
(* dialogs with effects or without, opened, closed and focused in any      *)
(* order: the overlays are counted, what may get the focus is known, and   *)
(* the focus does not stay in the page, but where dialogs have effects.    *)
THEOREM DialogsCorrect == Dialogs!DialogSpec => ModalKeepsFocus
<1>1. DialogsInv => Dialogs!OverlaysAreCounted /\ Dialogs!ShownAreTracked
  <2>1. \A s : Dialogs!Cardinality(s) = Cardinality(s) /\ Dialogs!Range(s) = ToSet(s)
      BY DEF Dialogs!Cardinality, Cardinality, Dialogs!Range, ToSet
  <2>2. DialogsInv => ToSet(instances) \subseteq Dialog
      BY DEF DialogsInv, DialogsTypeOK, ToSet
  <2> QED BY <2>1, <2>2 DEF DialogsInv, DialogsTypeOK, TrackedInv, CountedInv,
                            Dialogs!OverlaysAreCounted, Dialogs!ShownAreTracked
<1>2. DialogsInv /\ [Dialogs!DialogNext]_(Dialogs!dialogVars)
      => [Dialogs!FocusLeavesPage]_(Dialogs!dialogVars)
  BY NextKeepsDialogs
<1> QED BY <1>1, <1>2, DialogsInvariant, PTL
        DEF Dialogs!DialogSpec, ModalKeepsFocus, Dialogs!ModalKeepsFocus

-----------------------------------------------------------------------------
(***************************************************************************)
(* Places in a list, from 0.                                               *)
(***************************************************************************)

PlaceIn(list, x) == CHOOSE i \in 0 .. Len(list) - 1 : list[i + 1] = x

LEMMA PlaceIs ==
    ASSUME NEW V, NEW list \in Seq(V), Once(list), NEW x \in ToSet(list)
    PROVE  /\ PlaceIn(list, x) \in 0 .. Len(list) - 1 /\ list[PlaceIn(list, x) + 1] = x
           /\ \A i \in 0 .. Len(list) - 1 : list[i + 1] = x => PlaceIn(list, x) = i
<1>1. PICK n \in Nat : n = Len(list) /\ DOMAIN list = 1 .. n
  OBVIOUS
<1>2. PICK k \in 1 .. n : list[k] = x
  BY <1>1 DEF ToSet
<1>3. k - 1 \in 0 .. n - 1 /\ list[(k - 1) + 1] = x
  BY <1>1, <1>2
<1>4. PICK j : j = PlaceIn(list, x)
  OBVIOUS
<1>5. j \in 0 .. n - 1 /\ list[j + 1] = x
  BY <1>1, <1>3, <1>4 DEF PlaceIn
<1>6. \A i \in 0 .. n - 1 : list[i + 1] = x => j = i
  <2> SUFFICES ASSUME NEW i \in 0 .. n - 1, list[i + 1] = x PROVE j = i
      OBVIOUS
  <2>1. i + 1 \in 1 .. n /\ j + 1 \in 1 .. n
      BY <1>1, <1>5
  <2>2. i + 1 = j + 1
      BY <1>1, <1>5, <2>1 DEF Once
  <2> QED BY <1>5, <2>2
<1> QED BY <1>1, <1>4, <1>5, <1>6

LEMMA InRange ==
    ASSUME NEW V, NEW list \in Seq(V)
    PROVE  /\ Len(list) \in Nat /\ (list = <<>> <=> Len(list) = 0) /\ (list = <<>> <=> ToSet(list) = {})
           /\ \A i \in 0 .. Len(list) - 1 : list[i + 1] \in ToSet(list)
           /\ list # <<>> => list[1] \in ToSet(list)
           /\ ToSet(list) \subseteq V
<1>1. PICK n \in Nat : n = Len(list) /\ DOMAIN list = 1 .. n
  OBVIOUS
<1>2. list = <<>> <=> n = 0
  BY <1>1
<1>3. n = 0 <=> ToSet(list) = {}
  <2>1. n # 0 => 1 \in 1 .. n
      OBVIOUS
  <2>2. n = 0 => 1 .. n = {}
      OBVIOUS
  <2> QED BY <1>1, <2>1, <2>2 DEF ToSet
<1>4. \A i \in 0 .. n - 1 : i + 1 \in 1 .. n
  BY <1>1
<1>5. ToSet(list) \subseteq V
  BY DEF ToSet
<1>6. \A i \in 0 .. n - 1 : list[i + 1] \in ToSet(list)
  BY <1>1, <1>4 DEF ToSet
<1>7. n # 0 => list[1] \in ToSet(list)
  <2>1. n # 0 => 1 \in 1 .. n
      OBVIOUS
  <2> QED BY <1>1, <2>1 DEF ToSet
<1> QED BY <1>1, <1>2, <1>3, <1>5, <1>6, <1>7

(* A list with each element of a set just once.                            *)
LEMMA SomeOrder ==
    ASSUME NEW V, IsFiniteSet(V), NEW list \in Bijection(1 .. Cardinality(V), V)
    PROVE  list \in Seq(V) /\ Once(list) /\ ToSet(list) = V /\ (V # {} => Len(list) # 0)
<1>1. PICK n \in Nat : n = Cardinality(V) /\ (V # {} => n # 0)
  BY FS_CardinalityType, FS_EmptySet
<1>2. list \in [1 .. n -> V] /\ DOMAIN list = 1 .. n
  BY <1>1 DEF Bijection, Injection
<1>3. list \in Seq(V) /\ Len(list) = n
  BY <1>1, <1>2
<1>4. Once(list)
  BY <1>1, <1>2, <1>3 DEF Bijection, Injection, IsInjective, Once
<1>5. \A x \in V : \E i \in 1 .. n : list[i] = x
  BY <1>1 DEF Bijection, Surjection
<1>6. ToSet(list) = V
  BY <1>2, <1>5 DEF ToSet
<1> QED BY <1>1, <1>3, <1>4, <1>6

(* A list without one of its elements.                                     *)
LEMMA OneTakenAway ==
    ASSUME NEW V, NEW list \in Seq(V), Once(list), NEW x \in ToSet(list)
    PROVE  /\ OnlyIn(list, V \ {x}) \in Seq(V) /\ Once(OnlyIn(list, V \ {x}))
           /\ ToSet(OnlyIn(list, V \ {x})) = ToSet(list) \ {x}
           /\ Len(OnlyIn(list, V \ {x})) = Len(list) - 1
<1>1. PICK found : found = OnlyIn(list, V \ {x})
  OBVIOUS
<1>2. ToSet(list) \subseteq V
  BY DEF ToSet
<1>3. found \in Seq(V) /\ Once(found) /\ ToSet(found) = ToSet(list) \ {x}
  BY <1>1, <1>2, OnlyInOnce
<1>4. /\ IsFiniteSet(ToSet(list)) /\ Cardinality(ToSet(list)) = Len(list)
      /\ Cardinality(ToSet(found)) = Len(found)
  BY <1>3, OnceHasAsMany
<1>5. Cardinality(ToSet(found)) = Cardinality(ToSet(list)) - 1
  BY <1>3, <1>4, FS_RemoveElement
<1> QED BY <1>1, <1>3, <1>4, <1>5

(***************************************************************************)
(* The accordion: one panel is open when nothing moves, however many were  *)
(* chosen before.                                                          *)
(***************************************************************************)

AccordionTypeOK ==
    /\ inPage \in Seq(Panel) /\ Once(inPage) /\ headers \in Seq(Panel) /\ Once(headers)
    /\ accordionOption \in Int /\ accordionActive \in ToSet(headers) \cup {NoPanel}
    /\ accordionShown \subseteq Panel /\ contentActive \subseteq Panel
    /\ accordionCollapsible \in BOOLEAN

(* What is left of a set of panels when the animation has ended.           *)
Settled(panels, moving) == (panels \ {moving}) \cap ToSet(inPage)

(* Only one panel of those that the widget knows may have gone.  What an   *)
(* animation hides is what has lost the class; the next one hides what the *)
(* last one has shown, if anything has moved before, which is the active   *)
(* panel.  So what stays in the end is the active panel, even if that is   *)
(* chosen while others move.                                               *)
AccordionInv ==
    /\ AccordionTypeOK
    /\ inPage # headers => /\ Len(inPage) = Len(headers) - 1
                           /\ ToSet(inPage) \subseteq ToSet(headers)
    /\ IF accordionActive = NoPanel
       THEN accordionOption = -1 /\ (accordionCollapsible \/ headers = <<>>)
       ELSE accordionOption = PlaceIn(headers, accordionActive)
    /\ headers # <<>> => prevShow \in {NoPanel, accordionActive}
    /\ animation.hide = animation.old
    /\ Settled(accordionShown, animation.hide) = {accordionActive} \cap ToSet(inPage)
    /\ Settled(contentActive, animation.hide) = {accordionActive} \cap ToSet(inPage)
    /\ inPage = headers /\ inPage # <<>> => tabStops \cap ToSet(inPage) # {}

LEMMA AccordionTerms ==
    /\ \A s : Accordion!Range(s) = ToSet(s)
    /\ \A s, x : Accordion!IndexOf(s, x) = PlaceIn(s, x)
    /\ \A p \in Panel \cup {NoPanel} :
          Accordion!Some(p) = (IF p = NoPanel THEN {} ELSE {p})
    /\ Accordion!Collapsed = -1
    /\ Accordion!InPage = ToSet(inPage)
BY DEF Accordion!Range, ToSet, Accordion!IndexOf, PlaceIn, Accordion!Some, Accordion!Collapsed,
       Accordion!InPage

(* _toggle, to another panel or to none, with the class that it moves.     *)
LEMMA AnotherIsOpened ==
    ASSUME AccordionInv, headers # <<>>, NEW new \in ToSet(headers) \cup {NoPanel},
           new # accordionActive, accordionActive' = new,
           accordionOption' = (IF new = NoPanel THEN -1 ELSE PlaceIn(headers, new)),
           Accordion!Toggle(new, accordionActive, Accordion!AfterStop),
           contentActive' = Accordion!AfterStop.content \cup Accordion!Some(new),
           UNCHANGED <<inPage, headers>>,
           accordionCollapsible' \in BOOLEAN, new = NoPanel => accordionCollapsible'
    PROVE  AccordionInv'
<1> USE AccordionAssumption DEF AccordionInv, AccordionTypeOK, Settled
<1>1. /\ ToSet(headers) \subseteq Panel /\ ToSet(inPage) \subseteq Panel
  BY InRange
<1>2. Accordion!Some(new) = IF new = NoPanel THEN {} ELSE {new}
  BY <1>1, AccordionTerms
<1>3. /\ prevShow' = new
      /\ animation' = [show |-> new, hide |-> accordionActive, old |-> accordionActive]
      /\ accordionShown' = (accordionShown \ {animation.hide}) \cup Accordion!Some(new)
      /\ contentActive' = (contentActive \ {animation.hide}) \cup Accordion!Some(new)
      /\ Accordion!Some(new) \subseteq tabStops'
      /\ new = NoPanel => tabStops \subseteq tabStops'
  BY DEF Accordion!Toggle, Accordion!AfterStop
<1>4. animation'.hide = accordionActive /\ animation'.old = accordionActive
  BY <1>3
<1>5. AccordionTypeOK'
  <2>1. accordionOption' \in Int
    <3>1. CASE new = NoPanel
        BY <3>1
    <3>2. CASE new # NoPanel
      <4>1. PlaceIn(headers, new) \in 0 .. Len(headers) - 1 /\ Len(headers) \in Nat
          BY <3>2, PlaceIs, InRange
      <4> QED BY <3>2, <4>1
    <3> QED BY <3>1, <3>2
  <2> QED BY <1>1, <1>2, <1>3, <2>1
<1>6. ASSUME NEW before, NEW now, now = (before \ {animation.hide}) \cup Accordion!Some(new),
             Settled(before, animation.hide) = {accordionActive} \cap ToSet(inPage)
      PROVE  (now \ {accordionActive}) \cap ToSet(inPage) = {new} \cap ToSet(inPage)
  BY <1>1, <1>2, <1>6
<1>7. /\ (accordionShown' \ {accordionActive}) \cap ToSet(inPage) = {new} \cap ToSet(inPage)
      /\ (contentActive' \ {accordionActive}) \cap ToSet(inPage) = {new} \cap ToSet(inPage)
  BY <1>3, <1>6
<1>8. inPage = headers /\ inPage # <<>> => tabStops' \cap ToSet(inPage) # {}
  BY <1>2, <1>3
<1> QED BY <1>3, <1>4, <1>5, <1>7, <1>8

(* _eventHandler.                                                          *)
LEMMA HandleKeepsAccordion ==
    ASSUME AccordionInv, NEW clicked \in ToSet(headers),
           Accordion!Handle(clicked, Accordion!AfterStop, headers),
           UNCHANGED <<inPage, headers, accordionCollapsible>>
    PROVE  AccordionInv'
<1>1. headers # <<>> /\ clicked \in Panel
  BY InRange DEF AccordionInv, AccordionTypeOK
<1>2. CASE clicked = accordionActive /\ ~accordionCollapsible
  BY <1>2 DEF Accordion!Handle, AccordionInv, AccordionTypeOK, Settled
<1>3. CASE clicked = accordionActive /\ accordionCollapsible
  <2>1. /\ accordionOption' = -1 /\ accordionActive' = NoPanel
        /\ Accordion!Toggle(NoPanel, accordionActive, Accordion!AfterStop)
        /\ contentActive' = Accordion!AfterStop.content \cup Accordion!Some(NoPanel)
      BY <1>3, AccordionTerms DEF Accordion!Handle
  <2>2. NoPanel # accordionActive
      BY <1>1, <1>3, AccordionAssumption
  <2> QED BY <1>1, <1>3, <2>1, <2>2, AnotherIsOpened DEF AccordionInv, AccordionTypeOK
<1>4. CASE clicked # accordionActive
  <2>1. /\ accordionOption' = PlaceIn(headers, clicked) /\ accordionActive' = clicked
        /\ Accordion!Toggle(clicked, accordionActive, Accordion!AfterStop)
        /\ contentActive' = Accordion!AfterStop.content \cup Accordion!Some(clicked)
      BY <1>4, AccordionTerms DEF Accordion!Handle
  <2>2. clicked # NoPanel
      BY <1>1, AccordionAssumption
  <2> QED BY <1>1, <1>4, <2>1, <2>2, AnotherIsOpened DEF AccordionInv, AccordionTypeOK
<1> QED BY <1>2, <1>3, <1>4

LEMMA ActivateKeepsAccordion ==
    ASSUME AccordionInv, NEW index \in Int, Accordion!Activate(index) PROVE AccordionInv'
<1>1. PICK found : found = IF index \in 0 .. Len(headers) - 1 THEN headers[index + 1] ELSE NoPanel
  OBVIOUS
<1>2. /\ found # accordionActive
      /\ Accordion!Handle(IF found = NoPanel THEN accordionActive ELSE found, Accordion!AfterStop,
                          headers)
      /\ UNCHANGED <<inPage, headers, accordionCollapsible>>
  BY <1>1 DEF Accordion!Activate
<1>3. found \in ToSet(headers) \cup {NoPanel} /\ accordionActive \in ToSet(headers) \cup {NoPanel}
  BY <1>1, InRange DEF AccordionInv, AccordionTypeOK
<1>4. CASE found = NoPanel
  <2>1. accordionActive \in ToSet(headers) /\ Accordion!Handle(accordionActive, Accordion!AfterStop, headers)
      BY <1>2, <1>3, <1>4
  <2> QED BY <1>2, <2>1, HandleKeepsAccordion
<1>5. CASE found # NoPanel
  <2>1. found \in ToSet(headers) /\ Accordion!Handle(found, Accordion!AfterStop, headers)
      BY <1>2, <1>3, <1>5
  <2> QED BY <1>2, <2>1, HandleKeepsAccordion
<1> QED BY <1>4, <1>5

LEMMA CollapsibleKeepsAccordion ==
    ASSUME AccordionInv, NEW new \in BOOLEAN, Accordion!SetCollapsible(new) PROVE AccordionInv'
<1> USE AccordionAssumption
<1>1. CASE ~new /\ accordionOption = -1 /\ headers # <<>>
  <2>1. PICK first : first = headers[1]
      OBVIOUS
  <2>2. /\ accordionOption' = 0 /\ accordionActive' = first
        /\ Accordion!Toggle(first, NoPanel, Accordion!AfterStop)
        /\ contentActive' = Accordion!AfterStop.content \cup {first}
        /\ accordionCollapsible' \in BOOLEAN /\ UNCHANGED <<inPage, headers>>
      BY <1>1, <2>1, AccordionTerms DEF Accordion!SetCollapsible
  <2>3. headers \in Seq(Panel) /\ Once(headers)
      BY DEF AccordionInv, AccordionTypeOK
  <2>4. 0 \in 0 .. Len(headers) - 1 /\ headers[0 + 1] = first
      BY <1>1, <2>1, <2>3, InRange
  <2>5. first \in ToSet(headers) /\ ToSet(headers) \subseteq Panel
      BY <2>3, <2>4, InRange
  <2>6. PlaceIn(headers, first) = 0
      BY <2>3, <2>4, <2>5, PlaceIs
  <2>7. first # NoPanel /\ Accordion!Some(first) = {first}
      BY <2>5, AccordionTerms
  <2>8. accordionActive = NoPanel
    <3> SUFFICES ASSUME accordionActive # NoPanel PROVE FALSE
        OBVIOUS
    <3>1. accordionActive \in ToSet(headers) /\ accordionOption = PlaceIn(headers, accordionActive)
        BY DEF AccordionInv, AccordionTypeOK
    <3>2. accordionOption \in 0 .. Len(headers) - 1 /\ Len(headers) \in Nat
        BY <2>3, <3>1, PlaceIs, InRange
    <3> QED BY <1>1, <3>2
  <2> QED BY <1>1, <2>2, <2>5, <2>6, <2>7, <2>8, AnotherIsOpened
<1>2. CASE ~(~new /\ accordionOption = -1 /\ headers # <<>>)
  <2>1. /\ UNCHANGED <<accordionOption, accordionActive, accordionShown, contentActive, tabStops,
                       animation, prevShow, prevHide, inPage, headers>>
        /\ accordionCollapsible' = new
      BY <1>2, AccordionTerms DEF Accordion!SetCollapsible
  <2> QED BY <1>2, <2>1 DEF AccordionInv, AccordionTypeOK, Settled
<1> QED BY <1>1, <1>2

LEMMA TakeAwayKeepsAccordion ==
    ASSUME AccordionInv, NEW panel \in Panel, Accordion!TakeAway(panel) PROVE AccordionInv'
<1>1. /\ headers = inPage /\ panel \in ToSet(inPage)
      /\ inPage' = Accordion!OnlyIn(inPage, Panel \ {panel})
      /\ UNCHANGED <<headers, accordionOption, accordionActive, accordionShown, contentActive,
                     tabStops, animation, prevShow, prevHide, accordionCollapsible>>
  BY AccordionTerms DEF Accordion!TakeAway
<1>2. inPage' = OnlyIn(inPage, Panel \ {panel})
  BY <1>1 DEF Accordion!OnlyIn, OnlyIn
<1>3. inPage \in Seq(Panel) /\ Once(inPage)
  BY DEF AccordionInv, AccordionTypeOK
<1>4. /\ inPage' \in Seq(Panel) /\ Once(inPage') /\ ToSet(inPage') = ToSet(inPage) \ {panel}
      /\ Len(inPage') = Len(inPage) - 1
  <2>1. PICK left : left = OnlyIn(inPage, Panel \ {panel})
      OBVIOUS
  <2>2. /\ left \in Seq(Panel) /\ Once(left) /\ ToSet(left) = ToSet(inPage) \ {panel}
        /\ Len(left) = Len(inPage) - 1
      BY <1>1, <1>3, <2>1, OneTakenAway
  <2> QED BY <1>2, <2>1, <2>2
<1>5. inPage' # headers' /\ ToSet(inPage') \subseteq ToSet(headers')
  BY <1>1, <1>4
<1>6. Len(inPage') = Len(headers') - 1
  BY <1>1, <1>4
<1> QED BY <1>1, <1>4, <1>5, <1>6 DEF AccordionInv, AccordionTypeOK, Settled

(* refresh, when no panel is to be opened instead of another one.          *)
LEMMA SameIsShown ==
    ASSUME AccordionInv, headers' = inPage,
           NEW index \in Int, Accordion!ShowActive(index),
           UNCHANGED <<inPage, animation, prevShow, prevHide, accordionCollapsible>>,
           \/ index = -1 /\ (accordionOption = -1 \/ inPage = <<>>)
           \/ accordionActive \in ToSet(inPage) /\ index = PlaceIn(inPage, accordionActive)
    PROVE  AccordionInv'
<1> USE AccordionAssumption
<1>1. /\ inPage \in Seq(Panel) /\ Once(inPage) /\ headers \in Seq(Panel) /\ Once(headers)
      /\ ToSet(inPage) \subseteq Panel /\ ToSet(headers) \subseteq Panel
      /\ accordionShown \subseteq Panel /\ contentActive \subseteq Panel
  BY InRange DEF AccordionInv, AccordionTypeOK
<1>2. /\ accordionOption' = index
      /\ accordionActive' = (IF index = -1 THEN NoPanel ELSE inPage[index + 1])
      /\ accordionShown' = Accordion!Some(accordionActive')
      /\ contentActive' = contentActive \cup Accordion!Some(accordionActive')
      /\ tabStops' = IF accordionActive' # NoPanel THEN {accordionActive'}
                     ELSE {p \in ToSet(inPage) : p = inPage[1]}
  BY AccordionTerms DEF Accordion!ShowActive
<1>3. CASE index = -1 /\ (accordionOption = -1 \/ inPage = <<>>)
  <2>1. accordionOption = -1 => accordionActive = NoPanel
    <3> SUFFICES ASSUME accordionOption = -1, accordionActive # NoPanel PROVE FALSE
        OBVIOUS
    <3>1. accordionActive \in ToSet(headers) /\ accordionOption = PlaceIn(headers, accordionActive)
        BY DEF AccordionInv, AccordionTypeOK
    <3>2. accordionOption \in 0 .. Len(headers) - 1 /\ Len(headers) \in Nat
        BY <1>1, <3>1, PlaceIs, InRange
    <3> QED BY <3>2
  <2>2. accordionActive' = NoPanel /\ accordionShown' = {} /\ contentActive' = contentActive
      BY <1>2, <1>3, AccordionTerms
  <2>3. inPage # <<>> => inPage[1] \in ToSet(inPage)
      BY <1>1, InRange
  <2>4. inPage = <<>> => ToSet(inPage) = {}
      BY <1>1, InRange
  <2>5. inPage # <<>> => accordionCollapsible \/ headers = <<>>
      BY <1>3, <2>1 DEF AccordionInv
  <2>6. headers = <<>> => inPage = <<>>
    <3>1. headers = <<>> => ToSet(inPage) = {}
        BY <1>1, InRange DEF AccordionInv
    <3> QED BY <1>1, <3>1, InRange
  <2>7. inPage # <<>> => prevShow = NoPanel
      BY <1>3, <2>1, <2>6 DEF AccordionInv
  <2>8. Settled(contentActive, animation.hide) = {NoPanel} \cap ToSet(inPage)
      BY <1>1, <1>3, <2>1, <2>4 DEF AccordionInv, Settled
  <2> QED BY <1>1, <1>2, <1>3, <2>2, <2>3, <2>4, <2>5, <2>6, <2>7, <2>8 
          DEF AccordionInv, AccordionTypeOK, Settled
<1>4. CASE accordionActive \in ToSet(inPage) /\ index = PlaceIn(inPage, accordionActive)
  <2>1. index \in 0 .. Len(inPage) - 1 /\ inPage[index + 1] = accordionActive /\ Len(inPage) \in Nat
      BY <1>1, <1>4, PlaceIs, InRange
  <2>2. accordionActive # NoPanel /\ Accordion!Some(accordionActive) = {accordionActive} /\ index # -1
      BY <1>1, <1>4, <2>1, AccordionTerms
  <2>3. /\ accordionActive' = accordionActive /\ accordionShown' = {accordionActive}
        /\ contentActive' = contentActive \cup {accordionActive} /\ tabStops' = {accordionActive}
      BY <1>2, <2>1, <2>2
  <2>4. animation.hide # accordionActive
      BY <1>4 DEF AccordionInv, Settled
  <2>5. headers # <<>>
    <3>1. accordionActive \in ToSet(headers)
        BY <1>4 DEF AccordionInv
    <3> QED BY <1>1, <3>1, InRange
  <2> QED BY <1>1, <1>2, <1>4, <2>1, <2>2, <2>3, <2>4, <2>5 DEF AccordionInv, AccordionTypeOK, Settled
<1> QED BY <1>3, <1>4

(* refresh, when the open panel has gone.                                  *)
LEMMA AnotherIsShown ==
    ASSUME AccordionInv, headers' = inPage, accordionOption # -1, inPage # <<>>,
           accordionActive \notin ToSet(inPage), NEW index,
           index = (IF accordionOption = 0 THEN 0 ELSE accordionOption - 1),
           NEW panel, panel = inPage[index + 1], NEW toHide,
           toHide = (IF prevShow # NoPanel THEN prevShow ELSE accordionActive),
           accordionOption' = index, accordionActive' = panel,
           prevShow' = panel, prevHide' = toHide,
           animation' = [show |-> panel, hide |-> toHide, old |-> accordionActive],
           accordionShown' = {panel}, contentActive' = Accordion!AfterStop.content \cup {panel},
           tabStops' = {panel}, UNCHANGED <<inPage, accordionCollapsible>>
    PROVE  AccordionInv'
<1> USE AccordionAssumption
<1>1. /\ inPage \in Seq(Panel) /\ Once(inPage) /\ headers \in Seq(Panel) /\ Once(headers)
      /\ ToSet(inPage) \subseteq Panel /\ ToSet(headers) \subseteq Panel
      /\ accordionShown \subseteq Panel /\ contentActive \subseteq Panel
      /\ Len(inPage) \in Nat /\ Len(inPage) # 0
  BY InRange DEF AccordionInv, AccordionTypeOK
<1>2. accordionActive \in ToSet(headers) /\ accordionOption = PlaceIn(headers, accordionActive)
  BY DEF AccordionInv, AccordionTypeOK
<1>3. accordionOption \in 0 .. Len(headers) - 1 /\ headers # <<>>
  BY <1>1, <1>2, PlaceIs, InRange
<1>4. Len(inPage) = Len(headers) - 1
  BY <1>2 DEF AccordionInv
<1>5. index \in 0 .. Len(inPage) - 1
  BY <1>1, <1>3, <1>4
<1>6. panel \in ToSet(inPage)
  BY <1>1, <1>5, InRange
<1>7. PlaceIn(inPage, panel) = index
  BY <1>1, <1>5, <1>6, PlaceIs
<1>8. toHide = accordionActive
  BY <1>3 DEF AccordionInv
<1>9. animation'.hide = accordionActive /\ animation'.old = accordionActive
  BY <1>8
<1>10. contentActive' = (contentActive \ {animation.hide}) \cup {panel}
  BY DEF Accordion!AfterStop, AccordionInv
<1>11. panel # NoPanel /\ panel # accordionActive
  BY <1>1, <1>6
<1>12. (contentActive' \ {accordionActive}) \cap ToSet(inPage) = {panel}
  BY <1>6, <1>10, <1>11 DEF AccordionInv, Settled
<1> QED BY <1>1, <1>5, <1>6, <1>7, <1>9, <1>10, <1>11, <1>12 DEF AccordionInv, AccordionTypeOK, Settled

LEMMA RefreshKeepsAccordion == ASSUME AccordionInv, Accordion!Refresh PROVE AccordionInv'
<1> USE AccordionTerms
<1>1. headers' = inPage /\ UNCHANGED <<inPage, accordionCollapsible>>
  BY DEF Accordion!Refresh
<1>2. CASE /\ accordionOption = -1 \/ inPage = <<>>
           /\ Accordion!ShowActive(-1)
           /\ UNCHANGED <<animation, prevShow, prevHide>>
  BY <1>1, <1>2, SameIsShown
<1>3. CASE /\ accordionActive \in ToSet(inPage)
           /\ Accordion!ShowActive(PlaceIn(inPage, accordionActive))
           /\ UNCHANGED <<animation, prevShow, prevHide>>
  <2>1. PICK index : index = PlaceIn(inPage, accordionActive)
      OBVIOUS
  <2>2. index \in Int
    <3>1. inPage \in Seq(Panel) /\ Once(inPage)
        BY DEF AccordionInv, AccordionTypeOK
    <3>2. index \in 0 .. Len(inPage) - 1 /\ Len(inPage) \in Nat
        BY <1>3, <2>1, <3>1, PlaceIs, InRange
    <3> QED BY <3>2
  <2> QED BY <1>1, <1>3, <2>1, <2>2, SameIsShown
<1>4. CASE /\ accordionOption # -1 /\ inPage # <<>> /\ accordionActive \notin ToSet(inPage)
           /\ ~(accordionOption = -1 \/ inPage = <<>>)
  <2> DEFINE index == IF accordionOption = 0 THEN 0 ELSE accordionOption - 1
             panel == inPage[index + 1]
             toHide == IF prevShow # NoPanel THEN prevShow ELSE accordionActive
  <2>1. /\ accordionOption' = index /\ accordionActive' = panel
        /\ prevShow' = panel /\ prevHide' = toHide
        /\ animation' = [show |-> panel, hide |-> toHide, old |-> accordionActive]
        /\ accordionShown' = {panel} /\ contentActive' = Accordion!AfterStop.content \cup {panel}
        /\ tabStops' = {panel}
      BY <1>4 DEF Accordion!Refresh
  <2> HIDE DEF index, panel, toHide
  <2>2. PICK i, p, h : i = index /\ p = panel /\ h = toHide
      OBVIOUS
  <2> QED BY <1>1, <1>4, <2>1, <2>2, AnotherIsShown DEF index, panel, toHide
<1> QED BY <1>2, <1>3, <1>4 DEF Accordion!Refresh

(* The invariant holds in every reachable state of the accordion.          *)
THEOREM AccordionInvariant == Accordion!AccordionSpec => []AccordionInv
<1> USE AccordionAssumption
<1>1. Accordion!AccordionInit => AccordionInv
  <2> SUFFICES ASSUME Accordion!AccordionInit PROVE AccordionInv
      OBVIOUS
  <2>1. inPage \in Bijection(1 .. Cardinality(Panel), Panel)
    <3>1. Accordion!Cardinality(Panel) = Cardinality(Panel)
        BY DEF Accordion!Cardinality, Cardinality
    <3>2. \A S, T : Accordion!Bijection(S, T) = Bijection(S, T)
        BY DEF Accordion!Bijection, Bijection, Accordion!Injection, Injection, Accordion!Surjection,
               Surjection, Accordion!IsInjective, IsInjective
    <3> QED BY <3>1, <3>2 DEF Accordion!AccordionInit
  <2>2. inPage \in Seq(Panel) /\ Once(inPage) /\ Len(inPage) # 0
      BY <2>1, SomeOrder
  <2>3. /\ headers = inPage
        /\ accordionOption = 0 /\ accordionActive = inPage[1]
        /\ accordionShown = {accordionActive} /\ contentActive = {accordionActive}
        /\ tabStops = {accordionActive} /\ prevShow = NoPanel
        /\ animation.hide = NoPanel /\ animation.old = NoPanel
        /\ accordionCollapsible \in BOOLEAN
      BY <2>2 DEF Accordion!AccordionInit, Accordion!Still
  <2>4. /\ 0 \in 0 .. Len(inPage) - 1 /\ inPage[0 + 1] = accordionActive /\ inPage # <<>>
        /\ ToSet(inPage) \subseteq Panel
      BY <2>2, <2>3, InRange
  <2>5. accordionActive \in ToSet(inPage)
      BY <2>2, <2>4, InRange
  <2>6. PlaceIn(inPage, accordionActive) = 0
      BY <2>2, <2>4, <2>5, PlaceIs
  <2> QED BY <2>2, <2>3, <2>4, <2>5, <2>6 DEF AccordionInv, AccordionTypeOK, Settled
<1>2. AccordionInv /\ [Accordion!AccordionNext]_(Accordion!accordionVars) => AccordionInv'
  <2> SUFFICES ASSUME AccordionInv, [Accordion!AccordionNext]_(Accordion!accordionVars)
               PROVE  AccordionInv'
      OBVIOUS
  <2>1. ASSUME NEW p \in Panel, Accordion!Click(p) PROVE AccordionInv'
    <3>1. /\ p \in ToSet(headers) /\ Accordion!Handle(p, Accordion!AfterStop, headers)
          /\ UNCHANGED <<inPage, headers, accordionCollapsible>>
        BY <2>1, AccordionTerms DEF Accordion!Click
    <3> QED BY <3>1, HandleKeepsAccordion
  <2>2. ASSUME NEW p \in Panel, Accordion!TakeAway(p) PROVE AccordionInv'
      BY <2>2, TakeAwayKeepsAccordion
  <2>3. ASSUME NEW i \in Accordion!Collapsed .. Len(headers), Accordion!Activate(i) PROVE AccordionInv'
    <3>1. i \in Int
        BY AccordionTerms
    <3> QED BY <2>3, <3>1, ActivateKeepsAccordion
  <2>4. ASSUME NEW new \in BOOLEAN, Accordion!SetCollapsible(new) PROVE AccordionInv'
      BY <2>4, CollapsibleKeepsAccordion
  <2>5. ASSUME NEW from \in Panel, NEW to \in Panel, Accordion!Keydown(from, to) PROVE AccordionInv'
    <3>1. /\ to \in ToSet(inPage) /\ to \in tabStops'
          /\ UNCHANGED <<inPage, headers, accordionOption, accordionActive, accordionShown,
                         contentActive, animation, prevShow, prevHide, accordionCollapsible>>
        BY <2>5, AccordionTerms DEF Accordion!Keydown
    <3> QED BY <3>1 DEF AccordionInv, AccordionTypeOK, Settled
  <2>6. CASE Accordion!AnimationEnds
    <3>1. /\ animation'.hide = NoPanel /\ animation'.old = NoPanel
          /\ accordionShown' = accordionShown \ {animation.hide}
          /\ contentActive' = contentActive \ {animation.old}
          /\ UNCHANGED <<inPage, headers, accordionOption, accordionActive, tabStops, prevShow,
                         prevHide, accordionCollapsible>>
        BY <2>6 DEF Accordion!AnimationEnds, Accordion!Still
    <3>2. NoPanel \notin accordionShown' /\ NoPanel \notin contentActive'
        BY <3>1 DEF AccordionInv, AccordionTypeOK
    <3> QED BY <3>1, <3>2 DEF AccordionInv, AccordionTypeOK, Settled
  <2>7. CASE Accordion!Refresh
      BY <2>7, RefreshKeepsAccordion
  <2>8. CASE UNCHANGED Accordion!accordionVars
      BY <2>8 DEF Accordion!accordionVars, AccordionInv, AccordionTypeOK, Settled
  <2> QED BY <2>1, <2>2, <2>3, <2>4, <2>5, <2>6, <2>7, <2>8 DEF Accordion!AccordionNext
<1> QED BY <1>1, <1>2, PTL DEF Accordion!AccordionSpec

(* _toggle, _eventHandler, refresh: for any panels.                        *)
THEOREM AccordionCorrect == Accordion!AccordionSpec => []OnePanelIsOpen
<1>1. AccordionInv => OnePanelIsOpen
  <2> SUFFICES ASSUME AccordionInv, animation = Accordion!Still, headers = inPage
               PROVE  /\ accordionShown \cap ToSet(inPage) = Accordion!Some(accordionActive)
                      /\ contentActive \cap ToSet(inPage) = Accordion!Some(accordionActive)
                      /\ accordionActive # NoPanel => accordionOption = PlaceIn(headers, accordionActive)
                      /\ accordionActive = NoPanel => /\ accordionOption = -1
                                                      /\ accordionCollapsible \/ inPage = <<>>
                      /\ inPage # <<>> => tabStops \cap ToSet(inPage) # {}
      BY AccordionTerms DEF OnePanelIsOpen, Accordion!OnePanelIsOpen
  <2>1. animation.hide = NoPanel
      BY DEF Accordion!Still
  <2>2. /\ accordionShown \cap ToSet(inPage) = {accordionActive} \cap ToSet(inPage)
        /\ contentActive \cap ToSet(inPage) = {accordionActive} \cap ToSet(inPage)
      BY <2>1, AccordionAssumption DEF AccordionInv, AccordionTypeOK, Settled
  <2>3. /\ ToSet(headers) \subseteq Panel /\ accordionActive \in ToSet(headers) \cup {NoPanel}
      BY InRange DEF AccordionInv, AccordionTypeOK
  <2>4. {accordionActive} \cap ToSet(inPage) = Accordion!Some(accordionActive)
      BY <2>3, AccordionTerms, AccordionAssumption
  <2> QED BY <2>2, <2>4 DEF AccordionInv
<1> QED BY <1>1, AccordionInvariant, PTL

-----------------------------------------------------------------------------
(***************************************************************************)
(* The tabs: one is open when nothing moves, and one that loads has a      *)
(* request.                                                                *)
(***************************************************************************)

Request == [tab : TabName \cup {NoTab}, stage : {"none", "sent", "answered", "aborted"}]

TabsTypeOK ==
    /\ tabsPage \in Seq(TabName) /\ Once(tabsPage) /\ tabs \in Seq(TabName) /\ Once(tabs)
    /\ tabsActive \in TabName \cup {NoTab}
    /\ toggle \in [phase : {"still", "hiding", "showing"}, show : TabName \cup {NoTab},
                   hide : TabName \cup {NoTab}]
    /\ requests \in [RequestId -> Request]
    /\ loading \subseteq TabName

Held(all, some) == \A tab \in some : \E id \in RequestId : all[id].tab = tab

(* What the page displays when the animation will have ended.              *)
WillBeShown ==
    ToSet(tabsPage) \cap
        IF toggle.phase = "hiding" THEN (tabsShown \ {toggle.hide}) \cup {toggle.show} ELSE tabsShown

(* Nothing is chosen while something moves, but refresh may be called: it  *)
(* shows at once what the animation would have shown.  A tab that is not   *)
(* in the page any more keeps its index until it is replaced.              *)
TabsInv ==
    /\ TabsTypeOK
    /\ WillBeShown = ToSet(tabsPage) \cap {tabsActive}
    /\ toggle.phase = "still" \/ ToSet(tabsPage) \cap {toggle.show} = ToSet(tabsPage) \cap {tabsActive}
    /\ IF tabsActive = NoTab THEN option = -1 ELSE option \in Nat
    /\ tabsActive \in ToSet(tabs) => option = PlaceIn(tabs, tabsActive)
    /\ Held(requests, loading)

LEMMA TabsTerms ==
    /\ \A s : Tabs!Range(s) = ToSet(s)
    /\ \A s, x : Tabs!IndexOf(s, x) = PlaceIn(s, x)
    /\ \A t : Tabs!Some(t) = (IF t = NoTab THEN {} ELSE {t})
    /\ Tabs!Collapsed = -1
    /\ Tabs!InPage = ToSet(tabsPage)
    /\ Tabs!Running <=> toggle.phase # "still"
BY DEF Tabs!Range, ToSet, Tabs!IndexOf, PlaceIn, Tabs!Some, Tabs!Collapsed, Tabs!InPage, Tabs!Running

LEMMA TabsStay ==
    ASSUME TabsInv,
           UNCHANGED <<tabsPage, tabs, tabsActive, option, tabsShown, toggle, requests, loading>>
    PROVE  TabsInv'
BY DEF TabsInv, TabsTypeOK, WillBeShown, Held

(* load: what the tab that loads is held by.                               *)
LEMMA LoadHolds ==
    ASSUME NEW sent \in [RequestId -> Request], loading \subseteq TabName, Held(sent, loading),
           NEW tab \in TabName \cup {NoTab}, Tabs!Load(tab, sent)
    PROVE  /\ requests' \in [RequestId -> Request] /\ loading' \subseteq TabName
           /\ Held(requests', loading')
<1> USE TabsAssumption
<1>1. CASE tab \notin RemoteTab
  BY <1>1 DEF Tabs!Load, Held
<1>2. CASE tab \in RemoteTab
  <2>1. PICK id \in RequestId :
            /\ sent[id] = Tabs!NoRequest
            /\ requests' = [sent EXCEPT ![id] = [tab |-> tab, stage |-> "sent"]]
            /\ loading' = loading \cup {tab}
      BY <1>2 DEF Tabs!Load
  <2>2. sent[id].tab = NoTab
      BY <2>1 DEF Tabs!NoRequest
  <2>3. /\ requests' \in [RequestId -> Request] /\ requests'[id].tab = tab
        /\ \A i \in RequestId : i # id => requests'[i] = sent[i]
      BY <2>1 DEF Request
  <2>4. ASSUME NEW t \in loading' PROVE \E i \in RequestId : requests'[i].tab = t
    <3>1. CASE t = tab
        BY <2>3, <3>1
    <3>2. CASE t # tab
      <4>1. t \in loading /\ t # NoTab
          BY <2>1, <3>2
      <4>2. PICK i \in RequestId : sent[i].tab = t
          BY <4>1 DEF Held
      <4> QED BY <2>2, <2>3, <4>1, <4>2
    <3> QED BY <3>1, <3>2
  <2> QED BY <1>2, <2>1, <2>3, <2>4 DEF Held
<1> QED BY <1>1, <1>2

LEMMA AbortedHolds ==
    ASSUME TabsInv PROVE Tabs!Aborted \in [RequestId -> Request] /\ Held(Tabs!Aborted, loading)
<1>1. ASSUME NEW id \in RequestId
      PROVE  Tabs!Aborted[id] \in Request /\ Tabs!Aborted[id].tab = requests[id].tab
  <2>1. requests[id] \in Request
      BY DEF TabsInv, TabsTypeOK
  <2>2. \/ Tabs!Aborted[id] = requests[id]
        \/ Tabs!Aborted[id] = [requests[id] EXCEPT !.stage = "aborted"]
      BY DEF Tabs!Aborted
  <2> QED BY <2>1, <2>2 DEF Request
<1>2. Tabs!Aborted = [id \in RequestId |-> Tabs!Aborted[id]]
  BY DEF Tabs!Aborted
<1> QED BY <1>1, <1>2 DEF Held, TabsInv

(* Another tab is opened, or none: first the old one is hidden, if it is   *)
(* in the page.                                                            *)
LEMMA AnotherTabIsOpened ==
    ASSUME TabsInv, toggle.phase = "still", NEW new \in TabName \cup {NoTab},
           new # tabsActive, tabsActive' = new,
           NEW old, old = (IF tabsActive \in ToSet(tabsPage) THEN tabsActive ELSE NoTab),
           option' = (IF new = NoTab THEN -1 ELSE PlaceIn(tabs, new)),
           new = NoTab \/ new \in ToSet(tabs),
           Tabs!Load(new, Tabs!Aborted), Tabs!Toggle(new, old), UNCHANGED <<tabsPage, tabs>>
    PROVE  TabsInv'
<1> USE TabsAssumption
<1>1. /\ requests' \in [RequestId -> Request] /\ loading' \subseteq TabName
      /\ Held(requests', loading')
  <2>1. PICK sent : sent = Tabs!Aborted
      OBVIOUS
  <2>2. sent \in [RequestId -> Request] /\ Held(sent, loading) /\ Tabs!Load(new, sent)
      BY <2>1, AbortedHolds
  <2> QED BY <2>2, LoadHolds DEF TabsInv, TabsTypeOK
<1>2. /\ tabsPage \in Seq(TabName) /\ Once(tabsPage) /\ tabs \in Seq(TabName) /\ Once(tabs)
      /\ ToSet(tabsPage) \subseteq TabName /\ ToSet(tabs) \subseteq TabName
      /\ tabsShown \cap ToSet(tabsPage) = ToSet(tabsPage) \cap {tabsActive}
  BY InRange DEF TabsInv, TabsTypeOK, WillBeShown
<1>3. CASE old # NoTab
  <2>1. /\ toggle' = [phase |-> "hiding", show |-> new, hide |-> old] /\ tabsShown' = tabsShown
        /\ old = tabsActive /\ old \in TabName
      BY <1>2, <1>3 DEF Tabs!Toggle
  <2>2. /\ toggle'.phase = "hiding" /\ toggle'.show = new /\ toggle'.hide = old
        /\ toggle' \in [phase : {"still", "hiding", "showing"}, show : TabName \cup {NoTab},
                        hide : TabName \cup {NoTab}]
      BY <2>1
  <2>3. ToSet(tabsPage) \cap ((tabsShown \ {old}) \cup {new}) = ToSet(tabsPage) \cap {new}
      BY <1>2, <2>1
  <2>4. option' \in Int /\ (new # NoTab => option' \in Nat)
      BY <1>2, PlaceIs, InRange
  <2>5. TabsTypeOK'
      BY <1>1, <1>2, <2>2 DEF TabsTypeOK
  <2>6. WillBeShown' = ToSet(tabsPage) \cap {new}
      BY <2>1, <2>2, <2>3 DEF WillBeShown
  <2> QED BY <1>1, <1>2, <2>2, <2>4, <2>5, <2>6 DEF TabsInv
<1>4. CASE old = NoTab
  <2>1. /\ toggle' = [phase |-> "showing", show |-> new, hide |-> NoTab]
        /\ tabsShown' = tabsShown \cup {new} /\ tabsActive \notin ToSet(tabsPage)
      BY <1>2, <1>4 DEF Tabs!Toggle
  <2>2. /\ toggle'.phase = "showing" /\ toggle'.show = new
        /\ toggle' \in [phase : {"still", "hiding", "showing"}, show : TabName \cup {NoTab},
                        hide : TabName \cup {NoTab}]
      BY <2>1
  <2>3. ToSet(tabsPage) \cap (tabsShown \cup {new}) = ToSet(tabsPage) \cap {new}
      BY <1>2, <2>1
  <2>4. option' \in Int /\ (new # NoTab => option' \in Nat)
      BY <1>2, PlaceIs, InRange
  <2>5. TabsTypeOK'
      BY <1>1, <1>2, <2>2 DEF TabsTypeOK
  <2>6. WillBeShown' = ToSet(tabsPage) \cap {new}
      BY <2>1, <2>2, <2>3 DEF WillBeShown
  <2> QED BY <1>1, <1>2, <2>2, <2>4, <2>5, <2>6 DEF TabsInv
<1> QED BY <1>3, <1>4

(* _eventHandler.                                                          *)
LEMMA HandleKeepsTabs ==
    ASSUME TabsInv, NEW tab \in TabName, tab = tabsActive \/ tab \in ToSet(tabs),
           Tabs!Handle(tab, tabs), UNCHANGED <<tabsPage, tabs>>
    PROVE  TabsInv'
<1>1. CASE ~Tabs!Accepts(tab)
  BY <1>1, TabsStay DEF Tabs!Handle, Tabs!panels, Tabs!loads
<1>2. CASE Tabs!Accepts(tab)
  <2>1. toggle.phase = "still"
      BY <1>2, TabsTerms DEF Tabs!Accepts
  <2>2. PICK new : new = IF tab = tabsActive THEN NoTab ELSE tab
      OBVIOUS
  <2>3. PICK old : old = IF tabsActive \in ToSet(tabsPage) THEN tabsActive ELSE NoTab
      OBVIOUS
  <2>4. /\ option' = (IF new = NoTab THEN -1 ELSE PlaceIn(tabs, new)) /\ tabsActive' = new
        /\ Tabs!Load(new, Tabs!Aborted) /\ Tabs!Toggle(new, old)
      BY <1>2, <2>2, <2>3, TabsTerms, TabsAssumption DEF Tabs!Handle
  <2>5. new \in TabName \cup {NoTab} /\ new # tabsActive /\ (new = NoTab \/ new \in ToSet(tabs))
      BY <2>2, TabsAssumption
  <2> QED BY <2>1, <2>3, <2>4, <2>5, AnotherTabIsOpened
<1> QED BY <1>1, <1>2

LEMMA ActivateKeepsTabs ==
    ASSUME TabsInv, NEW index, Tabs!Activate(index), UNCHANGED <<tabsPage, tabs>> PROVE TabsInv'
<1>1. PICK found : found = IF index \in 0 .. Len(tabs) - 1 THEN tabs[index + 1] ELSE NoTab
  OBVIOUS
<1>2. found \in ToSet(tabs) \cup {NoTab} /\ ToSet(tabs) \subseteq TabName
  <2>1. tabs \in Seq(TabName)
      BY DEF TabsInv, TabsTypeOK
  <2>2. \A i \in 0 .. Len(tabs) - 1 : tabs[i + 1] \in ToSet(tabs)
      BY <2>1, InRange
  <2> QED BY <1>1, <2>1, <2>2, InRange
<1>3. CASE found = tabsActive
  BY <1>1, <1>3, TabsStay DEF Tabs!Activate, Tabs!panels, Tabs!loads
<1>4. CASE found # tabsActive
  <2>1. PICK tab : tab = IF found = NoTab THEN tabsActive ELSE found
      OBVIOUS
  <2>2. Tabs!Handle(tab, tabs)
      BY <1>1, <1>4, <2>1 DEF Tabs!Activate
  <2>3. tab \in TabName /\ (tab = tabsActive \/ tab \in ToSet(tabs))
      BY <1>2, <1>4, <2>1 DEF TabsInv, TabsTypeOK
  <2> QED BY <2>2, <2>3, HandleKeepsTabs
<1> QED BY <1>3, <1>4

LEMMA CollapsibleKeepsTabs ==
    ASSUME TabsInv, NEW new \in BOOLEAN, Tabs!SetCollapsible(new) PROVE TabsInv'
<1>1. CASE ~new /\ option = -1 /\ tabs # <<>> /\ toggle.phase = "still"
           /\ tabs[1] \notin disabled \cup loading
  <2>1. PICK first : first = tabs[1]
      OBVIOUS
  <2>2. /\ option' = 0 /\ tabsActive' = first /\ UNCHANGED <<tabsPage, tabs>>
        /\ Tabs!Load(first, Tabs!Aborted) /\ Tabs!Toggle(first, NoTab)
      BY <1>1, <2>1, TabsTerms DEF Tabs!SetCollapsible
  <2>3. tabs \in Seq(TabName) /\ Once(tabs) /\ tabsPage \in Seq(TabName)
      BY DEF TabsInv, TabsTypeOK
  <2>4. first \in ToSet(tabs) /\ first \in TabName /\ 0 \in 0 .. Len(tabs) - 1
      BY <1>1, <2>1, <2>3, InRange
  <2>5. tabs[0 + 1] = first
      BY <2>1
  <2>6. PlaceIn(tabs, first) = 0
      BY <2>3, <2>4, <2>5, PlaceIs
  <2>7. tabsActive = NoTab
      BY <1>1 DEF TabsInv
  <2>8. first # NoTab /\ NoTab \notin ToSet(tabsPage)
      BY <2>3, <2>4, InRange, TabsAssumption
  <2> QED BY <1>1, <2>2, <2>4, <2>6, <2>7, <2>8, AnotherTabIsOpened
<1>2. CASE ~(~new /\ option = -1 /\ tabs # <<>> /\ toggle.phase = "still"
             /\ tabs[1] \notin disabled \cup loading)
  <2>1. UNCHANGED <<tabsPage, tabs, Tabs!panels, Tabs!loads>>
      BY <1>2, TabsTerms DEF Tabs!SetCollapsible
  <2> QED BY <2>1, TabsStay DEF Tabs!panels, Tabs!loads
<1> QED BY <1>1, <1>2

(* hide and show end; after a stop of the panels both may.                 *)
LEMMA PanelsComeToRest ==
    ASSUME TabsInv, UNCHANGED <<tabsPage, tabs, tabsActive, option>>,
           requests' \in [RequestId -> Request] /\ loading' \subseteq TabName,
           Held(requests', loading'),
           \/ UNCHANGED <<tabsShown, toggle>>
           \/ Tabs!HideEnds \/ Tabs!ShowEnds
           \/ /\ toggle.phase = "hiding" /\ toggle' = Tabs!Still
              /\ tabsShown' = (tabsShown \ {toggle.hide}) \cup Tabs!Some(toggle.show)
    PROVE  TabsInv'
<1> USE TabsAssumption
<1>1. CASE UNCHANGED <<tabsShown, toggle>>
  BY <1>1 DEF TabsInv, TabsTypeOK, WillBeShown
<1>2. CASE Tabs!HideEnds \/ Tabs!ShowEnds
           \/ /\ toggle.phase = "hiding" /\ toggle' = Tabs!Still
              /\ tabsShown' = (tabsShown \ {toggle.hide}) \cup Tabs!Some(toggle.show)
  <2>1. /\ toggle' \in [phase : {"still", "hiding", "showing"}, show : TabName \cup {NoTab},
                        hide : TabName \cup {NoTab}]
        /\ toggle'.phase = "still" \/ (toggle'.phase = "showing" /\ toggle'.show = toggle.show)
      BY <1>2, TabsTerms DEF TabsInv, TabsTypeOK, Tabs!HideEnds, Tabs!ShowEnds, Tabs!Still
  <2>2. \/ toggle.phase = "showing" /\ tabsShown' = tabsShown
        \/ /\ toggle.phase = "hiding"
           /\ tabsShown' = (tabsShown \ {toggle.hide}) \cup Tabs!Some(toggle.show)
      BY <1>2 DEF Tabs!HideEnds, Tabs!ShowEnds
  <2>3. toggle.phase # "still" /\ ToSet(tabsPage) \subseteq TabName
      BY <2>2, InRange DEF TabsInv, TabsTypeOK
  <2>4. ToSet(tabsPage) \cap tabsShown' = ToSet(tabsPage) \cap {tabsActive}
      BY <2>2, <2>3, TabsTerms DEF TabsInv, WillBeShown
  <2>5. WillBeShown' = ToSet(tabsPage) \cap {tabsActive}
      BY <2>1, <2>4 DEF WillBeShown
  <2>6. TabsTypeOK'
      BY <2>1 DEF TabsInv, TabsTypeOK
  <2> QED BY <2>1, <2>3, <2>5, <2>6 DEF TabsInv
<1> QED BY <1>1, <1>2

LEMMA TimerKeepsTabs ==
    ASSUME TabsInv, NEW id \in RequestId, Tabs!LoadTimer(id) PROVE TabsInv'
<1>1. /\ requests' = [requests EXCEPT ![id] = Tabs!NoRequest]
      /\ loading' = loading \ {requests[id].tab}
      /\ UNCHANGED <<tabsPage, tabs, tabsActive, option>>
      /\ \/ UNCHANGED <<tabsShown, toggle>>
         \/ Tabs!HideEnds \/ Tabs!ShowEnds
         \/ /\ toggle.phase = "hiding" /\ toggle' = Tabs!Still
            /\ tabsShown' = (tabsShown \ {toggle.hide}) \cup Tabs!Some(toggle.show)
  BY DEF Tabs!LoadTimer, Tabs!StopPanels
<1>2. requests \in [RequestId -> Request] /\ loading \subseteq TabName /\ Held(requests, loading)
  BY DEF TabsInv, TabsTypeOK
<1>3. requests' \in [RequestId -> Request] /\ loading' \subseteq TabName
  BY <1>1, <1>2 DEF Tabs!NoRequest, Request
<1>4. ASSUME NEW tab \in loading' PROVE \E i \in RequestId : requests'[i].tab = tab
  <2>1. PICK i \in RequestId : requests[i].tab = tab
      BY <1>1, <1>2 DEF Held
  <2>2. i # id
      BY <1>1, <2>1
  <2> QED BY <1>1, <1>2, <2>1, <2>2
<1>5. Held(requests', loading')
  BY <1>4 DEF Held
<1> QED BY <1>1, <1>3, <1>5, PanelsComeToRest

LEMMA TabTakenAway ==
    ASSUME TabsInv, NEW tab \in TabName, Tabs!TakeAway(tab) PROVE TabsInv'
<1>1. /\ tab \in ToSet(tabsPage) /\ tabsPage' = Tabs!OnlyIn(tabsPage, TabName \ {tab})
      /\ UNCHANGED <<tabs, tabsActive, option, tabsShown, toggle, requests, loading>>
  BY TabsTerms DEF Tabs!TakeAway, Tabs!panels, Tabs!loads
<1>2. tabsPage' = OnlyIn(tabsPage, TabName \ {tab})
  BY <1>1 DEF Tabs!OnlyIn, OnlyIn
<1>3. tabsPage' \in Seq(TabName) /\ Once(tabsPage') /\ ToSet(tabsPage') \subseteq ToSet(tabsPage)
  <2>1. tabsPage \in Seq(TabName) /\ Once(tabsPage)
      BY DEF TabsInv, TabsTypeOK
  <2>2. PICK left : left = OnlyIn(tabsPage, TabName \ {tab})
      OBVIOUS
  <2>3. left \in Seq(TabName) /\ Once(left) /\ ToSet(left) = ToSet(tabsPage) \ {tab}
      BY <1>1, <2>1, <2>2, OneTakenAway
  <2> QED BY <1>2, <2>2, <2>3
<1>4. TabsTypeOK'
  BY <1>1, <1>3 DEF TabsInv, TabsTypeOK
<1>5. WillBeShown' = ToSet(tabsPage') \cap {tabsActive}
  BY <1>1, <1>3 DEF TabsInv, WillBeShown
<1>6. toggle.phase = "still" \/ ToSet(tabsPage') \cap {toggle.show} = ToSet(tabsPage') \cap {tabsActive}
  BY <1>3 DEF TabsInv
<1> QED BY <1>1, <1>4, <1>5, <1>6 DEF TabsInv

(* _findNextTab, backwards.                                                *)
LEMMA NextTabIs ==
    ASSUME NEW known \in Seq(TabName), known # <<>>, NEW index \in Int
    PROVE  Tabs!NextTab(index, -1, known) \in 0 .. Len(known) - 1
<1> DEFINE n == Len(known)
           start == IF index > n - 1 THEN 0 ELSE IF index < 0 THEN n - 1 ELSE index
           Place(k) == (start + (-1) * k) % n
           enabled == {k \in 0 .. n - 1 : known[Place(k) + 1] \notin disabled}
           nearest == CHOOSE k \in enabled : \A j \in enabled : k <= j
<1>1. Tabs!NextTab(index, -1, known) = IF enabled = {} THEN start ELSE Place(nearest)
  BY DEF Tabs!NextTab
<1>2. n \in Nat /\ n > 0
  BY InRange
<1>3. start \in 0 .. n - 1
  BY <1>2
<1> HIDE DEF n, start
<1>4. ASSUME enabled # {} PROVE Place(nearest) \in 0 .. n - 1
  <2>1. enabled \subseteq Nat
      BY <1>2
  <2>2. \E k \in enabled : \A j \in enabled : k <= j
    <3> HIDE DEF enabled
    <3> QED BY <1>4, <2>1, SmallestNumber
  <2>3. nearest \in Nat
      BY <2>1, <2>2
  <2> HIDE DEF nearest
  <2> QED BY <1>2, <1>3, <2>3
<1> HIDE DEF enabled, nearest, Place
<1>5. Tabs!NextTab(index, -1, known) \in 0 .. n - 1
  BY <1>1, <1>3, <1>4
<1> QED BY <1>5 DEF n

LEMMA RefreshKeepsTabs == ASSUME TabsInv, Tabs!Refresh PROVE TabsInv'
<1> USE TabsAssumption
<1>1. tabs' = tabsPage /\ UNCHANGED tabsPage
  BY DEF Tabs!Refresh
<1>2. /\ tabsPage \in Seq(TabName) /\ Once(tabsPage) /\ ToSet(tabsPage) \subseteq TabName
      /\ option # -1 => option \in Nat
  BY InRange DEF TabsInv, TabsTypeOK
<1>3. CASE /\ option = -1 \/ tabsPage = <<>>
                \/ (tabsActive \notin ToSet(tabsPage) /\ ToSet(tabsPage) \subseteq disabled)
           /\ option' = -1 /\ tabsActive' = NoTab /\ tabsShown' = {}
           /\ UNCHANGED <<toggle, requests, loading>>
  <2>1. tabsActive \notin ToSet(tabsPage)
    <3>1. option = -1 => tabsActive = NoTab
        BY DEF TabsInv
    <3>2. tabsPage = <<>> => ToSet(tabsPage) = {}
        BY <1>2, InRange
    <3> QED BY <1>2, <1>3, <3>1, <3>2
  <2>2. WillBeShown' = {}
      BY <1>1, <1>3, <2>1 DEF TabsInv, WillBeShown
  <2>3. NoTab \notin ToSet(tabsPage)
      BY <1>2
  <2>4. TabsTypeOK'
      BY <1>1, <1>2, <1>3 DEF TabsInv, TabsTypeOK
  <2> QED BY <1>1, <1>3, <2>1, <2>2, <2>3, <2>4 DEF TabsInv
<1>4. CASE /\ tabsActive \in ToSet(tabsPage)
           /\ option' = PlaceIn(tabsPage, tabsActive) /\ tabsShown' = {tabsActive}
           /\ UNCHANGED <<tabsActive, toggle, requests, loading>>
  <2>1. option' \in Nat
    <3>1. PlaceIn(tabsPage, tabsActive) \in 0 .. Len(tabsPage) - 1 /\ Len(tabsPage) \in Nat
        BY <1>2, <1>4, PlaceIs, InRange
    <3> QED BY <1>4, <3>1
  <2>2. WillBeShown' = ToSet(tabsPage) \cap {tabsActive}
    <3>1. toggle.phase = "hiding" => tabsActive = toggle.show
        BY <1>4 DEF TabsInv
    <3> QED BY <1>1, <1>4, <3>1 DEF WillBeShown
  <2>3. TabsTypeOK'
      BY <1>1, <1>2, <1>4 DEF TabsInv, TabsTypeOK
  <2>4. tabsActive # NoTab
      BY <1>2, <1>4
  <2> QED BY <1>1, <1>4, <2>1, <2>2, <2>3, <2>4 DEF TabsInv
<1>5. CASE /\ tabsActive \notin ToSet(tabsPage) /\ tabsShown' = {}
           /\ UNCHANGED <<option, tabsActive, toggle, requests, loading>>
  <2>1. WillBeShown' = {}
      BY <1>1, <1>5 DEF TabsInv, WillBeShown
  <2>2. TabsTypeOK'
      BY <1>1, <1>2, <1>5 DEF TabsInv, TabsTypeOK
  <2> QED BY <1>1, <1>5, <2>1, <2>2 DEF TabsInv
<1>6. ASSUME option # -1, tabsPage # <<>>, NEW index, NEW tab,
             index = Tabs!NextTab(IF option = 0 THEN 0 ELSE option - 1, -1, tabsPage),
             tab = tabsPage[index + 1],
             option' = index, tabsActive' = tab, Tabs!Load(tab, Tabs!Aborted),
             toggle' = [phase |-> "showing", show |-> tab, hide |-> NoTab], tabsShown' = {tab}
      PROVE  TabsInv'
  <2>1. index \in 0 .. Len(tabsPage) - 1 /\ Len(tabsPage) \in Nat
    <3>1. PICK from \in Int : from = IF option = 0 THEN 0 ELSE option - 1
        BY <1>2, <1>6
    <3> QED BY <1>2, <1>6, <3>1, NextTabIs, InRange
  <2>2. tab \in ToSet(tabsPage) /\ tab \in TabName
      BY <1>2, <1>6, <2>1, InRange
  <2>3. PlaceIn(tabsPage, tab) = index
      BY <1>2, <1>6, <2>1, <2>2, PlaceIs
  <2>4. /\ requests' \in [RequestId -> Request] /\ loading' \subseteq TabName
        /\ Held(requests', loading')
    <3>1. PICK sent : sent = Tabs!Aborted
        OBVIOUS
    <3>2. sent \in [RequestId -> Request] /\ Held(sent, loading) /\ Tabs!Load(tab, sent)
        BY <1>6, <3>1, AbortedHolds
    <3> QED BY <2>2, <3>2, LoadHolds DEF TabsInv, TabsTypeOK
  <2>5. /\ toggle'.phase = "showing" /\ toggle'.show = tab
        /\ toggle' \in [phase : {"still", "hiding", "showing"}, show : TabName \cup {NoTab},
                        hide : TabName \cup {NoTab}]
      BY <1>6, <2>2
  <2>6. WillBeShown' = ToSet(tabsPage) \cap {tab}
      BY <1>1, <1>6, <2>5 DEF WillBeShown
  <2>7. TabsTypeOK'
      BY <1>1, <1>2, <1>6, <2>2, <2>4, <2>5 DEF TabsTypeOK
  <2>8. index \in Nat /\ tab # NoTab
      BY <2>1, <2>2
  <2> QED BY <1>1, <1>6, <2>3, <2>4, <2>5, <2>6, <2>7, <2>8 DEF TabsInv
<1>7. CASE /\ option # -1 /\ tabsActive \notin ToSet(tabsPage)
           /\ ~(ToSet(tabsPage) \subseteq disabled)
  <2>1. PICK index : index = Tabs!NextTab(IF option = 0 THEN 0 ELSE option - 1, -1, tabsPage)
      OBVIOUS
  <2>2. PICK tab : tab = tabsPage[index + 1]
      OBVIOUS
  <2>3. tabsPage # <<>>
      BY <1>2, <1>7, InRange
  <2>4. IF toggle.phase # "still" \/ tab \in loading
        THEN tabsShown' = {} /\ UNCHANGED <<option, tabsActive, toggle, requests, loading>>
        ELSE /\ option' = index /\ tabsActive' = tab /\ Tabs!Load(tab, Tabs!Aborted)
             /\ toggle' = [phase |-> "showing", show |-> tab, hide |-> NoTab]
             /\ tabsShown' = {tab}
      BY <1>7, <2>1, <2>2, <2>3, TabsTerms DEF Tabs!Refresh, Tabs!loads
  <2> QED BY <1>5, <1>6, <1>7, <2>1, <2>2, <2>3, <2>4
<1>8. \/ /\ option = -1 \/ tabsPage = <<>>
               \/ (tabsActive \notin ToSet(tabsPage) /\ ToSet(tabsPage) \subseteq disabled)
         /\ option' = -1 /\ tabsActive' = NoTab /\ tabsShown' = {}
         /\ UNCHANGED <<toggle, requests, loading>>
      \/ /\ tabsActive \in ToSet(tabsPage)
         /\ option' = PlaceIn(tabsPage, tabsActive) /\ tabsShown' = {tabsActive}
         /\ UNCHANGED <<tabsActive, toggle, requests, loading>>
      \/ /\ option # -1 /\ tabsActive \notin ToSet(tabsPage)
         /\ ~(ToSet(tabsPage) \subseteq disabled)
  BY TabsTerms DEF Tabs!Refresh, Tabs!loads
<1> QED BY <1>3, <1>4, <1>7, <1>8

(* The invariant holds in every reachable state of the tabs.               *)
THEOREM TabsInvariant == Tabs!TabsSpec => []TabsInv
<1> USE TabsAssumption
<1>1. Tabs!TabsInit => TabsInv
  <2> SUFFICES ASSUME Tabs!TabsInit PROVE TabsInv
      OBVIOUS
  <2>1. tabsPage \in Bijection(1 .. Cardinality(TabName), TabName)
    <3>1. Tabs!Cardinality(TabName) = Cardinality(TabName)
        BY DEF Tabs!Cardinality, Cardinality
    <3>2. \A S, T : Tabs!Bijection(S, T) = Bijection(S, T)
        BY DEF Tabs!Bijection, Bijection, Tabs!Injection, Injection, Tabs!Surjection, Surjection,
               Tabs!IsInjective, IsInjective
    <3> QED BY <3>1, <3>2 DEF Tabs!TabsInit
  <2>2. tabsPage \in Seq(TabName) /\ Once(tabsPage) /\ Len(tabsPage) # 0
      BY <2>1, SomeOrder
  <2>3. /\ tabs = tabsPage /\ option = 0 /\ tabsActive = tabsPage[1]
        /\ tabsShown = {tabsActive} /\ toggle = Tabs!Still
      BY <2>2 DEF Tabs!TabsInit
  <2>4. PICK first \in RequestId : first = CHOOSE id \in RequestId : TRUE
      OBVIOUS
  <2>5. /\ requests = [i \in RequestId |->
                          IF tabsActive \in RemoteTab /\ i = first
                          THEN [tab |-> tabsActive, stage |-> "sent"] ELSE Tabs!NoRequest]
        /\ loading = {tabsActive} \cap RemoteTab
      BY <2>4 DEF Tabs!TabsInit
  <2>6. /\ 0 \in 0 .. Len(tabsPage) - 1 /\ tabsPage[0 + 1] = tabsActive
        /\ tabsActive \in ToSet(tabsPage) /\ ToSet(tabsPage) \subseteq TabName
      BY <2>2, <2>3, InRange
  <2>7. PlaceIn(tabsPage, tabsActive) = 0
      BY <2>2, <2>6, PlaceIs
  <2>8. requests \in [RequestId -> Request] /\ loading \subseteq TabName /\ Held(requests, loading)
    <3>1. ASSUME NEW i \in RequestId PROVE requests[i] \in Request
        BY <2>5, <2>6 DEF Tabs!NoRequest, Request
    <3>2. tabsActive \in RemoteTab => requests[first].tab = tabsActive
        BY <2>5
    <3> QED BY <2>5, <2>6, <3>1, <3>2 DEF Held
  <2>9. /\ toggle.phase = "still"
        /\ toggle \in [phase : {"still", "hiding", "showing"}, show : TabName \cup {NoTab},
                       hide : TabName \cup {NoTab}]
      BY <2>3 DEF Tabs!Still
  <2>10. TabsTypeOK
      BY <2>2, <2>3, <2>6, <2>8, <2>9 DEF TabsTypeOK
  <2>11. WillBeShown = ToSet(tabsPage) \cap {tabsActive}
      BY <2>3, <2>9 DEF WillBeShown
  <2>12. tabsActive # NoTab
      BY <2>6
  <2> QED BY <2>3, <2>7, <2>8, <2>9, <2>10, <2>11, <2>12 DEF TabsInv
<1>2. TabsInv /\ [Tabs!TabsNext]_(Tabs!tabsVars) => TabsInv'
  <2> SUFFICES ASSUME TabsInv, [Tabs!TabsNext]_(Tabs!tabsVars) PROVE TabsInv'
      OBVIOUS
  <2> USE DEF Tabs!panels, Tabs!loads
  <2>1. ASSUME NEW t \in TabName, Tabs!Click(t) PROVE TabsInv'
    <3>1. t \in ToSet(tabs) /\ Tabs!Handle(t, tabs) /\ UNCHANGED <<tabsPage, tabs>>
        BY <2>1, TabsTerms DEF Tabs!Click
    <3> QED BY <3>1, HandleKeepsTabs
  <2>2. ASSUME NEW t \in TabName, Tabs!LoadTab(t) PROVE TabsInv'
    <3>1. Tabs!Load(t, requests) /\ UNCHANGED <<tabsPage, tabs, tabsActive, option, tabsShown, toggle>>
        BY <2>2 DEF Tabs!LoadTab
    <3>2. requests' \in [RequestId -> Request] /\ loading' \subseteq TabName /\ Held(requests', loading')
        BY <3>1, LoadHolds DEF TabsInv, TabsTypeOK
    <3> QED BY <3>1, <3>2, PanelsComeToRest
  <2>3. ASSUME NEW t \in TabName, Tabs!TakeAway(t) PROVE TabsInv'
      BY <2>3, TabTakenAway
  <2>4. ASSUME NEW t \in TabName, NEW step \in {-1, 1}, Tabs!ArrowKey(t, step) PROVE TabsInv'
      BY <2>4, TabsStay DEF Tabs!ArrowKey
  <2>5. ASSUME NEW t \in TabName, NEW enter \in BOOLEAN, Tabs!OpenKey(t, enter) PROVE TabsInv'
    <3>1. PICK index : Tabs!Activate(index)
        BY <2>5 DEF Tabs!OpenKey
    <3> QED BY <2>5, <3>1, ActivateKeepsTabs DEF Tabs!OpenKey
  <2>6. ASSUME NEW step \in {-1, 1}, Tabs!PageKey(step) PROVE TabsInv'
    <3>1. PICK index : Tabs!Activate(index)
        BY <2>6 DEF Tabs!PageKey
    <3> QED BY <2>6, <3>1, ActivateKeepsTabs DEF Tabs!PageKey
  <2>7. ASSUME NEW index \in Tabs!Collapsed .. Len(tabs) - 1, Tabs!ActiveOption(index) PROVE TabsInv'
      BY <2>7, ActivateKeepsTabs DEF Tabs!ActiveOption
  <2>8. ASSUME NEW new \in SUBSET TabName, Tabs!SetDisabled(new) PROVE TabsInv'
      BY <2>8, TabsStay DEF Tabs!SetDisabled
  <2>9. ASSUME NEW new \in BOOLEAN, Tabs!SetCollapsible(new) PROVE TabsInv'
      BY <2>9, CollapsibleKeepsTabs
  <2>10. ASSUME NEW id \in RequestId, Tabs!Answered(id) PROVE TabsInv'
    <3>1. /\ requests' = [requests EXCEPT ![id].stage = "answered"]
          /\ UNCHANGED <<tabsPage, tabs, tabsActive, option, tabsShown, toggle, loading>>
        BY <2>10 DEF Tabs!Answered
    <3>2. requests \in [RequestId -> Request] /\ loading \subseteq TabName /\ Held(requests, loading)
        BY DEF TabsInv, TabsTypeOK
    <3>3. requests' \in [RequestId -> Request] /\ \A i \in RequestId : requests'[i].tab = requests[i].tab
        BY <3>1, <3>2 DEF Request
    <3>4. Held(requests', loading')
        BY <3>1, <3>2, <3>3 DEF Held
    <3> QED BY <3>1, <3>2, <3>3, <3>4, PanelsComeToRest
  <2>11. ASSUME NEW id \in RequestId, Tabs!LoadTimer(id) PROVE TabsInv'
      BY <2>11, TimerKeepsTabs
  <2>12. CASE Tabs!ArrowTimer
      BY <2>12, ActivateKeepsTabs DEF Tabs!ArrowTimer
  <2>13. CASE Tabs!AnimationEnds
    <3>1. /\ UNCHANGED <<tabsPage, tabs, tabsActive, option, requests, loading>>
          /\ Tabs!HideEnds \/ Tabs!ShowEnds
        BY <2>13 DEF Tabs!AnimationEnds
    <3>2. requests \in [RequestId -> Request] /\ loading \subseteq TabName /\ Held(requests, loading)
        BY DEF TabsInv, TabsTypeOK
    <3>3. Held(requests', loading')
        BY <3>1, <3>2
    <3> QED BY <3>1, <3>2, <3>3, PanelsComeToRest
  <2>14. CASE Tabs!Refresh
      BY <2>14, RefreshKeepsTabs
  <2>15. CASE UNCHANGED Tabs!tabsVars
      BY <2>15, TabsStay DEF Tabs!tabsVars
  <2> QED BY <2>1, <2>2, <2>3, <2>4, <2>5, <2>6, <2>7, <2>8, <2>9, <2>10, <2>11, <2>12, <2>13,
             <2>14, <2>15 DEF Tabs!TabsNext
<1> QED BY <1>1, <1>2, PTL DEF Tabs!TabsSpec

(* _eventHandler, _toggle, load, refresh: for any tabs and requests.       *)
THEOREM TabsCorrect == Tabs!TabsSpec => []OneTabIsOpen
<1>1. TabsInv => OneTabIsOpen
  <2> SUFFICES ASSUME TabsInv PROVE OneTabIsOpen
      OBVIOUS
  <2>1. ASSUME toggle.phase = "still", tabs = tabsPage, tabsActive \in ToSet(tabsPage) \cup {NoTab}
        PROVE  /\ tabsShown \cap ToSet(tabsPage) = Tabs!Some(tabsActive)
               /\ tabsActive # NoTab => option = PlaceIn(tabs, tabsActive)
               /\ tabsActive = NoTab => option = -1
    <3>1. ToSet(tabsPage) \cap tabsShown = ToSet(tabsPage) \cap {tabsActive}
        BY <2>1 DEF TabsInv, WillBeShown
    <3>2. NoTab \notin ToSet(tabsPage)
        BY InRange, TabsAssumption DEF TabsInv, TabsTypeOK
    <3> QED BY <2>1, <3>1, <3>2, TabsTerms DEF TabsInv
  <2> QED BY <2>1, TabsTerms DEF OneTabIsOpen, Tabs!OneTabIsOpen, TabsInv, Held
<1> QED BY <1>1, TabsInvariant, PTL

-----------------------------------------------------------------------------
(***************************************************************************)
(* Drag and drop: nothing stays lit when a drag is over.                   *)
(***************************************************************************)

(* The droppables without a greedy one in them.                            *)
Plain == {p \in Droppable : \A c \in Greedy : Parent[c] # p}

Told == [over : SUBSET Droppable, greedyChild : SUBSET Droppable, visible : SUBSET Droppable,
         lit : SUBSET Droppable, waiting : SUBSET Droppable]

TakenBy(d) == {p \in Droppable : d \in Accepted[p]}

(* During a drag: what is lit without a greedy child accepts the draggable *)
(* and is noted as being under it; a greedy child that is lit keeps its    *)
(* parent from being told.                                                 *)
Lighting(s, d) ==
    /\ s \in Told /\ s.greedyChild \cap Plain = {}
    /\ s.lit \cap Plain \subseteq s.over \cap s.visible \cap TakenBy(d)
    /\ s.waiting \subseteq TakenBy(d)
    /\ \A c \in Greedy \cap s.lit :
          Parent[c] # NoElement => Parent[c] \in s.greedyChild /\ Parent[c] \notin s.lit

(* And before and after one.                                               *)
Dark(s) ==
    s \in Told /\ s.greedyChild \cap Plain = {} /\ s.lit \cap Plain = {} /\ s.waiting = {}

(* A widget that listens has no helper before its drag starts, and while   *)
(* it lasts no animation puts that back.                                   *)
DragDropInv ==
    /\ droppables \in Seq(Droppable) /\ ToSet(droppables) = Droppable
    /\ started \in BOOLEAN /\ listener \in Draggable \cup {NoElement}
    /\ listener # NoElement => mouseHandled
    /\ helper = reverting \cup IF started THEN {listener} ELSE {}
    /\ listener \notin reverting /\ reverting \subseteq Draggable
    /\ IF started
       THEN listener # NoElement /\ Lighting(dd, listener) /\ dd.lit \cap Plain \subseteq Under[place]
       ELSE Dark(dd)

LEMMA DragTerms ==
    /\ \A d : DragDrop!Accepting(d) = TakenBy(d)
    /\ \A x : DragDrop!Some(x) = (IF x = NoElement THEN {} ELSE {x})
BY DEF DragDrop!Accepting, TakenBy, DragDrop!Some

(* A greedy droppable is plain, and is around none.                        *)
LEMMA GreedyIsPlain ==
    /\ Greedy \subseteq Plain /\ \A c \in Greedy : Parent[c] \notin Plain
    /\ \A c \in Greedy : Parent[c] # NoElement => Parent[c] \in Droppable
BY DragDropAssumption DEF Plain

(* drag, for one droppable.                                                *)
LEMMA EnteredKeeps ==
    ASSUME NEW s, NEW d, Lighting(s, d), NEW p \in Droppable, p \in s.visible, p \notin s.greedyChild,
           NEW parent, parent = (IF p \in Greedy /\ Parent[p] # NoElement THEN {Parent[p]} ELSE {}),
           NEW new, new = DragDrop!Entered(s, p, parent, d)
    PROVE  Lighting(new, d) /\ \A x \in Plain \ {p} : x \in new.lit => x \in s.lit
<1> USE DragDropAssumption
<1>1. s \in Told /\ parent \subseteq Droppable /\ parent \cap Plain = {} /\ TakenBy(d) \subseteq Droppable
  BY GreedyIsPlain DEF Lighting, TakenBy
<1>2. new = [s EXCEPT !.greedyChild = @ \cup parent, !.over = (@ \ parent) \cup {p},
                      !.lit = (@ \ (parent \cap TakenBy(d))) \cup ({p} \cap TakenBy(d))]
  BY DragTerms DEF DragDrop!Entered
<1>3. /\ new.greedyChild = s.greedyChild \cup parent /\ new.over = (s.over \ parent) \cup {p}
      /\ new.lit = (s.lit \ (parent \cap TakenBy(d))) \cup ({p} \cap TakenBy(d))
      /\ new.visible = s.visible /\ new.waiting = s.waiting
  BY <1>1, <1>2 DEF Told
<1>4. new \in Told
  <2>1. /\ new.greedyChild \subseteq Droppable /\ new.over \subseteq Droppable
        /\ new.lit \subseteq Droppable /\ new.visible \subseteq Droppable
        /\ new.waiting \subseteq Droppable
      BY <1>1, <1>3 DEF Told
  <2>2. new = [over |-> new.over, greedyChild |-> new.greedyChild, visible |-> new.visible,
               lit |-> new.lit, waiting |-> new.waiting]
      BY <1>1, <1>2 DEF Told
  <2> QED BY <2>1, <2>2 DEF Told
<1>5. ASSUME NEW c \in Greedy \cap new.lit, Parent[c] # NoElement
      PROVE  Parent[c] \in new.greedyChild /\ Parent[c] \notin new.lit
  <2>1. c \in Plain /\ Parent[c] \notin Plain /\ Parent[c] \notin Greedy /\ Parent[c] # c
      BY <1>5, GreedyIsPlain
  <2>2. CASE c = p
    <3>1. parent = {Parent[c]} /\ Parent[c] \notin {p}
        BY <1>5, <2>1, <2>2
    <3>2. c \in TakenBy(d) => Parent[c] \in TakenBy(d)
        BY <1>5, GreedyIsPlain DEF TakenBy
    <3>3. c \in s.lit => Parent[c] \notin s.lit
        BY <1>5 DEF Lighting
    <3> QED BY <1>3, <1>5, <2>2, <3>1, <3>2, <3>3
  <2>3. CASE c # p
    <3>1. c \in s.lit
        BY <1>3, <1>5, <2>3
    <3>2. Parent[c] \in s.greedyChild /\ Parent[c] \notin s.lit
        BY <1>5, <3>1 DEF Lighting
    <3> QED BY <1>3, <3>2
  <2> QED BY <2>2, <2>3
<1>6. new.lit \cap Plain \subseteq new.over \cap new.visible \cap TakenBy(d)
  BY <1>1, <1>3 DEF Lighting
<1>7. \A x \in Plain \ {p} : x \in new.lit => x \in s.lit
  BY <1>3
<1> QED BY <1>1, <1>3, <1>4, <1>5, <1>6, <1>7 DEF Lighting

LEMMA LeftKeeps ==
    ASSUME NEW s, NEW d, Lighting(s, d), NEW p \in Droppable,
           NEW parent, parent = (IF p \in Greedy /\ Parent[p] # NoElement THEN {Parent[p]} ELSE {}),
           NEW new, new = DragDrop!Left(s, p, parent, d)
    PROVE  /\ Lighting(new, d)
           /\ p \in Plain => p \notin new.lit
           /\ \A x \in Plain \ {p} : x \in new.lit => x \in s.lit
<1> USE DragDropAssumption
<1>1. s \in Told /\ parent \subseteq Droppable /\ parent \cap Plain = {} /\ TakenBy(d) \subseteq Droppable
  BY GreedyIsPlain DEF Lighting, TakenBy
<1>2. new = [s EXCEPT !.greedyChild = @ \ parent, !.over = (@ \ {p}) \cup parent,
                      !.lit = (@ \ ({p} \cap TakenBy(d))) \cup (parent \cap TakenBy(d))]
  BY DragTerms DEF DragDrop!Left
<1>3. /\ new.greedyChild = s.greedyChild \ parent /\ new.over = (s.over \ {p}) \cup parent
      /\ new.lit = (s.lit \ ({p} \cap TakenBy(d))) \cup (parent \cap TakenBy(d))
      /\ new.visible = s.visible /\ new.waiting = s.waiting
  BY <1>1, <1>2 DEF Told
<1>4. new \in Told
  <2>1. /\ new.greedyChild \subseteq Droppable /\ new.over \subseteq Droppable
        /\ new.lit \subseteq Droppable /\ new.visible \subseteq Droppable
        /\ new.waiting \subseteq Droppable
      BY <1>1, <1>3 DEF Told
  <2>2. new = [over |-> new.over, greedyChild |-> new.greedyChild, visible |-> new.visible,
               lit |-> new.lit, waiting |-> new.waiting]
      BY <1>1, <1>2 DEF Told
  <2> QED BY <2>1, <2>2 DEF Told
<1>5. p \in Plain => p \notin new.lit
  BY <1>1, <1>3 DEF Lighting
<1>6. ASSUME NEW c \in Greedy \cap new.lit, Parent[c] # NoElement
      PROVE  Parent[c] \in new.greedyChild /\ Parent[c] \notin new.lit
  <2>1. c \in Plain /\ c # p
      BY <1>5, <1>6, GreedyIsPlain
  <2>2. c \in s.lit
      BY <1>1, <1>3, <1>6, <2>1
  <2>3. Parent[c] \in s.greedyChild /\ Parent[c] \notin s.lit
      BY <1>6, <2>2 DEF Lighting
  <2>4. Parent[c] \notin parent
      BY <1>6, <2>1
  <2> QED BY <1>3, <2>3, <2>4
<1>7. new.lit \cap Plain \subseteq new.over \cap new.visible \cap TakenBy(d)
  BY <1>1, <1>3, <1>5 DEF Lighting
<1>8. \A x \in Plain \ {p} : x \in new.lit => x \in s.lit
  BY <1>1, <1>3
<1> QED BY <1>1, <1>3, <1>4, <1>5, <1>6, <1>7, <1>8 DEF Lighting

LEMMA TellKeeps ==
    ASSUME NEW s, NEW d, Lighting(s, d), NEW p \in Droppable, NEW there,
           NEW new, new = DragDrop!Tell(s, p, d, there)
    PROVE  /\ Lighting(new, d)
           /\ p \in Plain /\ p \in new.lit => p \in Under[there]
           /\ \A x \in Plain \ {p} : x \in new.lit => x \in s.lit
<1>1. PICK parent : parent = IF p \in Greedy /\ Parent[p] # NoElement THEN {Parent[p]} ELSE {}
  OBVIOUS
<1>2. (IF p \in Greedy THEN DragDrop!Some(Parent[p]) ELSE {}) = parent
  BY <1>1, DragTerms
<1>3. CASE p \in s.greedyChild \/ p \notin s.visible \/ ((p \in Under[there]) = (p \in s.over))
  <2>1. new = s
    <3>1. CASE p \in s.greedyChild \/ p \notin s.visible
        BY <3>1 DEF DragDrop!Tell
    <3>2. CASE p \in Under[there] /\ p \in s.over
        BY <3>2 DEF DragDrop!Tell
    <3>3. CASE p \notin Under[there] /\ p \notin s.over
        BY <3>3 DEF DragDrop!Tell
    <3> QED BY <1>3, <3>1, <3>2, <3>3, Zenon
  <2>2. p \in Plain /\ p \in s.lit => p \in Under[there]
      BY <1>3 DEF Lighting
  <2> QED BY <2>1, <2>2
<1>4. CASE /\ ~(p \in s.greedyChild \/ p \notin s.visible \/ ((p \in Under[there]) = (p \in s.over)))
           /\ p \in Under[there]
  <2>1. new = DragDrop!Entered(s, p, parent, d)
      BY <1>2, <1>4 DEF DragDrop!Tell
  <2> QED BY <1>1, <1>4, <2>1, EnteredKeeps
<1>5. CASE /\ ~(p \in s.greedyChild \/ p \notin s.visible \/ ((p \in Under[there]) = (p \in s.over)))
           /\ p \notin Under[there]
  <2>1. new = DragDrop!Left(s, p, parent, d)
      BY <1>2, <1>5 DEF DragDrop!Tell
  <2> QED BY <1>1, <2>1, LeftKeeps
<1> QED BY <1>3, <1>4, <1>5

(* drag, for all of them.                                                  *)
LEMMA DragKeeps ==
    ASSUME NEW s, NEW d, Lighting(s, d), NEW there, NEW list \in Seq(Droppable), list = droppables,
           ToSet(list) = Droppable, NEW new, new = DragDrop!Drag(s, d, there)
    PROVE  Lighting(new, d) /\ new.lit \cap Plain \subseteq Under[there]
<1> DEFINE N == Len(list)
           Op(u, p) == DragDrop!Tell(u, p, d, there)
           Eqn(f) == f = [n \in 0 .. N |-> IF n = 0 THEN s ELSE Op(f[n - 1], list[n])]
           it == CHOOSE f : Eqn(f)
           V == {u \in Told : Lighting(u, d)}
           step == [i \in 1 .. N |-> [u \in V |-> Op(u, list[i])]]
<1>1. new = it[N]
    BY DEF DragDrop!Drag
<1>2. N \in Nat /\ DOMAIN list = 1 .. N /\ \A i \in 1 .. N : list[i] \in Droppable
    BY LenProperties, ElementOfSeq
<1>3. ASSUME NEW u \in V, NEW p \in Droppable
      PROVE  /\ Op(u, p) \in V
             /\ p \in Plain /\ p \in Op(u, p).lit => p \in Under[there]
             /\ \A x \in Plain \ {p} : x \in Op(u, p).lit => x \in u.lit
  <2>1. PICK v : v = Op(u, p)
      OBVIOUS
  <2>2. Lighting(v, d)
      BY <2>1, TellKeeps
  <2>3. p \in Plain /\ p \in v.lit => p \in Under[there]
      BY <2>1, TellKeeps
  <2>4. \A x \in Plain \ {p} : x \in v.lit => x \in u.lit
      BY <2>1, TellKeeps
  <2> QED BY <2>1, <2>2, <2>3, <2>4 DEF Lighting
<1> HIDE DEF Op
<1>4. s \in V
    BY DEF Lighting
<1> HIDE DEF V
<1>5. step \in [1 .. N -> [V -> V]]
    BY <1>2, <1>3
<1>6. \A u \in V, i \in 1 .. N : step[i][u] = Op(u, list[i])
    OBVIOUS
<1> HIDE DEF step, N
<1>7. PICK f \in [0 .. N -> V] : Recurs(f, N, s, step)
    BY <1>2, <1>4, <1>5, RecursionExists
<1>8. Eqn(f)
  <2>1. ASSUME NEW n \in 0 .. N, n # 0 PROVE step[n][f[n - 1]] = Op(f[n - 1], list[n])
    <3>1. n \in 1 .. N /\ n - 1 \in 0 .. N
        BY <1>2, <2>1
    <3> QED BY <1>6, <1>7, <3>1
  <2> QED BY <1>7, <2>1 DEF Recurs
<1>9. Eqn(it)
    BY <1>8
<1> HIDE DEF it
<1>10. it[0] = s /\ \A k \in 1 .. N : it[k] = Op(it[k - 1], list[k])
    BY <1>2, <1>9
<1> DEFINE LitOnly(u, k) == \A i \in 1 .. k : list[i] \in Plain \cap u.lit => list[i] \in Under[there]
           Good == {k \in 0 .. N : it[k] \in V /\ LitOnly(it[k], k)}
<1>11. 0 \in Good
    BY <1>2, <1>4, <1>10
<1>12. ASSUME NEW k \in 0 .. N - 1, k \in Good PROVE k + 1 \in Good
  <2>1. k + 1 \in 1 .. N /\ k + 1 \in 0 .. N /\ (k + 1) - 1 = k
      BY <1>2
  <2>2. it[k + 1] = Op(it[k], list[k + 1])
      BY <1>10, <2>1
  <2>3. PICK u \in V : u = it[k] /\ LitOnly(u, k)
      BY <1>12
  <2>4. list[k + 1] \in Droppable
      BY <1>2, <2>1
  <2>5. PICK v \in V : /\ v = it[k + 1]
                       /\ list[k + 1] \in Plain /\ list[k + 1] \in v.lit => list[k + 1] \in Under[there]
                       /\ \A x \in Plain \ {list[k + 1]} : x \in v.lit => x \in u.lit
      BY <1>3, <2>2, <2>3, <2>4
  <2>6. ASSUME NEW i \in 1 .. k + 1, list[i] \in Plain \cap v.lit PROVE list[i] \in Under[there]
    <3>1. CASE list[i] = list[k + 1]
        BY <2>5, <2>6, <3>1
    <3>2. CASE list[i] # list[k + 1]
      <4>1. i \in 1 .. k
          BY <2>1, <3>2
      <4> QED BY <2>3, <2>5, <2>6, <3>2, <4>1
    <3> QED BY <3>1, <3>2
  <2> QED BY <2>1, <2>5, <2>6
<1> HIDE DEF Good
<1>13. \A k \in 0 .. N : k \in Good
    BY <1>2, <1>11, <1>12, BoundedInduction
<1>14. N \in Good
    BY <1>2, <1>13
<1>15. new \in V /\ LitOnly(new, N)
    BY <1>1, <1>14 DEF Good
<1>16. \A x \in Droppable : \E i \in 1 .. N : x = list[i]
    BY <1>2 DEF ToSet
<1> QED BY <1>15, <1>16 DEF V, Plain

(* prepareOffsets, at the start and at the end of a drag.                  *)
LEMMA PrepareKeeps ==
    ASSUME NEW s, NEW d, NEW new, new = DragDrop!PrepareOffsets(s, d, FALSE)
    PROVE  /\ s \in Told => new = [s EXCEPT !.visible = @ \cup TakenBy(d)] /\ new \in Told
           /\ Lighting(s, d) => Lighting(new, d)
           /\ Dark(s) => Dark(new)
<1>1. TakenBy(d) \subseteq Droppable
  BY DEF TakenBy
<1>2. ASSUME s \in Told
      PROVE  /\ new = [s EXCEPT !.visible = @ \cup TakenBy(d)] /\ new \in Told
             /\ new.over = s.over /\ new.greedyChild = s.greedyChild /\ new.lit = s.lit
             /\ new.waiting = s.waiting /\ new.visible = s.visible \cup TakenBy(d)
  <2>1. new = [s EXCEPT !.visible = @ \cup TakenBy(d), !.waiting = @]
      BY DragTerms DEF DragDrop!PrepareOffsets
  <2> QED BY <1>1, <1>2, <2>1 DEF Told
<1>3. Lighting(s, d) => Lighting(new, d)
  <2> SUFFICES ASSUME Lighting(s, d) PROVE Lighting(new, d)
      OBVIOUS
  <2>1. s \in Told
      BY DEF Lighting
  <2> QED BY <1>2, <2>1 DEF Lighting
<1>4. Dark(s) => Dark(new)
  BY <1>2 DEF Dark
<1> QED BY <1>2, <1>3, <1>4

LEMMA PrepareStarts ==
    ASSUME NEW s, NEW d, Dark(s), NEW new, new = DragDrop!PrepareOffsets(s, d, TRUE)
    PROVE  Lighting(new, d)
<1>1. s \in Told /\ TakenBy(d) \subseteq Droppable
  BY DEF Dark, TakenBy
<1>2. new = [s EXCEPT !.visible = @ \cup TakenBy(d), !.waiting = @ \cup TakenBy(d)]
  BY DragTerms DEF DragDrop!PrepareOffsets
<1>3. /\ new \in Told /\ new.greedyChild = s.greedyChild /\ new.lit = s.lit
      /\ new.waiting = s.waiting \cup TakenBy(d)
  BY <1>1, <1>2 DEF Told
<1>4. s.greedyChild \cap Plain = {} /\ s.lit \cap Plain = {} /\ s.waiting = {} /\ Greedy \subseteq Plain
  BY GreedyIsPlain DEF Dark
<1> QED BY <1>3, <1>4 DEF Lighting

(* drop, after prepareOffsets.                                             *)
LEMMA DropKeeps ==
    ASSUME NEW s, NEW d, NEW there, Lighting(s, d), s.lit \cap Plain \subseteq Under[there],
           TakenBy(d) \subseteq s.visible, NEW new, new = DragDrop!Drop(s, d, there)
    PROVE  Dark(new)
<1>1. s \in Told /\ s.greedyChild \cap Plain = {} /\ s.waiting \subseteq TakenBy(d)
      /\ s.lit \cap Plain \subseteq s.visible \cap TakenBy(d)
  BY DEF Lighting
<1>2. PICK takers : takers = DragDrop!Takers(s, d, there)
  OBVIOUS
<1>3. new = [s EXCEPT !.over = @ \ (s.visible \cap TakenBy(d)), !.lit = @ \ takers,
                      !.waiting = @ \ (s.visible \cap TakenBy(d))]
  BY <1>2, DragTerms DEF DragDrop!Drop
<1>4. /\ new \in Told /\ new.greedyChild = s.greedyChild /\ new.lit = s.lit \ takers
      /\ new.waiting = s.waiting \ (s.visible \cap TakenBy(d))
  BY <1>1, <1>3 DEF Told
<1>5. s.lit \cap Plain \subseteq takers
  <2> SUFFICES ASSUME NEW x \in s.lit \cap Plain PROVE x \in takers
      OBVIOUS
  <2>1. x \in Under[there] \cap s.visible \cap TakenBy(d)
      BY <1>1
  <2>2. \A c \in Greedy : Parent[c] # x
      BY DEF Plain
  <2> QED BY <1>2, <2>1, <2>2, DragTerms DEF DragDrop!Takers
<1> QED BY <1>1, <1>4, <1>5 DEF Dark

(* _mouseUp.                                                               *)
LEMMA MouseUpKeeps ==
    ASSUME DragDropInv, NEW d, d = listener, d # NoElement, NEW there,
           started => Under[there] = Under[place], UNCHANGED droppables,
           NEW wasStarted, wasStarted = started, DragDrop!MouseUp(d, wasStarted, there, dd)
    PROVE  DragDropInv'
<1>1. PICK s : s = DragDrop!PrepareOffsets(dd, d, FALSE)
  OBVIOUS
<1>2. listener' = NoElement /\ mouseHandled' = FALSE /\ started' = FALSE
  BY DEF DragDrop!MouseUp
<1>3. CASE ~started
  <2>1. dd' = s /\ UNCHANGED <<helper, reverting>>
      BY <1>1, <1>3 DEF DragDrop!MouseUp, DragDrop!drags
  <2>2. Dark(dd) /\ helper = reverting
      BY <1>3 DEF DragDropInv
  <2>3. Dark(s)
      BY <1>1, <2>2, PrepareKeeps
  <2>4. Dark(dd')
      BY <2>1, <2>3
  <2> QED BY <1>2, <2>1, <2>2, <2>4, DragDropAssumption DEF DragDropInv
<1>4. CASE started
  <2>1. /\ dd' = DragDrop!Drop(s, d, there)
        /\ \/ reverting' = reverting \cup {d} /\ helper' = helper \cup {d}
           \/ reverting' = reverting \ {d} /\ helper' = helper \ {d}
      BY <1>1, <1>4 DEF DragDrop!MouseUp, DragDrop!Clear
  <2>2. Lighting(dd, d) /\ dd.lit \cap Plain \subseteq Under[place] /\ d \notin reverting
        /\ helper = reverting \cup {d}
      BY <1>4 DEF DragDropInv
  <2>3. dd \in Told
      BY <2>2 DEF Lighting
  <2>4. Lighting(s, d)
      BY <1>1, <2>2, PrepareKeeps
  <2>5. s = [dd EXCEPT !.visible = @ \cup TakenBy(d)]
      BY <1>1, <2>3, PrepareKeeps
  <2>6. s.lit = dd.lit /\ TakenBy(d) \subseteq s.visible
      BY <2>3, <2>5 DEF Told
  <2>7. s.lit \cap Plain \subseteq Under[there]
      BY <1>4, <2>2, <2>6
  <2>8. PICK new : new = DragDrop!Drop(s, d, there)
      OBVIOUS
  <2>9. Dark(new)
      BY <2>4, <2>6, <2>7, <2>8, DropKeeps
  <2>10. d \in Draggable /\ reverting \subseteq Draggable
      BY DEF DragDropInv
  <2>11. reverting' \subseteq Draggable /\ helper' = reverting'
      BY <2>1, <2>2, <2>10
  <2>12. Dark(dd')
      BY <2>1, <2>8, <2>9
  <2> QED BY <1>2, <2>11, <2>12, DragDropAssumption DEF DragDropInv
<1> QED BY <1>3, <1>4

(* _mouseStart, when it is not refused, and _mouseDrag.                    *)
LEMMA DragStartKeeps ==
    ASSUME DragDropInv, ~started, listener # NoElement, NEW to, place' = to,
           dd' = DragDrop!Drag(DragDrop!Drag(DragDrop!PrepareOffsets(dd, listener, TRUE),
                                             listener, pressedAt), listener, to),
           started' = TRUE, helper' = helper \cup {listener},
           UNCHANGED <<droppables, mouseHandled, listener, reverting>>
    PROVE  DragDropInv'
<1>1. PICK d, list, there : d = listener /\ list = droppables /\ there = pressedAt
  OBVIOUS
<1>2. list \in Seq(Droppable) /\ ToSet(list) = Droppable /\ Dark(dd)
  BY <1>1 DEF DragDropInv
<1>3. PICK s1 : s1 = DragDrop!PrepareOffsets(dd, d, TRUE)
  OBVIOUS
<1>4. PICK s2 : s2 = DragDrop!Drag(s1, d, there)
  OBVIOUS
<1>5. PICK s3 : s3 = DragDrop!Drag(s2, d, to)
  OBVIOUS
<1>6. PICK s : s = dd
  OBVIOUS
<1>7. Lighting(s1, d)
  BY <1>2, <1>3, <1>6, PrepareStarts
<1>8. Lighting(s2, d)
  BY <1>1, <1>2, <1>4, <1>7, DragKeeps
<1>9. Lighting(s3, d) /\ s3.lit \cap Plain \subseteq Under[to]
  BY <1>1, <1>2, <1>5, <1>8, DragKeeps
<1>10. dd' = s3
  BY <1>1, <1>3, <1>4, <1>5
<1> QED BY <1>1, <1>9, <1>10 DEF DragDropInv

LEMMA DragOnKeeps ==
    ASSUME DragDropInv, started, NEW to, place' = to, dd' = DragDrop!Drag(dd, listener, to),
           UNCHANGED <<droppables, mouseHandled, listener, started, helper, reverting>>
    PROVE  DragDropInv'
<1>1. PICK d, list, s : d = listener /\ list = droppables /\ s = dd
  OBVIOUS
<1>2. list \in Seq(Droppable) /\ ToSet(list) = Droppable /\ Lighting(s, d)
  BY <1>1 DEF DragDropInv
<1>3. PICK new : new = DragDrop!Drag(s, d, to)
  OBVIOUS
<1>4. Lighting(new, d) /\ new.lit \cap Plain \subseteq Under[to]
  BY <1>1, <1>2, <1>3, DragKeeps
<1> QED BY <1>1, <1>3, <1>4 DEF DragDropInv

THEOREM DragDropInvariant == DragDrop!DragDropSpec => []DragDropInv
<1> USE DragDropAssumption
<1>1. DragDrop!DragDropInit => DragDropInv
  <2> SUFFICES ASSUME DragDrop!DragDropInit PROVE DragDropInv
      OBVIOUS
  <2>1. droppables \in Seq(Droppable) /\ ToSet(droppables) = Droppable
    <3>1. DragDrop!Cardinality(Droppable) = Cardinality(Droppable)
        BY DEF DragDrop!Cardinality, Cardinality
    <3>2. \A S, T : DragDrop!Bijection(S, T) = Bijection(S, T)
        BY DEF DragDrop!Bijection, Bijection, DragDrop!Injection, Injection, DragDrop!Surjection,
               Surjection, DragDrop!IsInjective, IsInjective
    <3>3. PICK list \in Bijection(1 .. Cardinality(Droppable), Droppable) : list = droppables
        BY <3>1, <3>2 DEF DragDrop!DragDropInit
    <3> QED BY <3>3, SomeOrder
  <2>2. /\ started = FALSE /\ listener = NoElement /\ mouseHandled = FALSE
        /\ helper = {} /\ reverting = {}
        /\ dd = [over |-> {}, greedyChild |-> {}, visible |-> {}, lit |-> {}, waiting |-> {}]
      BY DEF DragDrop!DragDropInit
  <2>3. Dark(dd)
      BY <2>2 DEF Dark, Told
  <2> QED BY <2>1, <2>2, <2>3 DEF DragDropInv
<1>2. DragDropInv /\ [DragDrop!DragDropNext]_(DragDrop!dragDropVars) => DragDropInv'
  <2> SUFFICES ASSUME DragDropInv, [DragDrop!DragDropNext]_(DragDrop!dragDropVars)
               PROVE  DragDropInv'
      OBVIOUS
  <2> USE DEF DragDrop!drags, DragDrop!mouse
  <2>1. ASSUME NEW d \in Draggable, DragDrop!MouseDown(d) PROVE DragDropInv'
    <3>1. UNCHANGED <<droppables, started, helper, reverting, dd, place>>
        BY <2>1 DEF DragDrop!MouseDown
    <3>2. CASE UNCHANGED <<mouseHandled, listener>>
        BY <3>1, <3>2 DEF DragDropInv
    <3>3. CASE ~(mouseHandled \/ d \in helper \cup gone) /\ mouseHandled' = TRUE /\ listener' = d
      <4>1. ~started /\ d \notin reverting
          BY <3>3 DEF DragDropInv
      <4> QED BY <3>1, <3>3, <4>1 DEF DragDropInv
    <3> QED BY <2>1, <3>2, <3>3 DEF DragDrop!MouseDown
  <2>2. ASSUME NEW d \in Draggable, DragDrop!DelayTimer(d) PROVE DragDropInv'
      BY <2>2 DEF DragDrop!DelayTimer, DragDropInv
  <2>3. ASSUME NEW d \in Draggable, DragDrop!RevertEnds(d) PROVE DragDropInv'
    <3>1. d \in reverting /\ helper' = helper \ {d} /\ reverting' = reverting \ {d}
          /\ UNCHANGED <<droppables, place, mouseHandled, listener, started, dd>>
        BY <2>3 DEF DragDrop!RevertEnds, DragDrop!Clear
    <3>2. listener # d
        BY <3>1 DEF DragDropInv
    <3> QED BY <3>1, <3>2 DEF DragDropInv
  <2>4. ASSUME NEW d \in Draggable, DragDrop!Destroy(d) PROVE DragDropInv'
    <3>1. UNCHANGED <<droppables, place, mouseHandled, started, helper, reverting, dd>>
        BY <2>4 DEF DragDrop!Destroy
    <3>2. CASE listener' = listener
        BY <3>1, <3>2 DEF DragDropInv
    <3>3. CASE listener' # listener
      <4>1. d \notin helper /\ listener = d /\ listener' = NoElement
          BY <2>4, <3>3 DEF DragDrop!Destroy
      <4>2. ~started
          BY <4>1 DEF DragDropInv
      <4> QED BY <3>1, <4>1, <4>2 DEF DragDropInv
    <3> QED BY <3>2, <3>3
  <2>5. ASSUME NEW to \in Spot, NEW moved \in BOOLEAN, DragDrop!MouseMove(to, moved)
        PROVE  DragDropInv'
    <3>1. place' = to /\ UNCHANGED <<droppables, button, pressedAt, delayMet, timers>>
        BY <2>5 DEF DragDrop!MouseMove
    <3>2. CASE UNCHANGED <<mouseHandled, listener, started, helper, reverting, dd>> /\ ~started
        BY <3>1, <3>2 DEF DragDropInv
    <3>3. CASE listener = NoElement
      <4>1. UNCHANGED <<mouseHandled, listener, started, helper, reverting, dd>>
          BY <2>5, <3>3 DEF DragDrop!MouseMove
      <4>2. ~started
          BY <3>3 DEF DragDropInv
      <4> QED BY <3>2, <4>1, <4>2
    <3>4. CASE listener # NoElement /\ ~button
      <4>1. DragDrop!MouseUp(listener, started, place, dd)
          BY <2>5, <3>4 DEF DragDrop!MouseMove
      <4> QED BY <3>1, <3>4, <4>1, MouseUpKeeps
    <3>5. CASE listener # NoElement /\ button /\ started
      <4>1. DragDrop!MouseDrag(listener, to)
          BY <2>5, <3>5 DEF DragDrop!MouseMove
      <4>2. CASE Under[to] = Under[place] /\ DragDrop!MouseUp(listener, TRUE, to, dd)
        <5>1. PICK there, was : there = to /\ was = TRUE
            OBVIOUS
        <5>2. was = started
            BY <3>5, <5>1 DEF DragDropInv
        <5> QED BY <3>1, <3>5, <4>2, <5>1, <5>2, MouseUpKeeps
      <4>3. CASE /\ dd' = DragDrop!Drag(dd, listener, to)
                 /\ UNCHANGED <<mouseHandled, listener, started, helper, reverting>>
          BY <3>1, <3>5, <4>3, DragOnKeeps
      <4> QED BY <4>1, <4>2, <4>3 DEF DragDrop!MouseDrag
    <3>6. CASE listener # NoElement /\ button /\ ~started
      <4>1. CASE UNCHANGED <<mouseHandled, listener, started, helper, reverting, dd>>
          BY <3>2, <3>6, <4>1
      <4>2. CASE DragDrop!MouseStart(listener, to)
        <5>1. CASE DragDrop!MouseUp(listener, FALSE, to, dd)
          <6>1. PICK there, was : there = to /\ was = FALSE
              OBVIOUS
          <6>2. was = started
              BY <3>6, <6>1 DEF DragDropInv
          <6> QED BY <3>1, <3>6, <5>1, <6>1, <6>2, MouseUpKeeps
        <5>2. CASE ~DragDrop!MouseUp(listener, FALSE, to, dd)
          <6>1. /\ dd' = DragDrop!Drag(DragDrop!Drag(DragDrop!PrepareOffsets(dd, listener, TRUE),
                                                     listener, pressedAt), listener, to)
                /\ started' = TRUE /\ helper' = helper \cup {listener}
                /\ UNCHANGED <<mouseHandled, listener, reverting>>
              BY <4>2, <5>2 DEF DragDrop!MouseStart
          <6> QED BY <3>1, <3>6, <6>1, DragStartKeeps
        <5> QED BY <5>1, <5>2
      <4> QED BY <2>5, <3>6, <4>1, <4>2 DEF DragDrop!MouseMove
    <3> QED BY <3>3, <3>4, <3>5, <3>6
  <2>6. ASSUME DragDrop!Release PROVE DragDropInv'
    <3>1. UNCHANGED <<droppables, place>>
        BY <2>6 DEF DragDrop!Release
    <3>2. CASE listener # NoElement
      <4>1. DragDrop!MouseUp(listener, started, place, dd)
          BY <2>6, <3>2 DEF DragDrop!Release
      <4> QED BY <3>1, <3>2, <4>1, MouseUpKeeps
    <3>3. CASE listener = NoElement
      <4>1. mouseHandled' = FALSE /\ UNCHANGED <<listener, started, helper, reverting, dd>>
          BY <2>6, <3>3 DEF DragDrop!Release
      <4> QED BY <3>1, <3>3, <4>1 DEF DragDropInv
    <3> QED BY <3>2, <3>3
  <2>7. ASSUME DragDrop!ReleaseUnseen PROVE DragDropInv'
      BY <2>7 DEF DragDrop!ReleaseUnseen, DragDropInv
  <2>8. ASSUME DragDrop!Cancel PROVE DragDropInv'
    <3>1. started /\ DragDrop!MouseUp(listener, TRUE, place, dd) /\ UNCHANGED <<droppables, place>>
        BY <2>8 DEF DragDrop!Cancel
    <3>2. PICK was : was = TRUE
        OBVIOUS
    <3>3. was = started /\ listener # NoElement
        BY <3>1, <3>2 DEF DragDropInv
    <3> QED BY <3>1, <3>2, <3>3, MouseUpKeeps
  <2>9. ASSUME UNCHANGED DragDrop!dragDropVars PROVE DragDropInv'
      BY <2>9 DEF DragDrop!dragDropVars, DragDropInv
  <2> QED BY <2>1, <2>2, <2>3, <2>4, <2>5, <2>6, <2>7, <2>8, <2>9 DEF DragDrop!DragDropNext
<1> QED BY <1>1, <1>2, PTL DEF DragDrop!DragDropSpec

(* Nothing stays lit: what is lit when no drag is on has a greedy droppable *)
(* in it.                                                                   *)
THEOREM DragDropCorrect == DragDrop!DragDropSpec => []NothingStaysLit
<1>1. DragDropInv => NothingStaysLit
  <2> SUFFICES ASSUME DragDropInv PROVE NothingStaysLit
      OBVIOUS
  <2>1. dd.lit \subseteq Droppable /\ Greedy \subseteq Plain
      BY GreedyIsPlain DEF DragDropInv, Lighting, Dark, Told
  <2>2. ASSUME NEW p \in dd.lit, \A c \in Greedy : Parent[c] # p
        PROVE  started /\ p \in Under[place]
    <3>1. p \in Plain
        BY <2>1, <2>2 DEF Plain
    <3> QED BY <3>1 DEF DragDropInv, Dark
  <2>3. ASSUME NEW p \in dd.lit, p \in Greedy PROVE Parent[p] \notin dd.lit
    <3>1. started
        BY <2>1, <2>3 DEF DragDropInv, Dark
    <3>2. CASE Parent[p] = NoElement
        BY <2>1, <3>2, DragDropAssumption
    <3>3. CASE Parent[p] # NoElement
        BY <2>3, <3>1, <3>3 DEF DragDropInv, Lighting
    <3> QED BY <3>2, <3>3
  <2>4. started \/ dd.waiting = {}
      BY DEF DragDropInv, Dark
  <2>5. helper = reverting \cup IF started THEN {listener} ELSE {}
      BY DEF DragDropInv
  <2> QED BY <2>2, <2>3, <2>4, <2>5 DEF NothingStaysLit, DragDrop!NothingStaysLit
<1> QED BY <1>1, DragDropInvariant, PTL

-----------------------------------------------------------------------------
(***************************************************************************)
(* The sortable lists: the page has been told what they hold.              *)
(***************************************************************************)

(* The order of the elements of a list.                                    *)

Comes(s, a, b) == \E i, j \in 1 .. Len(s) : i < j /\ s[i] = a /\ s[j] = b

LEMMA OrderIs ==
    ASSUME NEW V, NEW s \in Seq(V), Once(s)
    PROVE  /\ \A i, j \in 1 .. Len(s) : Comes(s, s[i], s[j]) <=> i < j
           /\ \A a, b : Comes(s, a, b) => a \in ToSet(s) /\ b \in ToSet(s) /\ a # b /\ ~Comes(s, b, a)
           /\ \A a, b \in ToSet(s) : a = b \/ Comes(s, a, b) \/ Comes(s, b, a)
<1>1. PICK n \in Nat : n = Len(s) /\ DOMAIN s = 1 .. n
    OBVIOUS
<1>2. ASSUME NEW i \in 1 .. n, NEW j \in 1 .. n PROVE Comes(s, s[i], s[j]) <=> i < j
  <2>1. i < j => Comes(s, s[i], s[j])
      BY <1>1 DEF Comes
  <2>2. ASSUME Comes(s, s[i], s[j]) PROVE i < j
    <3>1. PICK k \in 1 .. n, l \in 1 .. n : k < l /\ s[k] = s[i] /\ s[l] = s[j]
        BY <1>1, <2>2 DEF Comes
    <3>2. k = i /\ l = j
        BY <1>1, <3>1 DEF Once
    <3> QED BY <3>1, <3>2
  <2> QED BY <2>1, <2>2
<1>3. ASSUME NEW a, NEW b, Comes(s, a, b)
      PROVE  a \in ToSet(s) /\ b \in ToSet(s) /\ a # b /\ ~Comes(s, b, a)
  <2>1. PICK i \in 1 .. n, j \in 1 .. n : i < j /\ s[i] = a /\ s[j] = b
      BY <1>1, <1>3 DEF Comes
  <2>2. a \in ToSet(s) /\ b \in ToSet(s)
      BY <1>1, <2>1 DEF ToSet
  <2>3. ~(j < i) /\ i # j
      BY <2>1
  <2>4. a # b
      BY <1>1, <2>1, <2>3 DEF Once
  <2>5. ~Comes(s, b, a)
      BY <1>2, <2>1, <2>3
  <2> QED BY <2>2, <2>4, <2>5
<1>4. ASSUME NEW a \in ToSet(s), NEW b \in ToSet(s) PROVE a = b \/ Comes(s, a, b) \/ Comes(s, b, a)
  <2>1. PICK i \in 1 .. n, j \in 1 .. n : s[i] = a /\ s[j] = b
      BY <1>1 DEF ToSet
  <2>2. i = j \/ i < j \/ j < i
      OBVIOUS
  <2> QED BY <1>2, <2>1, <2>2
<1> QED BY <1>1, <1>2, <1>3, <1>4

(* Two lists of the same elements in the same order are one.               *)
LEMMA SameOrder ==
    ASSUME NEW V, NEW s \in Seq(V), NEW t \in Seq(V), Once(s), Once(t), ToSet(s) = ToSet(t),
           \A a, b \in ToSet(s) : Comes(s, a, b) <=> Comes(t, a, b)
    PROVE  s = t
<1>1. PICK m \in Nat, n \in Nat : m = Len(s) /\ DOMAIN s = 1 .. m /\ n = Len(t) /\ DOMAIN t = 1 .. n
    OBVIOUS
<1> DEFINE T == {k \in 0 .. m : k <= n /\ \A i \in 1 .. k : s[i] = t[i]}
<1>2. 0 \in T
    OBVIOUS
<1>3. ASSUME NEW k \in 0 .. m - 1, k \in T PROVE k + 1 \in T
  <2>1. k + 1 \in 1 .. m /\ k <= n /\ \A i \in 1 .. k : s[i] = t[i] /\ i \in 1 .. m /\ i \in 1 .. n
      BY <1>3
  <2>2. PICK j \in 1 .. n : t[j] = s[k + 1]
    <3>1. s[k + 1] \in ToSet(t)
        BY <1>1, <2>1 DEF ToSet
    <3> QED BY <1>1, <3>1 DEF ToSet
  <2>3. j \notin 1 .. k
    <3> SUFFICES ASSUME j \in 1 .. k PROVE FALSE
        OBVIOUS
    <3>1. s[j] = s[k + 1] /\ j \in 1 .. m
        BY <2>1, <2>2
    <3>2. j = k + 1
        BY <1>1, <2>1, <3>1 DEF Once
    <3> QED BY <3>2
  <2>4. k + 1 <= n /\ k + 1 \in 1 .. n
      BY <2>1, <2>3
  <2>5. PICK l \in 1 .. m : s[l] = t[k + 1]
    <3>1. t[k + 1] \in ToSet(s)
        BY <1>1, <2>4 DEF ToSet
    <3> QED BY <1>1, <3>1 DEF ToSet
  <2>6. l \notin 1 .. k
    <3> SUFFICES ASSUME l \in 1 .. k PROVE FALSE
        OBVIOUS
    <3>1. t[l] = t[k + 1] /\ l \in 1 .. n
        BY <2>1, <2>5
    <3>2. l = k + 1
        BY <1>1, <2>4, <3>1 DEF Once
    <3> QED BY <3>2
  <2>7. j = k + 1
    <3> SUFFICES ASSUME j # k + 1 PROVE FALSE
        OBVIOUS
    <3>1. k + 1 < j
        BY <2>3
    <3>2. Comes(t, t[k + 1], t[j]) /\ ~Comes(t, t[j], t[k + 1])
      <4>1. ~(j < k + 1)
          BY <3>1
      <4> QED BY <1>1, <2>4, <3>1, <4>1, OrderIs
    <3>3. l # k + 1
      <4>1. t[j] # t[k + 1]
          BY <1>1, <2>4, <3>1 DEF Once
      <4> QED BY <2>2, <2>5, <4>1
    <3>4. k + 1 < l
        BY <2>6, <3>3
    <3>5. Comes(s, s[k + 1], s[l])
        BY <1>1, <2>1, <3>4, OrderIs
    <3>6. Comes(s, t[j], t[k + 1]) /\ t[j] \in ToSet(s) /\ t[k + 1] \in ToSet(s)
        BY <1>1, <2>1, <2>2, <2>5, <3>5 DEF ToSet
    <3> QED BY <3>2, <3>6
  <2>8. \A i \in 1 .. k + 1 : i \in 1 .. k \/ i = k + 1
      OBVIOUS
  <2>9. k + 1 \in 0 .. m
      OBVIOUS
  <2> QED BY <2>1, <2>2, <2>4, <2>7, <2>8, <2>9
<1> HIDE DEF T
<1>4. m \in T
  <2>1. \A k \in 0 .. m : k \in T
      BY <1>2, <1>3, BoundedInduction
  <2> QED BY <2>1
<1>5. m <= n /\ \A i \in 1 .. m : s[i] = t[i]
    BY <1>4 DEF T
<1>6. m = n
  <2> SUFFICES ASSUME m + 1 \in 1 .. n PROVE FALSE
      BY <1>5
  <2>1. t[m + 1] \in ToSet(s)
      BY <1>1 DEF ToSet
  <2>2. PICK l \in 1 .. m : s[l] = t[m + 1]
      BY <1>1, <2>1 DEF ToSet
  <2>3. t[l] = t[m + 1] /\ l \in 1 .. n
      BY <1>5, <2>2
  <2>4. l = m + 1
      BY <1>1, <2>3 DEF Once
  <2> QED BY <2>4
<1> QED BY <1>1, <1>5, <1>6, SeqEqual

(* What is taken out of a list is in its order.                            *)
LEMMA OnlyInOrder ==
    ASSUME NEW V, NEW s \in Seq(V), Once(s), NEW S
    PROVE  /\ OnlyIn(s, S) \in Seq(V) /\ Once(OnlyIn(s, S)) /\ ToSet(OnlyIn(s, S)) = ToSet(s) \cap S
           /\ \A a, b \in S : Comes(OnlyIn(s, S), a, b) <=> Comes(s, a, b)
<1> DEFINE found == OnlyIn(s, S)
<1>1. PICK from : Picks(found, from, s, S, Len(s))
    BY OnlyInIs
<1>2. found \in Seq(V) /\ Once(found) /\ ToSet(found) = ToSet(s) \cap S
    BY OnlyInOnce
<1> HIDE DEF found
<1>3. PICK m \in Nat, n \in Nat : m = Len(found) /\ n = Len(s)
    BY <1>2, LenProperties
<1>4. /\ from \in [1 .. m -> 1 .. n]
      /\ \A i \in 1 .. m : found[i] = s[from[i]]
      /\ \A i, j \in 1 .. m : i < j => from[i] < from[j]
      /\ \A k \in 1 .. n : s[k] \in S => \E i \in 1 .. m : from[i] = k
    BY <1>1, <1>3 DEF Picks
<1>5. ASSUME NEW a \in S, NEW b \in S, Comes(found, a, b) PROVE Comes(s, a, b)
  <2>1. PICK i \in 1 .. m, j \in 1 .. m : i < j /\ found[i] = a /\ found[j] = b
      BY <1>3, <1>5 DEF Comes
  <2>2. from[i] \in 1 .. n /\ from[j] \in 1 .. n /\ from[i] < from[j] /\ s[from[i]] = a /\ s[from[j]] = b
      BY <1>4, <2>1
  <2> QED BY <1>3, <2>2 DEF Comes
<1>6. ASSUME NEW a \in S, NEW b \in S, Comes(s, a, b) PROVE Comes(found, a, b)
  <2>1. PICK k \in 1 .. n, l \in 1 .. n : k < l /\ s[k] = a /\ s[l] = b
      BY <1>3, <1>6 DEF Comes
  <2>2. PICK i \in 1 .. m, j \in 1 .. m : from[i] = k /\ from[j] = l
      BY <1>4, <2>1
  <2>3. i < j
    <3>1. i # j /\ ~(j < i)
        BY <1>4, <2>1, <2>2
    <3> QED BY <3>1
  <2>4. found[i] = a /\ found[j] = b
      BY <1>4, <2>1, <2>2
  <2> QED BY <1>3, <2>3, <2>4 DEF Comes
<1> QED BY <1>2, <1>5, <1>6 DEF found

(* One element more.                                                       *)
Inserted(t, s, n, i, x) ==
    /\ Len(t) = n + 1 /\ t[i + 1] = x
    /\ \A j \in 1 .. i : t[j] = s[j]
    /\ \A j \in i + 1 .. n : t[j + 1] = s[j]

LEMMA InsertIs ==
    ASSUME NEW V, NEW s \in Seq(V), NEW n, Len(s) = n, NEW i \in 0 .. n, NEW x \in V
    PROVE  /\ Sortable!Insert(s, i, x) \in Seq(V)
           /\ Inserted(Sortable!Insert(s, i, x), s, n, i, x)
<1> n \in Nat
    OBVIOUS
<1> DEFINE a == SubSeq(s, 1, i)
           b == SubSeq(s, i + 1, n)
           ax == a \o <<x>>
           t == ax \o b
<1>1. Sortable!Insert(s, i, x) = t
    BY DEF Sortable!Insert
<1>2. a \in Seq(V) /\ Len(a) = i /\ \A j \in 1 .. i : a[j] = s[j]
    OBVIOUS
<1>3. b \in Seq(V) /\ Len(b) = n - i /\ \A j \in 1 .. n - i : b[j] = s[i + j]
    OBVIOUS
<1> HIDE DEF a, b
<1>4. ax \in Seq(V) /\ Len(ax) = i + 1 /\ ax[i + 1] = x /\ \A j \in 1 .. i : ax[j] = s[j]
    BY <1>2
<1> HIDE DEF ax
<1>5. /\ t \in Seq(V) /\ Len(t) = n + 1
      /\ \A j \in 1 .. i + 1 : t[j] = ax[j]
      /\ \A j \in 1 .. n - i : t[i + 1 + j] = b[j]
  <2>1. /\ t \in Seq(V) /\ Len(t) = Len(ax) + Len(b)
        /\ \A j \in 1 .. Len(ax) + Len(b) : t[j] = IF j <= Len(ax) THEN ax[j] ELSE b[j - Len(ax)]
      BY <1>3, <1>4, ConcatProperties
  <2> HIDE DEF t
  <2>2. \A j \in 1 .. n + 1 : t[j] = IF j <= i + 1 THEN ax[j] ELSE b[j - (i + 1)]
    <3>1. Len(ax) = i + 1 /\ Len(b) = n - i
        BY <1>3, <1>4
    <3>2. (i + 1) + (n - i) = n + 1
        OBVIOUS
    <3> QED BY <2>1, <3>1, <3>2, Zenon
  <2>3. \A j \in 1 .. i + 1 : t[j] = ax[j]
      BY <2>2
  <2>4. ASSUME NEW j \in 1 .. n - i PROVE t[i + 1 + j] = b[j]
    <3>1. i + 1 + j \in 1 .. n + 1 /\ ~(i + 1 + j <= i + 1) /\ (i + 1 + j) - (i + 1) = j
        OBVIOUS
    <3> QED BY <2>2, <3>1
  <2>5. t \in Seq(V) /\ Len(t) = n + 1
      BY <1>3, <1>4, <2>1
  <2> QED BY <2>3, <2>4, <2>5
<1> HIDE DEF t
<1>6. t[i + 1] = x /\ \A j \in 1 .. i : t[j] = s[j]
    BY <1>4, <1>5
<1>7. ASSUME NEW j \in i + 1 .. n PROVE t[j + 1] = s[j]
  <2>1. j - i \in 1 .. n - i /\ i + 1 + (j - i) = j + 1 /\ i + (j - i) = j
      OBVIOUS
  <2>2. t[i + 1 + (j - i)] = b[j - i] /\ b[j - i] = s[i + (j - i)]
      BY <1>3, <1>5, <2>1
  <2> QED BY <2>1, <2>2
<1> QED BY <1>1, <1>5, <1>6, <1>7 DEF Inserted

(* Where it is among the others, whose order stays as it was.              *)
LEMMA InsertOrder ==
    ASSUME NEW V, NEW s \in Seq(V), Once(s), NEW n \in Nat, Len(s) = n, NEW i \in 0 .. n,
           NEW x \in V, x \notin ToSet(s), NEW t, t = Sortable!Insert(s, i, x)
    PROVE  /\ t \in Seq(V) /\ Once(t) /\ ToSet(t) = ToSet(s) \cup {x}
           /\ \A a, b \in ToSet(s) : Comes(t, a, b) <=> Comes(s, a, b)
           /\ \A j \in 1 .. n : Comes(t, s[j], x) <=> j <= i
           /\ \A j \in 1 .. n : Comes(t, x, s[j]) <=> i < j
<1>1. /\ t \in Seq(V) /\ Len(t) = n + 1 /\ t[i + 1] = x
      /\ \A j \in 1 .. i : t[j] = s[j]
      /\ \A j \in i + 1 .. n : t[j + 1] = s[j]
  <2>1. t \in Seq(V) /\ Inserted(t, s, n, i, x)
      BY InsertIs
  <2> QED BY <2>1, Zenon DEF Inserted
<1>2. DOMAIN s = 1 .. n /\ DOMAIN t = 1 .. n + 1
    BY <1>1
<1> DEFINE to == [j \in 1 .. n |-> IF j <= i THEN j ELSE j + 1]
<1>3. \A j \in 1 .. n : to[j] \in 1 .. n + 1 /\ t[to[j]] = s[j] /\ to[j] # i + 1
                         /\ (to[j] < i + 1 <=> j <= i) /\ (i + 1 < to[j] <=> i < j)
    BY <1>1
<1>4. \A j, k \in 1 .. n : to[j] < to[k] <=> j < k
    OBVIOUS
<1>5. \A k \in 1 .. n + 1 : k = i + 1 \/ \E j \in 1 .. n : to[j] = k
  <2> SUFFICES ASSUME NEW k \in 1 .. n + 1, k # i + 1 PROVE \E j \in 1 .. n : to[j] = k
      OBVIOUS
  <2>1. CASE k <= i
      BY <2>1
  <2>2. CASE k > i + 1
    <3>1. k - 1 \in 1 .. n /\ to[k - 1] = k
        BY <2>2
    <3> QED BY <3>1
  <2> QED BY <2>1, <2>2
<1> HIDE DEF to
<1>6. ToSet(t) = ToSet(s) \cup {x}
  <2>1. ASSUME NEW y \in ToSet(t) PROVE y \in ToSet(s) \cup {x}
    <3>1. PICK k \in 1 .. n + 1 : y = t[k]
        BY <1>2 DEF ToSet
    <3>2. CASE k = i + 1
        BY <1>1, <3>1, <3>2
    <3>3. CASE k # i + 1
      <4>1. PICK j \in 1 .. n : to[j] = k
          BY <1>5, <3>3
      <4>2. y = s[j]
          BY <1>3, <3>1, <4>1
      <4> QED BY <1>2, <4>2 DEF ToSet
    <3> QED BY <3>2, <3>3
  <2>2. ASSUME NEW y \in ToSet(s) PROVE y \in ToSet(t)
    <3>1. PICK j \in 1 .. n : y = s[j]
        BY <1>2 DEF ToSet
    <3>2. y = t[to[j]] /\ to[j] \in 1 .. n + 1
        BY <1>3, <3>1
    <3> QED BY <1>2, <3>2 DEF ToSet
  <2>3. x \in ToSet(t)
    <3>1. i + 1 \in 1 .. n + 1
        OBVIOUS
    <3> QED BY <1>1, <1>2, <3>1 DEF ToSet
  <2> QED BY <2>1, <2>2, <2>3
<1>7. Once(t)
  <2> SUFFICES ASSUME NEW k \in 1 .. n + 1, NEW l \in 1 .. n + 1, t[k] = t[l] PROVE k = l
      BY <1>1 DEF Once
  <2>1. \A j \in 1 .. n : t[to[j]] # x
      BY <1>2, <1>3 DEF ToSet
  <2>2. CASE k = i + 1 \/ l = i + 1
    <3>1. \A m \in 1 .. n + 1 : t[m] = x => m = i + 1
        BY <1>5, <2>1
    <3>2. t[k] = x /\ t[l] = x
        BY <1>1, <2>2
    <3> QED BY <3>1, <3>2
  <2>3. CASE k # i + 1 /\ l # i + 1
    <3>1. PICK p \in 1 .. n, q \in 1 .. n : to[p] = k /\ to[q] = l
        BY <1>5, <2>3
    <3>2. s[p] = s[q]
        BY <1>3, <3>1
    <3>3. p = q
        BY <3>2 DEF Once
    <3> QED BY <3>1, <3>3
  <2> QED BY <2>2, <2>3
<1>8. \A k, l \in 1 .. n + 1 : Comes(t, t[k], t[l]) <=> k < l
    BY <1>1, <1>7, OrderIs
<1>9. \A k, l \in 1 .. n : Comes(s, s[k], s[l]) <=> k < l
    BY OrderIs
<1>10. ASSUME NEW a \in ToSet(s), NEW b \in ToSet(s) PROVE Comes(t, a, b) <=> Comes(s, a, b)
  <2>1. PICK j \in 1 .. n, k \in 1 .. n : a = s[j] /\ b = s[k]
      BY <1>2 DEF ToSet
  <2>2. a = t[to[j]] /\ b = t[to[k]] /\ to[j] \in 1 .. n + 1 /\ to[k] \in 1 .. n + 1
      BY <1>3, <2>1
  <2>3. Comes(t, a, b) <=> to[j] < to[k]
      BY <1>8, <2>2
  <2>4. Comes(s, a, b) <=> j < k
      BY <1>9, <2>1
  <2> QED BY <1>4, <2>3, <2>4
<1>11. ASSUME NEW j \in 1 .. n PROVE (Comes(t, s[j], x) <=> j <= i) /\ (Comes(t, x, s[j]) <=> i < j)
  <2>1. s[j] = t[to[j]] /\ to[j] \in 1 .. n + 1 /\ x = t[i + 1] /\ i + 1 \in 1 .. n + 1
      BY <1>1, <1>3
  <2>2. (Comes(t, s[j], x) <=> to[j] < i + 1) /\ (Comes(t, x, s[j]) <=> i + 1 < to[j])
      BY <1>8, <2>1
  <2> QED BY <1>3, <2>2
<1> QED BY <1>1, <1>6, <1>7, <1>10, <1>11

(* Position.                                                               *)
LEMMA PositionIs ==
    ASSUME NEW V, NEW s \in Seq(V), Once(s), NEW y \in ToSet(s)
    PROVE  /\ Sortable!Position(s, y) \in 1 .. Len(s) /\ s[Sortable!Position(s, y)] = y
           /\ \A i \in 1 .. Len(s) : s[i] = y => Sortable!Position(s, y) = i
<1>1. DOMAIN s = 1 .. Len(s)
    OBVIOUS
<1>2. \E i \in DOMAIN s : s[i] = y
    BY DEF ToSet
<1>3. Sortable!Position(s, y) \in DOMAIN s /\ s[Sortable!Position(s, y)] = y
    BY <1>2 DEF Sortable!Position
<1> QED BY <1>1, <1>3 DEF Once

(* Beside another.                                                         *)
PutBy(t, s, y, x) ==
    \/ t = Sortable!Insert(s, Sortable!Position(s, y) - 1, x)
    \/ t = Sortable!Insert(s, Sortable!Position(s, y), x)

LEMMA InsertBeside ==
    ASSUME NEW V, NEW s \in Seq(V), Once(s), NEW y \in ToSet(s), NEW x \in V, x \notin ToSet(s),
           NEW t, PutBy(t, s, y, x)
    PROVE  /\ t \in Seq(V) /\ Once(t) /\ ToSet(t) = ToSet(s) \cup {x}
           /\ \A a, b \in ToSet(s) : Comes(t, a, b) <=> Comes(s, a, b)
<1>1. PICK n \in Nat : n = Len(s)
    OBVIOUS
<1>2. PICK p : p = Sortable!Position(s, y) /\ p \in 1 .. n
    BY <1>1, PositionIs
<1>3. p - 1 \in 0 .. n /\ p \in 0 .. n
    BY <1>2
<1>4. CASE t = Sortable!Insert(s, p - 1, x)
    BY <1>1, <1>3, <1>4, InsertOrder
<1>5. CASE t = Sortable!Insert(s, p, x)
    BY <1>1, <1>3, <1>5, InsertOrder
<1> QED BY <1>2, <1>4, <1>5 DEF PutBy

LEMMA InsertBefore ==
    ASSUME NEW V, NEW s \in Seq(V), Once(s), NEW y \in ToSet(s), NEW x \in V, x \notin ToSet(s),
           NEW t, t = Sortable!Insert(s, Sortable!Position(s, y) - 1, x)
    PROVE  Comes(t, x, y)
<1>1. PICK n \in Nat : n = Len(s)
    OBVIOUS
<1>2. PICK p : p = Sortable!Position(s, y) /\ p \in 1 .. n /\ s[p] = y
    BY <1>1, PositionIs
<1>3. p - 1 \in 0 .. n /\ p - 1 < p
    BY <1>2
<1>4. Comes(t, x, s[p]) <=> p - 1 < p
    BY <1>1, <1>2, <1>3, InsertOrder
<1> QED BY <1>2, <1>3, <1>4

LEMMA Appended ==
    ASSUME NEW V, NEW s \in Seq(V), Once(s), NEW x \in V, x \notin ToSet(s),
           NEW t, t = Append(s, x) \/ t = <<x>> \o s
    PROVE  /\ t \in Seq(V) /\ Once(t) /\ ToSet(t) = ToSet(s) \cup {x}
           /\ \A a, b \in ToSet(s) : Comes(t, a, b) <=> Comes(s, a, b)
<1>1. PICK n \in Nat : n = Len(s)
    OBVIOUS
<1>2. 0 \in 0 .. n /\ n \in 0 .. n
    OBVIOUS
<1>3. ASSUME t = Append(s, x) PROVE t = Sortable!Insert(s, n, x)
  <2>1. t \in Seq(V) /\ Len(t) = n + 1 /\ t[n + 1] = x /\ \A j \in 1 .. n : t[j] = s[j]
      BY <1>1, <1>3
  <2>2. PICK u : u = Sortable!Insert(s, n, x)
      OBVIOUS
  <2>3. u \in Seq(V) /\ Len(u) = n + 1 /\ u[n + 1] = x /\ \A j \in 1 .. n : u[j] = s[j]
    <3>1. u \in Seq(V) /\ Inserted(u, s, n, n, x)
        BY <1>1, <1>2, <2>2, InsertIs
    <3> QED BY <3>1, Zenon DEF Inserted
  <2>4. \A j \in 1 .. n + 1 : j \in 1 .. n \/ j = n + 1
      OBVIOUS
  <2>5. \A j \in 1 .. n + 1 : t[j] = u[j]
      BY <2>1, <2>3, <2>4
  <2>6. t = u
      BY <2>1, <2>3, <2>5, SeqEqual
  <2> QED BY <2>2, <2>6
<1>4. ASSUME t = <<x>> \o s PROVE t = Sortable!Insert(s, 0, x)
  <2>1. t \in Seq(V) /\ Len(t) = n + 1 /\ t[1] = x /\ \A j \in 1 .. n : t[j + 1] = s[j]
      BY <1>1, <1>4
  <2>2. PICK u : u = Sortable!Insert(s, 0, x)
      OBVIOUS
  <2>3. u \in Seq(V) /\ Len(u) = n + 1 /\ u[1] = x /\ \A j \in 1 .. n : u[j + 1] = s[j]
    <3>1. /\ u \in Seq(V) /\ Len(u) = n + 1 /\ u[0 + 1] = x
          /\ \A j \in 0 + 1 .. n : u[j + 1] = s[j]
      <4>1. u \in Seq(V) /\ Inserted(u, s, n, 0, x)
          BY <1>1, <1>2, <2>2, InsertIs
      <4> QED BY <4>1, Zenon DEF Inserted
    <3>2. 0 + 1 = 1
        OBVIOUS
    <3> QED BY <3>1, <3>2
  <2>4. ASSUME NEW j \in 1 .. n + 1 PROVE t[j] = u[j]
    <3>1. CASE j = 1
        BY <2>1, <2>3, <3>1
    <3>2. CASE j # 1
      <4>1. j - 1 \in 1 .. n /\ (j - 1) + 1 = j
          BY <3>2
      <4>2. t[(j - 1) + 1] = s[j - 1] /\ u[(j - 1) + 1] = s[j - 1]
          BY <2>1, <2>3, <4>1
      <4> QED BY <4>1, <4>2
    <3> QED BY <3>1, <3>2
  <2>5. t = u
      BY <2>1, <2>3, <2>4, SeqEqual
  <2> QED BY <2>2, <2>5
<1> QED BY <1>1, <1>2, <1>3, <1>4, InsertOrder

-----------------------------------------------------------------------------
(* What is in the lists: items, and placeholders that have the names of    *)
(* lists.                                                                  *)
Entry == List \cup ListItem

(* The lists hold just these, each at one place.                           *)
Arranged(n, all) ==
    /\ n \in [List -> Seq(Entry)] /\ \A l \in List : Once(n[l])
    /\ \A l, m \in List : \A y \in ToSet(n[l]) : y \in ToSet(n[m]) => l = m
    /\ \A y : y \in all <=> \E l \in List : y \in ToSet(n[l])

(* Nothing but x has been taken away, or has got another place.            *)
Taken(n, new, x) ==
    \A l \in List : /\ ToSet(new[l]) = ToSet(n[l]) \ {x}
                    /\ \A a, b \in ToSet(n[l]) \ {x} : Comes(new[l], a, b) <=> Comes(n[l], a, b)

PutInto(n, new, x, k) ==
    \A l \in List : /\ ToSet(new[l]) = (ToSet(n[l]) \ {x}) \cup (IF l = k THEN {x} ELSE {})
                    /\ \A a, b \in ToSet(n[l]) \ {x} : Comes(new[l], a, b) <=> Comes(n[l], a, b)

LEMMA RangeIs == \A s : Sortable!Range(s) = ToSet(s)
BY DEF Sortable!Range, ToSet

LEMMA ItemsOfIs ==
    ASSUME NEW n, NEW all, Arranged(n, all), NEW l \in List
    PROVE  /\ Sortable!ItemsOf(n[l]) \in Seq(Entry) /\ Once(Sortable!ItemsOf(n[l]))
           /\ ToSet(Sortable!ItemsOf(n[l])) = ToSet(n[l]) \cap ListItem
           /\ \A a, b \in ListItem : Comes(Sortable!ItemsOf(n[l]), a, b) <=> Comes(n[l], a, b)
<1>1. Sortable!ItemsOf(n[l]) = OnlyIn(n[l], ListItem)
    BY DEF Sortable!ItemsOf, Sortable!OnlyIn, OnlyIn
<1>2. n[l] \in Seq(Entry) /\ Once(n[l])
    BY DEF Arranged
<1> QED BY <1>1, <1>2, OnlyInOrder

(* Without, and an element put into what is left.                           *)
LEMMA WithoutOne ==
    ASSUME NEW n, NEW all, Arranged(n, all), NEW x, NEW new, new = Sortable!Without(n, x)
    PROVE  Arranged(new, all \ {x}) /\ Taken(n, new, x)
<1>1. new = [l \in List |-> OnlyIn(n[l], ToSet(n[l]) \ {x})]
  <2>1. \A list, S : Sortable!OnlyIn(list, S) = OnlyIn(list, S)
      BY DEF Sortable!OnlyIn, OnlyIn
  <2>2. \A l \in List :
           Sortable!OnlyIn(n[l], Sortable!Range(n[l]) \ {x}) = OnlyIn(n[l], ToSet(n[l]) \ {x})
      BY <2>1, RangeIs
  <2> QED BY <2>2 DEF Sortable!Without
<1>2. ASSUME NEW l \in List
      PROVE  /\ new[l] \in Seq(Entry) /\ Once(new[l]) /\ ToSet(new[l]) = ToSet(n[l]) \ {x}
             /\ \A a, b \in ToSet(n[l]) \ {x} : Comes(new[l], a, b) <=> Comes(n[l], a, b)
  <2>1. new[l] = OnlyIn(n[l], ToSet(n[l]) \ {x})
      BY <1>1
  <2>2. n[l] \in Seq(Entry) /\ Once(n[l])
      BY DEF Arranged
  <2>3. ToSet(n[l]) \cap (ToSet(n[l]) \ {x}) = ToSet(n[l]) \ {x}
      OBVIOUS
  <2> QED BY <2>1, <2>2, <2>3, OnlyInOrder
<1>3. new \in [List -> Seq(Entry)]
    BY <1>1, <1>2
<1>4. \A l, m \in List : \A y \in ToSet(new[l]) : y \in ToSet(new[m]) => l = m
    BY <1>2 DEF Arranged
<1>5. ASSUME NEW y PROVE y \in all \ {x} <=> \E l \in List : y \in ToSet(new[l])
  <2>1. y \in all <=> \E l \in List : y \in ToSet(n[l])
      BY DEF Arranged
  <2>2. \A l \in List : y \in ToSet(new[l]) <=> y \in ToSet(n[l]) /\ y # x
      BY <1>2
  <2> QED BY <2>1, <2>2
<1>6. Arranged(new, all \ {x})
    BY <1>2, <1>3, <1>4, <1>5 DEF Arranged
<1> QED BY <1>2, <1>6 DEF Taken

LEMMA OneMoreIn ==
    ASSUME NEW n, NEW all, Arranged(n, all), NEW x \in Entry, x \notin all, NEW k \in List,
           NEW t \in Seq(Entry), Once(t), ToSet(t) = ToSet(n[k]) \cup {x},
           \A a, b \in ToSet(n[k]) : Comes(t, a, b) <=> Comes(n[k], a, b),
           NEW new, new = [n EXCEPT ![k] = t]
    PROVE  Arranged(new, all \cup {x}) /\ PutInto(n, new, x, k)
<1>1. n \in [List -> Seq(Entry)] /\ \A l \in List : x \notin ToSet(n[l])
    BY DEF Arranged
<1>2. new \in [List -> Seq(Entry)] /\ new[k] = t /\ \A l \in List : l # k => new[l] = n[l]
    BY <1>1
<1>3. \A l \in List : /\ Once(new[l])
                      /\ ToSet(new[l]) = (ToSet(n[l]) \ {x}) \cup (IF l = k THEN {x} ELSE {})
                      /\ \A a, b \in ToSet(n[l]) \ {x} : Comes(new[l], a, b) <=> Comes(n[l], a, b)
  <2> SUFFICES ASSUME NEW l \in List
               PROVE  /\ Once(new[l])
                      /\ ToSet(new[l]) = (ToSet(n[l]) \ {x}) \cup (IF l = k THEN {x} ELSE {})
                      /\ \A a, b \in ToSet(n[l]) \ {x} : Comes(new[l], a, b) <=> Comes(n[l], a, b)
      OBVIOUS
  <2>1. CASE l = k
      BY <1>1, <1>2, <2>1
  <2>2. CASE l # k
    <3>1. new[l] = n[l] /\ Once(n[l])
        BY <1>2, <2>2 DEF Arranged
    <3> QED BY <1>1, <2>2, <3>1
  <2> QED BY <2>1, <2>2
<1>4. \A l, m \in List : \A y \in ToSet(new[l]) : y \in ToSet(new[m]) => l = m
  <2> SUFFICES ASSUME NEW l \in List, NEW m \in List, NEW y, y \in ToSet(new[l]), y \in ToSet(new[m])
               PROVE  l = m
      OBVIOUS
  <2>1. CASE y = x
      BY <1>1, <1>3, <2>1
  <2>2. CASE y # x
    <3>1. y \in ToSet(n[l]) /\ y \in ToSet(n[m])
        BY <1>3, <2>2
    <3> QED BY <3>1 DEF Arranged
  <2> QED BY <2>1, <2>2
<1>5. \A y : y \in all \cup {x} <=> \E l \in List : y \in ToSet(new[l])
  <2> SUFFICES ASSUME NEW y PROVE y \in all \cup {x} <=> \E l \in List : y \in ToSet(new[l])
      OBVIOUS
  <2>1. CASE y = x
      BY <1>3, <2>1
  <2>2. CASE y # x
    <3>1. \A l \in List : y \in ToSet(new[l]) <=> y \in ToSet(n[l])
        BY <1>3, <2>2
    <3>2. y \in all <=> \E l \in List : y \in ToSet(n[l])
        BY DEF Arranged
    <3> QED BY <2>2, <3>1, <3>2
  <2> QED BY <2>1, <2>2
<1>6. \A l \in List : Once(new[l])
    BY <1>3, Zenon
<1>7. PutInto(n, new, x, k)
    BY <1>3, Zenon DEF PutInto
<1> QED BY <1>2, <1>4, <1>5, <1>6, <1>7, Zenon DEF Arranged

LEMMA TakenAndPut ==
    ASSUME NEW n, NEW m, NEW new, NEW x, NEW k \in List, Taken(n, m, x), PutInto(m, new, x, k)
    PROVE  PutInto(n, new, x, k)
<1> SUFFICES ASSUME NEW l \in List
             PROVE  /\ ToSet(new[l]) = (ToSet(n[l]) \ {x}) \cup (IF l = k THEN {x} ELSE {})
                    /\ \A a, b \in ToSet(n[l]) \ {x} : Comes(new[l], a, b) <=> Comes(n[l], a, b)
    BY DEF PutInto
<1>1. /\ ToSet(m[l]) = ToSet(n[l]) \ {x}
      /\ \A a, b \in ToSet(n[l]) \ {x} : Comes(m[l], a, b) <=> Comes(n[l], a, b)
    BY DEF Taken
<1>2. /\ ToSet(new[l]) = (ToSet(m[l]) \ {x}) \cup (IF l = k THEN {x} ELSE {})
      /\ \A a, b \in ToSet(m[l]) \ {x} : Comes(new[l], a, b) <=> Comes(m[l], a, b)
    BY DEF PutInto
<1>3. ToSet(m[l]) \ {x} = ToSet(n[l]) \ {x}
    BY <1>1
<1> QED BY <1>1, <1>2, <1>3

(* An element comes to the place beside another, or to one of the ends.    *)
LEMMA ListOf ==
    ASSUME NEW n, NEW all, Arranged(n, all), NEW k \in List, NEW y \in ToSet(n[k])
    PROVE  Sortable!InList(n, y) = k /\ Sortable!IsIn(n, y)
<1>1. \A l \in List : y \in ToSet(n[l]) <=> l = k
    BY DEF Arranged
<1> QED BY <1>1, RangeIs DEF Sortable!InList, Sortable!IsIn

LEMMA PutBeside ==
    ASSUME NEW n, NEW all, Arranged(n, all), NEW x \in Entry, NEW k \in List,
           NEW y \in ToSet(n[k]), y # x,
           NEW new, new = Sortable!Before(n, x, y) \/ new = Sortable!After(n, x, y)
    PROVE  /\ Arranged(new, all \cup {x}) /\ PutInto(n, new, x, k)
           /\ new = Sortable!Before(n, x, y) => Comes(new[k], x, y)
<1>1. PICK m : m = Sortable!Without(n, x)
    OBVIOUS
<1>2. Arranged(m, all \ {x}) /\ Taken(n, m, x)
    BY <1>1, WithoutOne
<1>3. y \in ToSet(m[k]) /\ x \notin ToSet(m[k])
    BY <1>2 DEF Taken
<1>4. Sortable!InList(m, y) = k
    BY <1>2, <1>3, ListOf
<1>5. m \in [List -> Seq(Entry)] /\ m[k] \in Seq(Entry) /\ Once(m[k])
    BY <1>2 DEF Arranged
<1>6. PICK t : /\ new = [m EXCEPT ![k] = t]
               /\ \/ t = Sortable!Insert(m[k], Sortable!Position(m[k], y) - 1, x)
                  \/ t = Sortable!Insert(m[k], Sortable!Position(m[k], y), x)
               /\ new = Sortable!Before(n, x, y) =>
                     t = Sortable!Insert(m[k], Sortable!Position(m[k], y) - 1, x)
  <2>1. Sortable!Before(n, x, y)
          = [m EXCEPT ![k] = Sortable!Insert(m[k], Sortable!Position(m[k], y) - 1, x)]
      BY <1>1, <1>4, Zenon DEF Sortable!Before
  <2>2. Sortable!After(n, x, y)
          = [m EXCEPT ![k] = Sortable!Insert(m[k], Sortable!Position(m[k], y), x)]
      BY <1>1, <1>4, Zenon DEF Sortable!After
  <2>3. CASE new = Sortable!Before(n, x, y)
      BY <2>1, <2>3, Zenon
  <2>4. CASE new # Sortable!Before(n, x, y)
      BY <2>2, <2>4, Zenon
  <2> QED BY <2>3, <2>4, Zenon
<1>7. /\ t \in Seq(Entry) /\ Once(t) /\ ToSet(t) = ToSet(m[k]) \cup {x}
      /\ \A a, b \in ToSet(m[k]) : Comes(t, a, b) <=> Comes(m[k], a, b)
  <2>1. PICK s : s = m[k]
      OBVIOUS
  <2>2. s \in Seq(Entry) /\ Once(s) /\ y \in ToSet(s) /\ x \notin ToSet(s)
      BY <1>3, <1>5, <2>1
  <2>3. PutBy(t, s, y, x)
      BY <1>6, <2>1, Zenon DEF PutBy
  <2>4. /\ t \in Seq(Entry) /\ Once(t) /\ ToSet(t) = ToSet(s) \cup {x}
        /\ \A a, b \in ToSet(s) : Comes(t, a, b) <=> Comes(s, a, b)
      BY <2>2, <2>3, InsertBeside
  <2> QED BY <2>1, <2>4
<1>8. Arranged(new, (all \ {x}) \cup {x}) /\ PutInto(m, new, x, k)
  <2>1. x \notin all \ {x} /\ new = [m EXCEPT ![k] = t]
      BY <1>6
  <2> QED BY <1>2, <1>7, <2>1, OneMoreIn, ZenonT(30)
<1>9. new = Sortable!Before(n, x, y) => Comes(new[k], x, y)
  <2> SUFFICES ASSUME new = Sortable!Before(n, x, y) PROVE Comes(new[k], x, y)
      OBVIOUS
  <2>1. t = Sortable!Insert(m[k], Sortable!Position(m[k], y) - 1, x) /\ new[k] = t
      BY <1>5, <1>6
  <2> QED BY <1>3, <1>5, <2>1, InsertBefore
<1>10. (all \ {x}) \cup {x} = all \cup {x}
    OBVIOUS
<1> QED BY <1>2, <1>8, <1>9, <1>10, TakenAndPut

LEMMA PutAtEnd ==
    ASSUME NEW n, NEW all, Arranged(n, all), NEW x \in Entry, NEW k \in List,
           NEW new, \/ new = [Sortable!Without(n, x) EXCEPT ![k] = Append(@, x)]
                    \/ new = [Sortable!Without(n, x) EXCEPT ![k] = <<x>> \o @]
    PROVE  Arranged(new, all \cup {x}) /\ PutInto(n, new, x, k)
<1>1. PICK m : m = Sortable!Without(n, x)
    OBVIOUS
<1>2. Arranged(m, all \ {x}) /\ Taken(n, m, x)
    BY <1>1, WithoutOne
<1>3. x \notin ToSet(m[k])
    BY <1>2 DEF Taken
<1>4. m \in [List -> Seq(Entry)] /\ m[k] \in Seq(Entry) /\ Once(m[k])
    BY <1>2 DEF Arranged
<1>5. PICK t : new = [m EXCEPT ![k] = t] /\ (t = Append(m[k], x) \/ t = <<x>> \o m[k])
    BY <1>1
<1>6. /\ t \in Seq(Entry) /\ Once(t) /\ ToSet(t) = ToSet(m[k]) \cup {x}
      /\ \A a, b \in ToSet(m[k]) : Comes(t, a, b) <=> Comes(m[k], a, b)
    BY <1>3, <1>4, <1>5, Appended, Zenon
<1>7. Arranged(new, (all \ {x}) \cup {x}) /\ PutInto(m, new, x, k)
  <2>1. x \notin all \ {x} /\ new = [m EXCEPT ![k] = t]
      BY <1>5
  <2> QED BY <1>2, <1>6, <2>1, OneMoreIn, ZenonT(30)
<1>8. (all \ {x}) \cup {x} = all \cup {x}
    OBVIOUS
<1> QED BY <1>2, <1>7, <1>8, TakenAndPut

(* The items do not change when a placeholder does.                        *)
LEMMA SameItemsOf ==
    ASSUME NEW n, NEW all, Arranged(n, all), NEW new, NEW then, Arranged(new, then), NEW l \in List,
           ToSet(new[l]) \cap ListItem = ToSet(n[l]) \cap ListItem,
           \A a, b \in ToSet(n[l]) \cap ListItem : Comes(new[l], a, b) <=> Comes(n[l], a, b)
    PROVE  Sortable!ItemsOf(new[l]) = Sortable!ItemsOf(n[l])
<1>1. PICK s : s = Sortable!ItemsOf(n[l])
    OBVIOUS
<1>2. PICK t : t = Sortable!ItemsOf(new[l])
    OBVIOUS
<1>3. /\ s \in Seq(Entry) /\ Once(s) /\ ToSet(s) = ToSet(n[l]) \cap ListItem
      /\ \A a, b \in ListItem : Comes(s, a, b) <=> Comes(n[l], a, b)
    BY <1>1, ItemsOfIs
<1>4. /\ t \in Seq(Entry) /\ Once(t) /\ ToSet(t) = ToSet(new[l]) \cap ListItem
      /\ \A a, b \in ListItem : Comes(t, a, b) <=> Comes(new[l], a, b)
    BY <1>2, ItemsOfIs
<1>5. ToSet(s) = ToSet(t) /\ \A a, b \in ToSet(s) : Comes(s, a, b) <=> Comes(t, a, b)
    BY <1>3, <1>4
<1> QED BY <1>1, <1>2, <1>3, <1>4, <1>5, SameOrder

LEMMA SameItems ==
    ASSUME NEW n, NEW all, Arranged(n, all), NEW new, NEW then, Arranged(new, then),
           NEW x, x \notin ListItem, NEW k, PutInto(n, new, x, k) \/ Taken(n, new, x)
    PROVE  \A l \in List : Sortable!ItemsOf(new[l]) = Sortable!ItemsOf(n[l])
<1> SUFFICES ASSUME NEW l \in List
             PROVE  Sortable!ItemsOf(new[l]) = Sortable!ItemsOf(n[l])
    OBVIOUS
<1>1. /\ ToSet(new[l]) \cap ListItem = ToSet(n[l]) \cap ListItem
      /\ \A a, b \in ToSet(n[l]) \cap ListItem : Comes(new[l], a, b) <=> Comes(n[l], a, b)
  <2>1. CASE PutInto(n, new, x, k)
      BY <2>1 DEF PutInto
  <2>2. CASE Taken(n, new, x)
      BY <2>2 DEF Taken
  <2> QED BY <2>1, <2>2
<1> QED BY <1>1, SameItemsOf

(* What stands before an element, if anything does.                        *)
Follows(s, x, p) ==
    IF p = NoElement THEN \A a \in ToSet(s) : ~Comes(s, a, x)
    ELSE /\ p \in ToSet(s) /\ p # x
         /\ \A a \in ToSet(s) : Comes(s, a, x) <=> a = p \/ Comes(s, a, p)

LEMMA PrevFollows ==
    ASSUME NEW n, NEW all, Arranged(n, all), NEW l \in List, NEW x \in ToSet(n[l]),
           NEW p, p = Sortable!Prev(n, l, x)
    PROVE  Follows(n[l], x, p) /\ p # x /\ p \in ToSet(n[l]) \cup {NoElement}
<1>1. PICK s : s = n[l] /\ s \in Seq(Entry) /\ Once(s) /\ x \in ToSet(s)
    BY DEF Arranged
<1>2. PICK i : i = Sortable!Position(s, x) /\ i \in 1 .. Len(s) /\ s[i] = x
    BY <1>1, PositionIs
<1>3. p = IF i = 1 THEN NoElement ELSE s[i - 1]
    BY <1>1, <1>2, Zenon DEF Sortable!Prev
<1>4. \A j, k \in 1 .. Len(s) : Comes(s, s[j], s[k]) <=> j < k
    BY <1>1, OrderIs
<1>5. PICK m \in Nat : m = Len(s) /\ DOMAIN s = 1 .. m
    BY <1>1
<1>6. NoElement \notin Entry /\ ToSet(s) \subseteq Entry
  <2>1. \A k \in 1 .. m : s[k] \in Entry
      BY <1>1, <1>5
  <2> QED BY <1>5, <2>1, SortableAssumption DEF ToSet, Entry
<1>7. x \in Entry /\ x # NoElement
    BY <1>1, <1>6
<1>8. CASE i = 1
  <2>1. ASSUME NEW a \in ToSet(s) PROVE ~Comes(s, a, x)
    <3>1. PICK j \in 1 .. m : a = s[j]
        BY <1>5 DEF ToSet
    <3>2. ~(j < i)
        BY <1>8
    <3> QED BY <1>2, <1>4, <1>5, <3>1, <3>2
  <2> QED BY <1>1, <1>3, <1>7, <1>8, <2>1 DEF Follows
<1>9. CASE i # 1
  <2>1. i - 1 \in 1 .. m /\ i \in 1 .. m /\ i - 1 # i
      BY <1>2, <1>5, <1>9
  <2>2. p = s[i - 1]
      BY <1>3, <1>9
  <2>3. p \in ToSet(s) /\ p # x
      BY <1>1, <1>2, <1>5, <2>1, <2>2 DEF ToSet, Once
  <2>4. ASSUME NEW a \in ToSet(s) PROVE Comes(s, a, x) <=> a = p \/ Comes(s, a, p)
    <3>1. PICK j \in 1 .. m : a = s[j]
        BY <1>5 DEF ToSet
    <3>2. (Comes(s, a, x) <=> j < i) /\ (Comes(s, a, p) <=> j < i - 1)
        BY <1>2, <1>4, <1>5, <2>1, <2>2, <3>1
    <3>3. a = p <=> j = i - 1
        BY <1>1, <1>5, <2>1, <2>2, <3>1 DEF Once
    <3>4. j < i <=> j = i - 1 \/ j < i - 1
        BY <2>1
    <3> QED BY <3>2, <3>3, <3>4
  <2>5. p # NoElement
      BY <1>6, <2>3
  <2> QED BY <1>1, <2>3, <2>4, <2>5 DEF Follows
<1> QED BY <1>8, <1>9

(* An order but for one element, and what that comes after.                *)
LEMMA SamePrev ==
    ASSUME NEW s \in Seq(Entry), NEW t \in Seq(Entry), Once(s), Once(t), ToSet(s) = ToSet(t),
           NEW x \in ToSet(s), \A a, b \in ToSet(s) \ {x} : Comes(s, a, b) <=> Comes(t, a, b),
           NEW p, Follows(s, x, p), Follows(t, x, p)
    PROVE  s = t
<1>1. /\ \A a, b : Comes(s, a, b) => a \in ToSet(s) /\ b \in ToSet(s) /\ a # b /\ ~Comes(s, b, a)
      /\ \A a, b \in ToSet(s) : a = b \/ Comes(s, a, b) \/ Comes(s, b, a)
    BY OrderIs
<1>2. /\ \A a, b : Comes(t, a, b) => a \in ToSet(s) /\ b \in ToSet(s) /\ a # b /\ ~Comes(t, b, a)
      /\ \A a, b \in ToSet(s) : a = b \/ Comes(t, a, b) \/ Comes(t, b, a)
    BY OrderIs
<1>3. ASSUME NEW a \in ToSet(s) PROVE Comes(s, a, x) <=> Comes(t, a, x)
  <2>1. CASE a = x
      BY <1>1, <1>2, <2>1
  <2>2. CASE a # x /\ p = NoElement
      BY <2>2 DEF Follows
  <2>3. CASE a # x /\ p # NoElement
    <3>1. p \in ToSet(s) /\ p # x
        BY <2>3 DEF Follows
    <3>2. Comes(s, a, p) <=> Comes(t, a, p)
        BY <2>3, <3>1
    <3>3. Comes(s, a, x) <=> a = p \/ Comes(s, a, p)
        BY <2>3 DEF Follows
    <3>4. Comes(t, a, x) <=> a = p \/ Comes(t, a, p)
        BY <2>3 DEF Follows
    <3> QED BY <3>2, <3>3, <3>4
  <2> QED BY <2>1, <2>2, <2>3
<1>4. ASSUME NEW a \in ToSet(s) PROVE Comes(s, x, a) <=> Comes(t, x, a)
    BY <1>1, <1>2, <1>3
<1>5. \A a, b \in ToSet(s) : Comes(s, a, b) <=> Comes(t, a, b)
    BY <1>3, <1>4
<1> QED BY <1>5, SameOrder

LEMMA FollowsInItems ==
    ASSUME NEW n, NEW all, Arranged(n, all), NEW l \in List, NEW x \in ListItem,
           NEW p \in ListItem \cup {NoElement}, Follows(n[l], x, p)
    PROVE  Follows(Sortable!ItemsOf(n[l]), x, p)
<1>1. PICK u : u = Sortable!ItemsOf(n[l])
    OBVIOUS
<1>2. /\ ToSet(u) = ToSet(n[l]) \cap ListItem
      /\ \A a, b \in ListItem : Comes(u, a, b) <=> Comes(n[l], a, b)
    BY <1>1, ItemsOfIs
<1>3. CASE p = NoElement
  <2>1. \A a \in ToSet(u) : ~Comes(u, a, x)
      BY <1>2, <1>3 DEF Follows
  <2> QED BY <1>1, <1>3, <2>1 DEF Follows
<1>4. CASE p # NoElement
  <2>1. p \in ListItem /\ p \in ToSet(u) /\ p # x
      BY <1>2, <1>4 DEF Follows
  <2>2. \A a \in ToSet(u) : Comes(u, a, x) <=> a = p \/ Comes(u, a, p)
      BY <1>2, <1>4, <2>1 DEF Follows
  <2> QED BY <1>1, <1>4, <2>1, <2>2 DEF Follows
<1> QED BY <1>3, <1>4

-----------------------------------------------------------------------------
Active == {l \in List : phase[l] # "idle"}

ItemDrag ==
    [item : ListItem \cup {NoElement}, prev : Entry \cup {NoElement},
     items : [List -> SUBSET Entry], currentContainer : List]

(* An item that is dragged stays in its list, and its placeholder is in    *)
(* the list that the drag has come to.                                     *)
InHand(l) ==
    /\ drag[l].item \in ListItem /\ drag[l].item \in ToSet(nodes[l])
    /\ l \in ToSet(nodes[drag[l].currentContainer])
    /\ \A m \in List : l \notin drag[l].items[m]

Reach == UNION {Sortable!Containers(l) : l \in Active}

SortableTypeOK ==
    /\ phase \in [List -> {"idle", "dragging", "reverting"}] /\ drag \in [List -> ItemDrag]
    /\ crossed \in BOOLEAN

(* If no drags crossed, what stands before the item in what the page was   *)
(* told is what stood before it when the drag began.                       *)
SortableInv ==
    /\ SortableTypeOK
    /\ Arranged(nodes, ListItem \cup Active)
    /\ \A l \in List : drag[l].item # NoElement => drag[l].prev # drag[l].item
    /\ \A l \in Active : InHand(l)
    /\ \A l, m \in List : phase[l] = "dragging" /\ phase[m] = "dragging" => l = m
    /\ over \subseteq Reach
    /\ \A l \in List : ToSet(told[l]) = ToSet(nodes[l]) \cap ListItem
    /\ ~crossed => /\ \A l, m \in Active : l = m
                   /\ \A l \in List : told[l] = Sortable!ItemsOf(nodes[l])
                   /\ \A l \in Active : Follows(told[l], drag[l].item, drag[l].prev)

-----------------------------------------------------------------------------
(* Only the placeholder of l has moved.                                    *)
Carried(n, new, l) ==
    /\ \A m \in List : Sortable!ItemsOf(new[m]) = Sortable!ItemsOf(n[m])
    /\ \A m \in List : \A y : y # l => (y \in ToSet(new[m]) <=> y \in ToSet(n[m]))

LEMMA EntriesAre ==
    /\ \A l \in List : l \in Entry /\ l \notin ListItem /\ l # NoElement
    /\ \A x \in ListItem : x \in Entry /\ x \notin List /\ x # NoElement
    /\ NoElement \notin Entry
BY SortableAssumption DEF Entry

LEMMA PlaceholderIsCarried ==
    ASSUME NEW n, NEW all, Arranged(n, all), NEW new, NEW then, Arranged(new, then),
           NEW l \in List, NEW k, PutInto(n, new, l, k)
    PROVE  Carried(n, new, l)
<1>1. l \notin ListItem
    BY EntriesAre
<1>2. \A m \in List : Sortable!ItemsOf(new[m]) = Sortable!ItemsOf(n[m])
    BY <1>1, SameItems
<1>3. \A m \in List : \A y : y # l => (y \in ToSet(new[m]) <=> y \in ToSet(n[m]))
    BY DEF PutInto
<1> QED BY <1>2, <1>3 DEF Carried

LEMMA CarriedOn ==
    ASSUME NEW n, NEW m, NEW new, NEW l, Carried(n, m, l), Carried(m, new, l)
    PROVE  Carried(n, new, l)
BY DEF Carried

LEMMA CarriedBeside ==
    ASSUME NEW n, NEW all, Arranged(n, all), NEW l \in List, l \in all, NEW k \in List,
           NEW y \in ToSet(n[k]), y # l,
           NEW new, new = Sortable!Before(n, l, y) \/ new = Sortable!After(n, l, y)
    PROVE  Arranged(new, all) /\ Carried(n, new, l) /\ l \in ToSet(new[k])
<1>1. l \in Entry
    BY EntriesAre
<1>2. Arranged(new, all \cup {l}) /\ PutInto(n, new, l, k)
    BY <1>1, PutBeside
<1>3. all \cup {l} = all
    OBVIOUS
<1>4. l \in ToSet(new[k])
    BY <1>2 DEF PutInto
<1> QED BY <1>2, <1>3, <1>4, PlaceholderIsCarried

LEMMA CarriedToEnd ==
    ASSUME NEW n, NEW all, Arranged(n, all), NEW l \in List, l \in all, NEW k \in List,
           NEW new, new = [Sortable!Without(n, l) EXCEPT ![k] = Append(@, l)]
    PROVE  Arranged(new, all) /\ Carried(n, new, l) /\ l \in ToSet(new[k])
<1>1. l \in Entry
    BY EntriesAre
<1>2. Arranged(new, all \cup {l}) /\ PutInto(n, new, l, k)
    BY <1>1, PutAtEnd
<1>3. all \cup {l} = all
    OBVIOUS
<1>4. l \in ToSet(new[k])
    BY <1>2 DEF PutInto
<1> QED BY <1>2, <1>3, <1>4, PlaceholderIsCarried

(* _contactContainers.                                                     *)
LEMMA ContactKeeps ==
    ASSUME NEW n, NEW all, Arranged(n, all), NEW l \in List, l \in all, NEW d \in ItemDrag,
           l \in ToSet(n[d.currentContainer]), \A m \in List : l \notin d.items[m],
           NEW to \in Sortable!Containers(l) \cup {NoElement},
           Sortable!ContactContainers(l, n, d, to)
    PROVE  /\ Arranged(nodes', all) /\ Carried(n, nodes', l)
           /\ \E c \in List : /\ drag' = [drag EXCEPT ![l] = [d EXCEPT !.currentContainer = c]]
                              /\ l \in ToSet(nodes'[c])
           /\ over' \subseteq over \cup Sortable!Containers(l)
<1> DEFINE near == Sortable!Range(n[to]) \cap (UNION Sortable!Range(d.items) \ {d.item})
           Entered == /\ Sortable!Containers(l) # {l}
                      /\ d.currentContainer # to
                      /\ near # {} \/ l \in DropOnEmpty
<1>1. CASE to \in List /\ Entered
  <2>1. /\ nodes' \in IF near = {} THEN {[Sortable!Without(n, l) EXCEPT ![to] = Append(@, l)]}
                      ELSE {Sortable!Before(n, l, y) : y \in near} \cup {Sortable!After(n, l, y) : y \in near}
        /\ drag' = [drag EXCEPT ![l] = [d EXCEPT !.currentContainer = to]]
        /\ over' = (over \ Sortable!Containers(l)) \cup {to}
      BY <1>1 DEF Sortable!ContactContainers
  <2>2. near \subseteq ToSet(n[to]) /\ l \notin near
    <3>1. \A s \in Sortable!Range(d.items) : l \notin s
        BY DEF Sortable!Range, ItemDrag
    <3> QED BY <3>1, RangeIs
  <2>3. Arranged(nodes', all) /\ Carried(n, nodes', l) /\ l \in ToSet(nodes'[to])
    <3>1. CASE near = {}
        BY <1>1, <2>1, <3>1, CarriedToEnd
    <3>2. CASE near # {}
      <4>1. PICK y \in near : nodes' = Sortable!Before(n, l, y) \/ nodes' = Sortable!After(n, l, y)
          BY <2>1, <3>2
      <4>2. y \in ToSet(n[to]) /\ y # l
          BY <2>2
      <4> QED BY <1>1, <4>1, <4>2, CarriedBeside
    <3> QED BY <3>1, <3>2
  <2>4. to \in Sortable!Containers(l)
      BY <1>1, EntriesAre, SortableAssumption
  <2> QED BY <1>1, <2>1, <2>3, <2>4
<1>2. CASE ~(to \in List /\ Entered)
  <2>1. /\ nodes' = n
        /\ drag' = [drag EXCEPT ![l] = d]
        /\ over' = (over \ (Sortable!Containers(l) \ {to}))
                     \cup (IF Sortable!Containers(l) = {l} THEN {l} \cap {to} ELSE {})
      BY <1>2 DEF Sortable!ContactContainers
  <2>2. Carried(n, nodes', l)
      BY <2>1 DEF Carried
  <2>3. d.currentContainer \in List /\ [d EXCEPT !.currentContainer = d.currentContainer] = d
      BY DEF ItemDrag
  <2>4. over' \subseteq over \cup Sortable!Containers(l)
      BY <2>1
  <2> QED BY <2>1, <2>2, <2>3, <2>4
<1> QED BY <1>1, <1>2

(* What a drag leaves as it is.                                            *)
LEMMA HeldIs ==
    ASSUME SortableInv
    PROVE  /\ \A l \in List : l \in ListItem \cup Active <=> l \in Active
           /\ \A l \in List : l \in Active <=> phase[l] # "idle"
           /\ \A l \in List : drag[l] \in ItemDrag /\ drag[l].currentContainer \in List
BY EntriesAre DEF SortableInv, SortableTypeOK, Active, ItemDrag

LEMMA ItemsAreThere ==
    ASSUME NEW n, NEW all, Arranged(n, all), NEW l \in List
    PROVE  ToSet(Sortable!ItemsOf(n[l])) = ToSet(n[l]) \cap ListItem
BY ItemsOfIs

(* _mouseDrag.                                                             *)
LEMMA MouseDragKeeps ==
    ASSUME SortableInv, NEW l \in List, NEW to \in Sortable!Containers(l) \cup {NoElement},
           Sortable!MouseDrag(l, to)
    PROVE  SortableInv'
<1> DEFINE all == ListItem \cup Active
           d == drag[l]
           c == d.currentContainer
<1>1. Arranged(nodes, all) /\ l \in Active /\ l \in all /\ d \in ItemDrag /\ c \in List /\ InHand(l)
    BY HeldIs DEF Sortable!MouseDrag, SortableInv
<1>2. PICK n : n \in Sortable!Rearranged(l) /\ Sortable!ContactContainers(l, n, d, to)
    BY DEF Sortable!MouseDrag
<1>3. phase' = phase /\ told' = told /\ crossed' = crossed
    BY DEF Sortable!MouseDrag
<1>4. l \in ToSet(nodes[c]) /\ \A m \in List : l \notin d.items[m]
    BY <1>1 DEF InHand
<1>5. Arranged(n, all) /\ Carried(nodes, n, l) /\ l \in ToSet(n[c])
  <2> DEFINE near == (Sortable!Range(nodes[c]) \cap d.items[c]) \ {d.item}
  <2>1. n \in {nodes} \cup {Sortable!Before(nodes, l, y) : y \in near}
                      \cup {Sortable!After(nodes, l, y) : y \in near}
      BY <1>2 DEF Sortable!Rearranged
  <2>2. near \subseteq ToSet(nodes[c]) /\ l \notin near
      BY <1>1, <1>4, RangeIs
  <2>3. CASE n = nodes
      BY <1>1, <1>4, <2>3 DEF Carried
  <2>4. CASE n # nodes
    <3>1. PICK y \in near : n = Sortable!Before(nodes, l, y) \/ n = Sortable!After(nodes, l, y)
        BY <2>1, <2>4
    <3>2. y \in ToSet(nodes[c]) /\ y # l
        BY <2>2
    <3> QED BY <1>1, <3>1, <3>2, CarriedBeside
  <2> QED BY <2>3, <2>4
<1>6. /\ Arranged(nodes', all) /\ Carried(n, nodes', l)
      /\ \E b \in List : /\ drag' = [drag EXCEPT ![l] = [d EXCEPT !.currentContainer = b]]
                         /\ l \in ToSet(nodes'[b])
      /\ over' \subseteq over \cup Sortable!Containers(l)
    BY <1>1, <1>2, <1>4, <1>5, ContactKeeps
<1>7. Carried(nodes, nodes', l)
    BY <1>5, <1>6, CarriedOn
<1>8. PICK b \in List : /\ drag' = [drag EXCEPT ![l] = [d EXCEPT !.currentContainer = b]]
                        /\ l \in ToSet(nodes'[b])
    BY <1>6
<1>9. /\ drag' \in [List -> ItemDrag]
      /\ \A m \in List : /\ drag'[m].item = drag[m].item /\ drag'[m].prev = drag[m].prev
                         /\ drag'[m].items = drag[m].items
                         /\ drag'[m].currentContainer = IF m = l THEN b ELSE drag[m].currentContainer
  <2>1. drag \in [List -> ItemDrag]
      BY DEF SortableInv, SortableTypeOK
  <2> QED BY <1>1, <1>8, <2>1 DEF ItemDrag
<1>10. Active' = Active /\ Reach' = Reach
    BY <1>3 DEF Active, Reach
<1>11. over' \subseteq Reach
    BY <1>1, <1>6 DEF SortableInv, Reach
<1>12. \A m \in Active : InHand(m)'
  <2> SUFFICES ASSUME NEW m \in Active PROVE InHand(m)'
      OBVIOUS
  <2>1. m \in List /\ InHand(m)
      BY DEF SortableInv, Active
  <2>2. drag[m].item # l
      BY <2>1, EntriesAre DEF InHand
  <2>3. drag[m].item \in ToSet(nodes'[m])
      BY <1>7, <2>1, <2>2 DEF InHand, Carried
  <2>4. m \in ToSet(nodes'[drag'[m].currentContainer])
    <3>1. CASE m = l
        BY <1>8, <1>9, <3>1
    <3>2. CASE m # l
      <4>1. drag[m].currentContainer \in List
          BY <2>1, HeldIs
      <4> QED BY <1>7, <1>9, <2>1, <3>2, <4>1 DEF InHand, Carried
    <3> QED BY <3>1, <3>2
  <2> QED BY <1>9, <2>1, <2>3, <2>4 DEF InHand
<1>13. \A m \in List : Sortable!ItemsOf(nodes'[m]) = Sortable!ItemsOf(nodes[m])
    BY <1>7 DEF Carried
<1>14. \A m \in List : ToSet(told'[m]) = ToSet(nodes'[m]) \cap ListItem
  <2> SUFFICES ASSUME NEW m \in List PROVE ToSet(told'[m]) = ToSet(nodes'[m]) \cap ListItem
      OBVIOUS
  <2>1. ToSet(Sortable!ItemsOf(nodes[m])) = ToSet(nodes[m]) \cap ListItem
      BY <1>1, ItemsAreThere
  <2>2. ToSet(Sortable!ItemsOf(nodes'[m])) = ToSet(nodes'[m]) \cap ListItem
      BY <1>6, ItemsAreThere
  <2>3. ToSet(told[m]) = ToSet(nodes[m]) \cap ListItem
      BY DEF SortableInv
  <2> QED BY <1>3, <1>13, <2>1, <2>2, <2>3
<1>15. ~crossed' => /\ \A k, m \in Active : k = m
                    /\ \A m \in List : told'[m] = Sortable!ItemsOf(nodes'[m])
                    /\ \A m \in Active : Follows(told'[m], drag'[m].item, drag'[m].prev)
  <2>1. \A m \in Active : m \in List
      BY DEF Active
  <2> QED BY <1>3, <1>9, <1>13, <2>1 DEF SortableInv
<1>16. SortableTypeOK'
    BY <1>3, <1>9 DEF SortableInv, SortableTypeOK
<1>17. /\ \A m \in List : drag'[m].item # NoElement => drag'[m].prev # drag'[m].item
       /\ \A k, m \in List : phase'[k] = "dragging" /\ phase'[m] = "dragging" => k = m
    BY <1>3, <1>9 DEF SortableInv
<1>18. \A m \in List : Sortable!ItemsOf(nodes[m])' = Sortable!ItemsOf(nodes'[m])
    BY DEF Sortable!ItemsOf
<1>19. Arranged(nodes, ListItem \cup Active)'
    BY <1>6, <1>10 DEF Arranged
<1> QED BY <1>10, <1>11, <1>12, <1>14, <1>15, <1>16, <1>17, <1>18, <1>19 DEF SortableInv

(* _mouseStart.                                                            *)
LEMMA SortStartKeeps ==
    ASSUME SortableInv, NEW l \in List, NEW to \in Sortable!Containers(l) \cup {NoElement},
           NEW x \in ListItem, Sortable!Start(l, x, to)
    PROVE  SortableInv'
<1> DEFINE all == ListItem \cup Active
           then == all \cup {l}
           p == Sortable!Prev(nodes, l, x)
           n == Sortable!After(nodes, l, x)
           d == [item |-> x, prev |-> p, currentContainer |-> l,
                 items |-> [m \in List |-> IF m \in Sortable!Containers(l) THEN Sortable!Range(nodes[m]) ELSE {}]]
<1>1. /\ phase[l] = "idle" /\ "dragging" \notin Sortable!Range(phase)
      /\ crossed' = (crossed \/ "reverting" \in Sortable!Range(phase))
      /\ x \in ToSet(nodes[l])
      /\ phase' = [phase EXCEPT ![l] = "dragging"]
      /\ Sortable!ContactContainers(l, n, d, to)
      /\ told' = told
    BY RangeIs DEF Sortable!Start
<1>2. /\ SortableTypeOK /\ Arranged(nodes, all) /\ l \notin all
    BY <1>1, EntriesAre DEF SortableInv, Active
<1>3. Active' = Active \cup {l}
    BY <1>1, <1>2 DEF Active, SortableTypeOK
<1>4. Follows(nodes[l], x, p) /\ p # x /\ p \in ToSet(nodes[l]) \cup {NoElement}
    BY <1>1, <1>2, PrevFollows
<1>5. \A m \in List : ToSet(nodes[m]) \subseteq Entry /\ l \notin ToSet(nodes[m])
  <2>1. \A m \in List : ToSet(nodes[m]) \subseteq all
      BY <1>2 DEF Arranged
  <2>2. all \subseteq Entry
      BY DEF Entry, Active
  <2> QED BY <1>2, <2>1, <2>2
<1>6. d \in ItemDrag /\ d.item = x /\ d.prev = p /\ d.currentContainer = l
      /\ \A m \in List : l \notin d.items[m]
  <2>1. p \in Entry \cup {NoElement}
      BY <1>4, <1>5
  <2>2. \A m \in List : Sortable!Range(nodes[m]) \subseteq Entry /\ l \notin Sortable!Range(nodes[m])
      BY <1>5, RangeIs
  <2> HIDE DEF p
  <2> QED BY <2>1, <2>2 DEF ItemDrag
<1> HIDE DEF d, p
<1>7. Arranged(n, then) /\ Carried(nodes, n, l) /\ l \in ToSet(n[l])
  <2>1. l \in Entry /\ x # l
      BY EntriesAre
  <2>2. Arranged(n, then) /\ PutInto(nodes, n, l, l)
      BY <1>1, <1>2, <2>1, PutBeside
  <2> QED BY <1>2, <2>2, PlaceholderIsCarried DEF PutInto
<1> HIDE DEF n
<1>8. /\ Arranged(nodes', then) /\ Carried(n, nodes', l)
      /\ \E b \in List : /\ drag' = [drag EXCEPT ![l] = [d EXCEPT !.currentContainer = b]]
                         /\ l \in ToSet(nodes'[b])
      /\ over' \subseteq over \cup Sortable!Containers(l)
    BY <1>1, <1>6, <1>7, ContactKeeps
<1>9. Carried(nodes, nodes', l)
    BY <1>7, <1>8, CarriedOn
<1>10. PICK b \in List : /\ drag' = [drag EXCEPT ![l] = [d EXCEPT !.currentContainer = b]]
                         /\ l \in ToSet(nodes'[b])
    BY <1>8
<1>11. /\ drag' \in [List -> ItemDrag]
       /\ \A m \in List : m # l => drag'[m] = drag[m]
       /\ drag'[l].item = x /\ drag'[l].prev = p /\ drag'[l].items = d.items
       /\ drag'[l].currentContainer = b
    BY <1>2, <1>6, <1>10 DEF SortableTypeOK, ItemDrag
<1>12. over' \subseteq Reach'
  <2>1. Reach' = Reach \cup Sortable!Containers(l)
      BY <1>3 DEF Reach
  <2> QED BY <1>8, <2>1 DEF SortableInv
<1>13. \A m \in Active' : InHand(m)'
  <2> SUFFICES ASSUME NEW m \in Active' PROVE InHand(m)'
      OBVIOUS
  <2>1. CASE m = l
    <3>1. x \in ToSet(nodes'[l])
        BY <1>1, <1>9, EntriesAre DEF Carried
    <3> QED BY <1>6, <1>10, <1>11, <2>1, <3>1 DEF InHand
  <2>2. CASE m # l
    <3>1. m \in List /\ InHand(m) /\ drag'[m] = drag[m] /\ drag[m].currentContainer \in List
        BY <1>3, <1>11, <2>2, HeldIs DEF SortableInv, Active
    <3>2. drag[m].item # l
        BY <3>1, EntriesAre DEF InHand
    <3>3. drag[m].item \in ToSet(nodes'[m]) /\ m \in ToSet(nodes'[drag[m].currentContainer])
        BY <1>9, <2>2, <3>1, <3>2 DEF InHand, Carried
    <3> QED BY <3>1, <3>3 DEF InHand
  <2> QED BY <2>1, <2>2
<1>14. \A m \in List : Sortable!ItemsOf(nodes'[m]) = Sortable!ItemsOf(nodes[m])
    BY <1>9 DEF Carried
<1>15. \A m \in List : ToSet(told'[m]) = ToSet(nodes'[m]) \cap ListItem
  <2> SUFFICES ASSUME NEW m \in List PROVE ToSet(told'[m]) = ToSet(nodes'[m]) \cap ListItem
      OBVIOUS
  <2>1. ToSet(Sortable!ItemsOf(nodes[m])) = ToSet(nodes[m]) \cap ListItem
      BY <1>2, ItemsAreThere
  <2>2. ToSet(Sortable!ItemsOf(nodes'[m])) = ToSet(nodes'[m]) \cap ListItem
      BY <1>8, ItemsAreThere
  <2>3. ToSet(told[m]) = ToSet(nodes[m]) \cap ListItem
      BY DEF SortableInv
  <2> QED BY <1>1, <1>14, <2>1, <2>2, <2>3
<1>16. ASSUME ~crossed'
       PROVE  /\ \A k, m \in Active' : k = m
              /\ \A m \in List : told'[m] = Sortable!ItemsOf(nodes'[m])
              /\ \A m \in Active' : Follows(told'[m], drag'[m].item, drag'[m].prev)
  <2>1. ~crossed /\ Active = {}
    <3>1. \A m \in List : phase[m] # "dragging" /\ phase[m] # "reverting"
        BY <1>1, <1>2, <1>16 DEF Sortable!Range, SortableTypeOK
    <3> QED BY <1>1, <1>2, <1>16, <3>1 DEF Active, SortableTypeOK
  <2>2. \A m \in List : told[m] = Sortable!ItemsOf(nodes[m])
      BY <2>1 DEF SortableInv
  <2>3. p \in ListItem \cup {NoElement}
    <3>1. ToSet(nodes[l]) \subseteq ListItem
        BY <1>2, <2>1 DEF Arranged
    <3> QED BY <1>4, <3>1
  <2>4. Follows(Sortable!ItemsOf(nodes[l]), x, p)
      BY <1>2, <1>4, <2>3, FollowsInItems
  <2> QED BY <1>1, <1>3, <1>11, <1>14, <2>1, <2>2, <2>4
<1>17. SortableTypeOK'
    BY <1>1, <1>2, <1>11 DEF SortableTypeOK
<1>18. \A m \in List : drag'[m].item # NoElement => drag'[m].prev # drag'[m].item
    BY <1>4, <1>11 DEF SortableInv
<1>19. \A k, m \in List : phase'[k] = "dragging" /\ phase'[m] = "dragging" => k = m
  <2>1. DOMAIN phase = List /\ \A m \in List : m # l => phase'[m] = phase[m]
      BY <1>1, <1>2 DEF SortableTypeOK
  <2>2. \A m \in List : phase[m] # "dragging"
      BY <1>1, <2>1 DEF Sortable!Range
  <2> QED BY <2>1, <2>2
<1>20. \A m \in List : Sortable!ItemsOf(nodes[m])' = Sortable!ItemsOf(nodes'[m])
    BY DEF Sortable!ItemsOf
<1>21. Arranged(nodes, ListItem \cup Active)'
  <2>1. then = ListItem \cup Active'
      BY <1>3
  <2> QED BY <1>8, <2>1 DEF Arranged
<1> QED BY <1>12, <1>13, <1>15, <1>16, <1>17, <1>18, <1>19, <1>20, <1>21 DEF SortableInv

-----------------------------------------------------------------------------
(* The item comes to its placeholder, which goes.                          *)
LEMMA ItemComes ==
    ASSUME SortableInv, NEW l \in List, l \in Active, NEW n, n = Sortable!Sorted(l),
           NEW new, new = Sortable!Without(n, l), NEW x, x = drag[l].item,
           NEW c, c = drag[l].currentContainer
    PROVE  /\ c \in List /\ x \in ListItem /\ x \in ToSet(nodes[l]) /\ x \in ToSet(n[c])
           /\ Arranged(n, ListItem \cup Active) /\ PutInto(nodes, n, x, c) /\ Comes(n[c], x, l)
           /\ Arranged(new, ListItem \cup (Active \ {l})) /\ Taken(n, new, l)
           /\ \A m \in List : Sortable!ItemsOf(new[m]) = Sortable!ItemsOf(n[m])
<1>1. Arranged(nodes, ListItem \cup Active) /\ InHand(l) /\ c \in List
    BY HeldIs DEF SortableInv
<1>2. x \in ListItem /\ x \in ToSet(nodes[l]) /\ l \in ToSet(nodes[c])
    BY <1>1 DEF InHand
<1>3. x \in Entry /\ l # x /\ l \notin ListItem
    BY <1>2, EntriesAre
<1>4. n = Sortable!Before(nodes, x, l)
    BY DEF Sortable!Sorted
<1>5. /\ Arranged(n, (ListItem \cup Active) \cup {x}) /\ PutInto(nodes, n, x, c)
      /\ Comes(n[c], x, l)
    BY <1>1, <1>2, <1>3, <1>4, PutBeside
<1>6. (ListItem \cup Active) \cup {x} = ListItem \cup Active
    BY <1>2
<1>7. Arranged(n, ListItem \cup Active)
    BY <1>5, <1>6
<1>8. Arranged(new, (ListItem \cup Active) \ {l}) /\ Taken(n, new, l)
    BY <1>7, WithoutOne
<1>9. (ListItem \cup Active) \ {l} = ListItem \cup (Active \ {l})
    BY <1>3
<1>10. \A m \in List : Sortable!ItemsOf(new[m]) = Sortable!ItemsOf(n[m])
    BY <1>3, <1>7, <1>8, SameItems
<1>11. x \in ToSet(n[c])
    BY <1>1, <1>5 DEF PutInto
<1> QED BY <1>1, <1>2, <1>5, <1>7, <1>8, <1>9, <1>10, <1>11

(* Another drag still has what it had.                                     *)
LEMMA OthersInHand ==
    ASSUME SortableInv, NEW l \in List, NEW x, x = drag[l].item, x \in ListItem,
           l \in Active => x \in ToSet(nodes[l]),
           NEW m \in Active, m # l, NEW new,
           \A k \in List : \A y : y # x /\ y # l => (y \in ToSet(new[k]) <=> y \in ToSet(nodes[k])),
           l \in Active
    PROVE  /\ m \in List /\ drag[m].item \in ListItem /\ drag[m].item \in ToSet(new[m])
           /\ m \in ToSet(new[drag[m].currentContainer])
           /\ \A k \in List : m \notin drag[m].items[k]
<1>1. m \in List /\ InHand(m) /\ drag[m].currentContainer \in List
    BY HeldIs DEF SortableInv, Active
<1>2. /\ drag[m].item \in ListItem /\ drag[m].item \in ToSet(nodes[m])
      /\ m \in ToSet(nodes[drag[m].currentContainer])
      /\ \A k \in List : m \notin drag[m].items[k]
    BY <1>1 DEF InHand
<1>3. drag[m].item # x
    BY <1>1, <1>2 DEF SortableInv, Arranged
<1>4. drag[m].item # l /\ m # x
    BY <1>1, <1>2, EntriesAre
<1> QED BY <1>1, <1>2, <1>3, <1>4

(* The list is told, if what stands before the item is another.            *)
LEMMA ToldOrTheSame ==
    ASSUME SortableInv, NEW l \in List, l \in Active, NEW n, n = Sortable!Sorted(l), ~crossed,
           ~Sortable!HasMoved(l, n)
    PROVE  Sortable!ItemsOf(n[l]) = told[l]
<1> DEFINE x == drag[l].item
           c == drag[l].currentContainer
           all == ListItem \cup Active
           p == Sortable!Prev(n, Sortable!InList(n, x), x)
           s == told[l]
           t == Sortable!ItemsOf(n[l])
<1>1. /\ c \in List /\ x \in ListItem /\ x \in ToSet(nodes[l]) /\ x \in ToSet(n[c])
      /\ Arranged(n, all) /\ PutInto(nodes, n, x, c) /\ Comes(n[c], x, l)
    BY ItemComes
<1>2. Sortable!InList(n, x) = c
    BY <1>1, ListOf
<1>3. Sortable!PrevAtRest(n, l, x) = drag[l].prev /\ c = l
    BY <1>2 DEF Sortable!HasMoved
<1>4. \A m \in List \ {l} : phase[m] = "idle"
    BY DEF SortableInv, Active
<1>5. p = drag[l].prev
    BY <1>3, <1>4 DEF Sortable!PrevAtRest
<1>6. p = Sortable!Prev(n, l, x)
    BY <1>2, <1>3
<1> HIDE DEF p, c
<1>7. Follows(n[l], x, p) /\ p # x /\ p \in ToSet(n[l]) \cup {NoElement}
    BY <1>1, <1>3, <1>6, PrevFollows
<1>8. p # l
  <2> SUFFICES ASSUME p = l PROVE FALSE
      OBVIOUS
  <2>1. l # NoElement
      BY EntriesAre
  <2>2. Comes(n[l], l, x)
      BY <1>7, <2>1 DEF Follows
  <2>3. Comes(n[l], x, l)
      BY <1>1, <1>3
  <2>4. n[l] \in Seq(Entry) /\ Once(n[l])
      BY <1>1 DEF Arranged
  <2> QED BY <2>2, <2>3, <2>4, OrderIs
<1>9. p \in ListItem \cup {NoElement}
  <2>1. Active \subseteq {l}
      BY DEF SortableInv
  <2>2. ToSet(n[l]) \subseteq ListItem \cup {l}
      BY <1>1, <2>1 DEF Arranged
  <2> QED BY <1>7, <1>8, <2>2
<1>10. Follows(t, x, p)
    BY <1>1, <1>7, <1>9, FollowsInItems
<1>11. s = Sortable!ItemsOf(nodes[l]) /\ Follows(s, x, p) /\ Arranged(nodes, all)
    BY <1>5 DEF SortableInv
<1>12. /\ s \in Seq(Entry) /\ Once(s) /\ ToSet(s) = ToSet(nodes[l]) \cap ListItem
       /\ \A a, b \in ListItem : Comes(s, a, b) <=> Comes(nodes[l], a, b)
    BY <1>11, ItemsOfIs
<1>13. /\ t \in Seq(Entry) /\ Once(t) /\ ToSet(t) = ToSet(n[l]) \cap ListItem
       /\ \A a, b \in ListItem : Comes(t, a, b) <=> Comes(n[l], a, b)
    BY <1>1, ItemsOfIs
<1>14. /\ ToSet(n[l]) = (ToSet(nodes[l]) \ {x}) \cup {x}
       /\ \A a, b \in ToSet(nodes[l]) \ {x} : Comes(n[l], a, b) <=> Comes(nodes[l], a, b)
    BY <1>1, <1>3 DEF PutInto
<1> HIDE DEF s, t, x
<1>15. ToSet(s) = ToSet(t) /\ x \in ToSet(s)
    BY <1>1, <1>12, <1>13, <1>14
<1>16. \A a, b \in ToSet(s) \ {x} : Comes(s, a, b) <=> Comes(t, a, b)
    BY <1>12, <1>13, <1>14
<1>17. s = t
    BY <1>10, <1>11, <1>12, <1>13, <1>15, <1>16, SamePrev
<1> QED BY <1>17 DEF s, t

(* A drag that is over.                                                    *)
LEMMA OverIs ==
    ASSUME SortableInv, NEW l \in List, drag' = Sortable!Over(l)
    PROVE  /\ drag' \in [List -> ItemDrag]
           /\ \A m \in List : m # l => drag'[m] = drag[m]
           /\ \A m \in List : drag'[m].item = drag[m].item /\ drag'[m].prev = drag[m].prev
<1>1. drag \in [List -> ItemDrag]
    BY DEF SortableInv, SortableTypeOK
<1>2. PICK none : none = [m \in List |-> {}]
    OBVIOUS
<1>3. drag' = [drag EXCEPT ![l].items = none, ![l].currentContainer = l]
    BY <1>2 DEF Sortable!Over
<1>4. drag[l] \in ItemDrag /\ none \in [List -> SUBSET Entry]
    BY <1>1, <1>2
<1>5. drag' = [drag EXCEPT ![l] = [item |-> drag[l].item, prev |-> drag[l].prev,
                                  items |-> none, currentContainer |-> l]]
    BY <1>1, <1>3, <1>4 DEF ItemDrag
<1> QED BY <1>1, <1>4, <1>5 DEF ItemDrag

LEMMA PhaseIsIdle ==
    ASSUME SortableInv, NEW l \in List, phase' = [phase EXCEPT ![l] = "idle"],
           over' \subseteq over \ Sortable!Containers(l)
    PROVE  /\ phase' \in [List -> {"idle", "dragging", "reverting"}]
           /\ Active' = Active \ {l} /\ over' \subseteq Reach'
           /\ \A k, m \in List : phase'[k] = "dragging" /\ phase'[m] = "dragging" => k = m
<1>1. phase \in [List -> {"idle", "dragging", "reverting"}]
    BY DEF SortableInv, SortableTypeOK
<1>2. Active' = Active \ {l}
    BY <1>1 DEF Active
<1>3. over' \subseteq Reach'
    BY <1>2 DEF SortableInv, Reach
<1>4. \A k, m \in List : phase'[k] = "dragging" /\ phase'[m] = "dragging" => k = m
    BY <1>1 DEF SortableInv
<1> QED BY <1>1, <1>2, <1>3, <1>4

(* _clear.                                                                 *)
LEMMA ClearKeeps ==
    ASSUME SortableInv, NEW l \in List, phase[l] # "idle", Sortable!Clear(l)
    PROVE  SortableInv'
<1> DEFINE x == drag[l].item
           c == drag[l].currentContainer
           all == ListItem \cup Active
<1>1. PICK n : n = Sortable!Sorted(l)
    OBVIOUS
<1>2. /\ nodes' = Sortable!Without(n, l)
      /\ told' = [m \in List |-> IF m \in Sortable!Updated(l) THEN Sortable!ItemsOf(n[m]) ELSE told[m]]
      /\ drag' = Sortable!Over(l)
      /\ over' = over \ Sortable!Containers(l)
      /\ phase' = [phase EXCEPT ![l] = "idle"]
      /\ crossed' = crossed
    BY <1>1 DEF Sortable!Clear
<1>3. l \in Active
    BY DEF Active
<1>4. /\ c \in List /\ x \in ListItem /\ x \in ToSet(nodes[l]) /\ x \in ToSet(n[c])
      /\ Arranged(n, all) /\ PutInto(nodes, n, x, c)
      /\ Arranged(nodes', ListItem \cup (Active \ {l})) /\ Taken(n, nodes', l)
      /\ \A m \in List : Sortable!ItemsOf(nodes'[m]) = Sortable!ItemsOf(n[m])
  <2>1. PICK new : new = Sortable!Without(n, l)
      OBVIOUS
  <2>2. new = nodes'
      BY <1>2, <2>1
  <2>3. /\ c \in List /\ x \in ListItem /\ x \in ToSet(nodes[l]) /\ x \in ToSet(n[c])
        /\ Arranged(n, all) /\ PutInto(nodes, n, x, c)
        /\ Arranged(new, ListItem \cup (Active \ {l})) /\ Taken(n, new, l)
        /\ \A m \in List : Sortable!ItemsOf(new[m]) = Sortable!ItemsOf(n[m])
    <3> HIDE DEF x, c, all
    <3>1. x = drag[l].item /\ c = drag[l].currentContainer /\ all = ListItem \cup Active
        BY DEF x, c, all
    <3>2. c \in List /\ x \in ListItem /\ x \in ToSet(nodes[l]) /\ x \in ToSet(n[c])
        BY <1>1, <1>3, <2>1, <3>1, ItemComes
    <3>3. Arranged(n, all) /\ PutInto(nodes, n, x, c)
        BY <1>1, <1>3, <2>1, <3>1, ItemComes
    <3>4. Arranged(new, ListItem \cup (Active \ {l})) /\ Taken(n, new, l)
        BY <1>1, <1>3, <2>1, <3>1, ItemComes
    <3>5. \A m \in List : Sortable!ItemsOf(new[m]) = Sortable!ItemsOf(n[m])
        BY <3>3, <3>4, EntriesAre, SameItems
    <3> QED BY <3>2, <3>3, <3>4, <3>5
  <2> QED BY <2>2, <2>3
<1>5. Arranged(nodes, all) /\ l \notin ListItem
    BY EntriesAre DEF SortableInv
<1>6. /\ drag' \in [List -> ItemDrag]
      /\ \A m \in List : m # l => drag'[m] = drag[m]
      /\ \A m \in List : drag'[m].item = drag[m].item /\ drag'[m].prev = drag[m].prev
    BY <1>2, OverIs
<1>7. /\ phase' \in [List -> {"idle", "dragging", "reverting"}]
      /\ Active' = Active \ {l} /\ over' \subseteq Reach'
      /\ \A k, m \in List : phase'[k] = "dragging" /\ phase'[m] = "dragging" => k = m
    BY <1>2, PhaseIsIdle
<1>8. \A k \in List : \A y : y # x /\ y # l => (y \in ToSet(nodes'[k]) <=> y \in ToSet(nodes[k]))
    BY <1>4 DEF PutInto, Taken
<1>9. \A m \in Active' : InHand(m)'
  <2> SUFFICES ASSUME NEW m \in Active' PROVE InHand(m)'
      OBVIOUS
  <2>1. m \in Active /\ m # l
      BY <1>7
  <2>2. /\ m \in List /\ drag[m].item \in ListItem /\ drag[m].item \in ToSet(nodes'[m])
        /\ m \in ToSet(nodes'[drag[m].currentContainer])
        /\ \A k \in List : m \notin drag[m].items[k]
      BY <1>3, <1>4, <1>8, <2>1, OthersInHand
  <2> QED BY <1>6, <2>1, <2>2 DEF InHand
<1>10. Sortable!Updated(l) = {m \in {l} : Sortable!HasMoved(l, n)} \cup {m \in {c} : m # l}
    BY <1>1 DEF Sortable!Updated
<1>11. c # l => Sortable!HasMoved(l, n)
  <2>1. Sortable!InList(n, x) = c
      BY <1>4, ListOf
  <2> QED BY <2>1 DEF Sortable!HasMoved
<1>12. ASSUME NEW m \in List, m \in Sortable!Updated(l) PROVE told'[m] = Sortable!ItemsOf(nodes'[m])
    BY <1>2, <1>4, <1>12
<1>13. ASSUME NEW m \in List, m \notin Sortable!Updated(l)
       PROVE  /\ told'[m] = told[m] /\ ToSet(nodes'[m]) \cap ListItem = ToSet(nodes[m]) \cap ListItem
              /\ ~crossed => told[m] = Sortable!ItemsOf(nodes'[m])
  <2>1. told'[m] = told[m]
      BY <1>2, <1>13
  <2>2. m = l => c = l /\ ~Sortable!HasMoved(l, n)
      BY <1>10, <1>11, <1>13
  <2>3. m # l => m # c
      BY <1>10, <1>13
  <2>4. ToSet(n[m]) = (ToSet(nodes[m]) \ {x}) \cup (IF m = c THEN {x} ELSE {})
        /\ \A a, b \in ToSet(nodes[m]) \ {x} : Comes(n[m], a, b) <=> Comes(nodes[m], a, b)
      BY <1>4 DEF PutInto
  <2>5. m # l => x \notin ToSet(nodes[m])
      BY <1>4, <1>5 DEF Arranged
  <2>6. ToSet(n[m]) = ToSet(nodes[m])
      BY <1>4, <2>2, <2>3, <2>4, <2>5
  <2>7. ToSet(nodes'[m]) = ToSet(n[m]) \ {l}
      BY <1>4 DEF Taken
  <2>8. ASSUME ~crossed PROVE told[m] = Sortable!ItemsOf(nodes'[m])
    <3>1. CASE m = l
      <4>1. Sortable!ItemsOf(n[l]) = told[l]
          BY <1>1, <1>3, <2>2, <2>8, <3>1, ToldOrTheSame
      <4> QED BY <1>4, <3>1, <4>1
    <3>2. CASE m # l
      <4>1. told[m] = Sortable!ItemsOf(nodes[m])
          BY <2>8 DEF SortableInv
      <4>2. ToSet(n[m]) \cap ListItem = ToSet(nodes[m]) \cap ListItem
            /\ \A a, b \in ToSet(nodes[m]) \cap ListItem : Comes(n[m], a, b) <=> Comes(nodes[m], a, b)
          BY <2>4, <2>5, <2>6, <3>2
      <4>3. Sortable!ItemsOf(n[m]) = Sortable!ItemsOf(nodes[m])
          BY <1>4, <1>5, <4>2, SameItemsOf
      <4> QED BY <1>4, <4>1, <4>3
    <3> QED BY <3>1, <3>2
  <2> QED BY <1>5, <2>1, <2>6, <2>7, <2>8
<1>14. \A m \in List : ToSet(told'[m]) = ToSet(nodes'[m]) \cap ListItem
  <2> SUFFICES ASSUME NEW m \in List PROVE ToSet(told'[m]) = ToSet(nodes'[m]) \cap ListItem
      OBVIOUS
  <2>1. ToSet(Sortable!ItemsOf(nodes'[m])) = ToSet(nodes'[m]) \cap ListItem
      BY <1>4, ItemsAreThere
  <2>2. ToSet(told[m]) = ToSet(nodes[m]) \cap ListItem
      BY DEF SortableInv
  <2>3. CASE m \in Sortable!Updated(l)
      BY <1>12, <2>1, <2>3
  <2>4. CASE m \notin Sortable!Updated(l)
      BY <1>13, <2>2, <2>4
  <2> QED BY <2>3, <2>4
<1>15. ASSUME ~crossed'
       PROVE  /\ Active' = {} /\ \A m \in List : told'[m] = Sortable!ItemsOf(nodes'[m])
  <2>1. ~crossed
      BY <1>2, <1>15
  <2>2. Active \subseteq {l}
      BY <1>3, <2>1 DEF SortableInv
  <2>3. \A m \in List : told'[m] = Sortable!ItemsOf(nodes'[m])
      BY <1>12, <1>13, <2>1
  <2> QED BY <1>7, <2>2, <2>3
<1>16. SortableTypeOK'
    BY <1>2, <1>6, <1>7 DEF SortableInv, SortableTypeOK
<1>17. \A m \in List : drag'[m].item # NoElement => drag'[m].prev # drag'[m].item
    BY <1>6 DEF SortableInv
<1>18. \A m \in List : Sortable!ItemsOf(nodes[m])' = Sortable!ItemsOf(nodes'[m])
    BY DEF Sortable!ItemsOf
<1>19. Arranged(nodes, ListItem \cup Active)'
  <2>1. ListItem \cup (Active \ {l}) = ListItem \cup Active'
      BY <1>7
  <2> QED BY <1>4, <2>1 DEF Arranged
<1> QED BY <1>7, <1>9, <1>14, <1>15, <1>16, <1>17, <1>18, <1>19 DEF SortableInv

(* cancel.                                                                 *)
LEMMA CancelKeeps ==
    ASSUME SortableInv, NEW l \in List, Sortable!Cancel(l)
    PROVE  SortableInv'
<1> DEFINE d == drag[l]
           x == d.item
           p == d.prev
           all == ListItem \cup (Active \ {l})
<1>1. PICK n : n = IF phase[l] = "idle" THEN nodes ELSE Sortable!Without(Sortable!Sorted(l), l)
    OBVIOUS
<1>2. /\ x # NoElement
      /\ phase[l] = "dragging" \/ \A m \in List : phase[m] = "idle"
      /\ nodes' = CASE p = NoElement -> [Sortable!Without(n, x) EXCEPT ![l] = <<x>> \o @]
                    [] Sortable!IsIn(n, p)  -> Sortable!After(n, x, p)
                    [] OTHER                -> n
      /\ told' = [m \in List |-> Sortable!ItemsOf(nodes'[m])]
      /\ drag' = Sortable!Over(l)
      /\ over' = IF phase[l] = "idle" THEN over ELSE over \ Sortable!Containers(l)
      /\ phase' = [phase EXCEPT ![l] = "idle"]
      /\ crossed' = crossed
    BY <1>1, Zenon DEF Sortable!Cancel
<1>3. x \in ListItem /\ p # x /\ x \in Entry /\ Arranged(nodes, ListItem \cup Active)
    BY <1>2, HeldIs, EntriesAre DEF SortableInv, ItemDrag
<1>4. l \notin Active => Active = {} /\ over = {}
    BY <1>2 DEF SortableInv, Active, Reach
<1>5. /\ Arranged(n, all)
      /\ \A k \in List : \A y : y # x /\ y # l => (y \in ToSet(n[k]) <=> y \in ToSet(nodes[k]))
  <2>1. CASE l \notin Active
    <3>1. n = nodes /\ all = ListItem \cup Active
        BY <1>1, <1>4, <2>1 DEF Active
    <3> QED BY <1>3, <3>1
  <2>2. CASE l \in Active
    <3>1. PICK m : m = Sortable!Sorted(l)
        OBVIOUS
    <3>2. n = Sortable!Without(m, l)
        BY <1>1, <2>2, <3>1 DEF Active
    <3>3. PutInto(nodes, m, x, d.currentContainer) /\ Arranged(n, all) /\ Taken(m, n, l)
        BY <2>2, <3>1, <3>2, ItemComes
    <3> QED BY <3>3 DEF PutInto, Taken
  <2> QED BY <2>1, <2>2
<1>6. all \cup {x} = all
    BY <1>3
<1>7. /\ Arranged(nodes', all)
      /\ \A k \in List : \A y : y # x => (y \in ToSet(nodes'[k]) <=> y \in ToSet(n[k]))
  <2>1. CASE p = NoElement
    <3>1. PICK first : first = [Sortable!Without(n, x) EXCEPT ![l] = <<x>> \o @]
        OBVIOUS
    <3>2. nodes' = CASE p = NoElement -> first
                     [] Sortable!IsIn(n, p)  -> Sortable!After(n, x, p)
                     [] OTHER                -> n
        BY <1>2, <3>1, Zenon
    <3>3. nodes' = first
      <4>1. ~Sortable!IsIn(n, p)
          BY <1>5, <2>1, RangeIs, EntriesAre DEF Sortable!IsIn, Arranged, Active
      <4> QED BY <2>1, <3>2, <4>1
    <3>4. Arranged(first, all \cup {x}) /\ PutInto(n, first, x, l)
        BY <1>3, <1>5, <3>1, PutAtEnd
    <3> QED BY <1>6, <3>3, <3>4 DEF PutInto
  <2>2. CASE p # NoElement /\ Sortable!IsIn(n, p)
    <3>1. nodes' = Sortable!After(n, x, p)
        BY <1>2, <2>2
    <3>2. PICK k \in List : p \in ToSet(n[k])
        BY <2>2, RangeIs DEF Sortable!IsIn
    <3>3. Arranged(nodes', all \cup {x}) /\ PutInto(n, nodes', x, k)
        BY <1>3, <1>5, <3>1, <3>2, PutBeside
    <3> QED BY <1>6, <3>3 DEF PutInto
  <2>3. CASE p # NoElement /\ ~Sortable!IsIn(n, p)
    <3>1. nodes' = n
        BY <1>2, <2>3
    <3> QED BY <1>5, <3>1
  <2> QED BY <2>1, <2>2, <2>3
<1>8. /\ drag' \in [List -> ItemDrag]
      /\ \A m \in List : m # l => drag'[m] = drag[m]
      /\ \A m \in List : drag'[m].item = drag[m].item /\ drag'[m].prev = drag[m].prev
    BY <1>2, OverIs
<1>9. over' \subseteq over \ Sortable!Containers(l)
  <2>1. CASE l \in Active
      BY <1>2, <2>1 DEF Active
  <2>2. CASE l \notin Active
      BY <1>2, <1>4, <2>2
  <2> QED BY <2>1, <2>2
<1>10. /\ phase' \in [List -> {"idle", "dragging", "reverting"}]
       /\ Active' = Active \ {l} /\ over' \subseteq Reach'
       /\ \A k, m \in List : phase'[k] = "dragging" /\ phase'[m] = "dragging" => k = m
    BY <1>2, <1>9, PhaseIsIdle
<1>11. \A m \in Active' : InHand(m)'
  <2> SUFFICES ASSUME NEW m \in Active' PROVE InHand(m)'
      OBVIOUS
  <2>1. m \in Active /\ m # l /\ l \in Active
      BY <1>4, <1>10
  <2>2. x \in ToSet(nodes[l])
      BY <2>1 DEF SortableInv, InHand
  <2>3. \A k \in List : \A y : y # x /\ y # l => (y \in ToSet(nodes'[k]) <=> y \in ToSet(nodes[k]))
      BY <1>5, <1>7
  <2>4. /\ m \in List /\ drag[m].item \in ListItem /\ drag[m].item \in ToSet(nodes'[m])
        /\ m \in ToSet(nodes'[drag[m].currentContainer])
        /\ \A k \in List : m \notin drag[m].items[k]
      BY <1>3, <2>1, <2>2, <2>3, OthersInHand
  <2> QED BY <1>8, <2>1, <2>4 DEF InHand
<1>12. \A m \in List : told'[m] = Sortable!ItemsOf(nodes'[m])
    BY <1>2, Zenon
<1>13. \A m \in List : ToSet(told'[m]) = ToSet(nodes'[m]) \cap ListItem
    BY <1>7, <1>12, ItemsAreThere
<1>14. ASSUME ~crossed' PROVE Active' = {}
  <2>1. ~crossed
      BY <1>2, <1>14
  <2>2. \A k, m \in Active : k = m
      BY <2>1 DEF SortableInv
  <2> QED BY <1>4, <1>10, <2>2
<1>15. SortableTypeOK'
    BY <1>2, <1>8, <1>10 DEF SortableInv, SortableTypeOK
<1>16. \A m \in List : drag'[m].item # NoElement => drag'[m].prev # drag'[m].item
    BY <1>8 DEF SortableInv
<1>17. \A m \in List : Sortable!ItemsOf(nodes[m])' = Sortable!ItemsOf(nodes'[m])
    BY DEF Sortable!ItemsOf
<1>18. Arranged(nodes, ListItem \cup Active)'
  <2>1. all = ListItem \cup Active'
      BY <1>10
  <2> QED BY <1>7, <2>1 DEF Arranged
<1> QED BY <1>10, <1>11, <1>12, <1>13, <1>14, <1>15, <1>16, <1>17, <1>18 DEF SortableInv

LEMMA OneElement ==
    ASSUME NEW V, NEW s \in Seq(V), Once(s), NEW x, ToSet(s) = {x}
    PROVE  Len(s) = 1
<1>1. PICK n \in Nat : n = Len(s) /\ DOMAIN s = 1 .. n
    OBVIOUS
<1>2. PICK i \in 1 .. n : s[i] = x
    BY <1>1 DEF ToSet
<1>3. \A j \in 1 .. n : j = i
  <2> SUFFICES ASSUME NEW j \in 1 .. n PROVE j = i
      OBVIOUS
  <2>1. s[j] \in ToSet(s)
      BY <1>1 DEF ToSet
  <2> QED BY <1>1, <1>2, <2>1 DEF Once
<1>4. 1 \in 1 .. n /\ n \in 1 .. n
    BY <1>2
<1>5. n = 1
    BY <1>3, <1>4
<1> QED BY <1>1, <1>5

(* The page as it is made.                                                 *)
LEMMA SortableBegins == Sortable!SortableInit => SortableInv
<1> SUFFICES ASSUME Sortable!SortableInit PROVE SortableInv
    OBVIOUS
<1>1. /\ nodes = Initial /\ told = Initial
      /\ phase = [l \in List |-> "idle"]
      /\ drag = [l \in List |-> [item |-> NoElement, prev |-> NoElement,
                                 items |-> [m \in List |-> {}], currentContainer |-> l]]
      /\ over = {} /\ crossed = FALSE
    BY DEF Sortable!SortableInit
<1>2. Active = {}
    BY <1>1 DEF Active
<1>3. ASSUME NEW l \in List
      PROVE  /\ nodes[l] \in Seq(Entry) /\ ToSet(nodes[l]) \subseteq ListItem
             /\ DOMAIN nodes[l] = 1 .. Len(nodes[l]) /\ \A i \in DOMAIN nodes[l] : nodes[l][i] \in ListItem
  <2>1. PICK s : s = nodes[l] /\ s \in Seq(ListItem)
      BY <1>1, SortableAssumption
  <2>2. DOMAIN s = 1 .. Len(s) /\ \A i \in DOMAIN s : s[i] \in ListItem
      BY <2>1
  <2>3. s \in Seq(Entry)
      BY <2>1 DEF Entry
  <2>4. ToSet(s) \subseteq ListItem
      BY <2>2 DEF ToSet
  <2> QED BY <2>1, <2>2, <2>3, <2>4
<1>4. \A x \in ListItem : \E l \in List : \E i \in DOMAIN nodes[l] :
         \A m \in List : \A j \in DOMAIN nodes[m] : nodes[m][j] = x <=> m = l /\ j = i
    BY <1>1, SortableAssumption
<1>5. ASSUME NEW l \in List PROVE Once(nodes[l])
  <2> SUFFICES ASSUME NEW i \in DOMAIN nodes[l], NEW j \in DOMAIN nodes[l], nodes[l][i] = nodes[l][j]
               PROVE  i = j
      BY <1>3 DEF Once
  <2>1. nodes[l][i] \in ListItem
      BY <1>3
  <2> QED BY <1>4, <2>1
<1>6. ASSUME NEW l \in List, NEW m \in List, NEW y \in ToSet(nodes[l]), y \in ToSet(nodes[m])
      PROVE  l = m
  <2>1. PICK i \in DOMAIN nodes[l], j \in DOMAIN nodes[m] : nodes[l][i] = y /\ nodes[m][j] = y
      BY <1>6 DEF ToSet
  <2>2. y \in ListItem
      BY <1>3
  <2> QED BY <1>4, <2>1, <2>2
<1>7. ASSUME NEW y PROVE y \in ListItem <=> \E l \in List : y \in ToSet(nodes[l])
  <2>1. ASSUME y \in ListItem PROVE \E l \in List : y \in ToSet(nodes[l])
    <3>1. PICK l \in List : \E i \in DOMAIN nodes[l] : nodes[l][i] = y
        BY <1>4, <2>1
    <3> QED BY <3>1 DEF ToSet
  <2> QED BY <1>3, <2>1
<1>8. Arranged(nodes, ListItem)
  <2>1. nodes \in [List -> Seq(Entry)]
      BY <1>1, <1>3, SortableAssumption
  <2> QED BY <1>5, <1>6, <1>7, <2>1 DEF Arranged
<1>9. ASSUME NEW l \in List PROVE nodes[l] = Sortable!ItemsOf(nodes[l])
  <2>1. PICK s, t : s = nodes[l] /\ t = Sortable!ItemsOf(nodes[l])
      OBVIOUS
  <2>2. /\ t \in Seq(Entry) /\ Once(t) /\ ToSet(t) = ToSet(s) \cap ListItem
        /\ \A a, b \in ListItem : Comes(t, a, b) <=> Comes(s, a, b)
      BY <1>8, <2>1, ItemsOfIs
  <2>3. s \in Seq(Entry) /\ Once(s) /\ ToSet(s) \subseteq ListItem
      BY <1>3, <1>5, <2>1
  <2>4. ToSet(s) = ToSet(t) /\ \A a, b \in ToSet(s) : Comes(s, a, b) <=> Comes(t, a, b)
      BY <2>2, <2>3
  <2>5. s = t
      BY <2>2, <2>3, <2>4, SameOrder
  <2> QED BY <2>1, <2>5
<1>10. SortableTypeOK
    BY <1>1 DEF SortableTypeOK, ItemDrag
<1>11. \A l \in List : ToSet(told[l]) = ToSet(nodes[l]) \cap ListItem
    BY <1>1, <1>3
<1>12. \A l \in List : told[l] = Sortable!ItemsOf(nodes[l])
    BY <1>1, <1>9
<1>13. Arranged(nodes, ListItem \cup Active)
  <2>1. ListItem \cup Active = ListItem
      BY <1>2
  <2> QED BY <1>8, <2>1
<1>14. \A l \in List : drag[l].item = NoElement /\ phase[l] # "dragging"
    BY <1>1
<1> QED BY <1>1, <1>2, <1>10, <1>11, <1>12, <1>13, <1>14 DEF SortableInv

(* _mouseStop.                                                             *)
LEMMA StopKeeps ==
    ASSUME SortableInv, NEW l \in List, Sortable!Stop(l)
    PROVE  SortableInv'
<1>1. phase[l] = "dragging"
    BY DEF Sortable!Stop
<1>2. CASE l \notin AnimatedList
  <2>1. Sortable!Clear(l)
      BY <1>2 DEF Sortable!Stop
  <2> QED BY <1>1, <2>1, ClearKeeps
<1>3. CASE l \in AnimatedList
  <2>1. phase' = [phase EXCEPT ![l] = "reverting"] /\ UNCHANGED <<nodes, drag, over, told, crossed>>
      BY <1>3 DEF Sortable!Stop
  <2>2. phase \in [List -> {"idle", "dragging", "reverting"}]
      BY DEF SortableInv, SortableTypeOK
  <2>3. Active' = Active
      BY <1>1, <2>1, <2>2 DEF Active
  <2>4. phase' \in [List -> {"idle", "dragging", "reverting"}]
        /\ \A m \in List : phase'[m] = "dragging" => phase[m] = "dragging"
      BY <2>1, <2>2
  <2>5. SortableTypeOK'
      BY <2>1, <2>4 DEF SortableInv, SortableTypeOK
  <2>6. Arranged(nodes, ListItem \cup Active)'
      BY <2>1, <2>3 DEF SortableInv, Arranged
  <2>7. Reach' = Reach /\ \A m \in List : InHand(m)' <=> InHand(m)
      BY <2>1, <2>3 DEF Reach, InHand
  <2>8. \A m \in List : Sortable!ItemsOf(nodes[m])' = Sortable!ItemsOf(nodes[m])
      BY <2>1
  <2> QED BY <2>1, <2>3, <2>4, <2>5, <2>6, <2>7, <2>8 DEF SortableInv, Active
<1> QED BY <1>2, <1>3

(* Whatever drags are made, crossing or not, ended or cancelled, the lists *)
(* hold each item and the placeholder of each drag at one place, and what  *)
(* the page was told of a list holds its items.                            *)
THEOREM SortableInvariant == Sortable!SortableSpec => []SortableInv
<1>1. Sortable!SortableInit => SortableInv
    BY SortableBegins
<1>2. SortableInv /\ [Sortable!SortableNext]_Sortable!sortableVars => SortableInv'
  <2> SUFFICES ASSUME SortableInv, [Sortable!SortableNext]_Sortable!sortableVars PROVE SortableInv'
      OBVIOUS
  <2>1. ASSUME NEW l \in List, NEW to \in Sortable!Containers(l) \cup {NoElement},
               Sortable!MouseDrag(l, to)
        PROVE  SortableInv'
      BY <2>1, MouseDragKeeps
  <2>2. ASSUME NEW l \in List, NEW to \in Sortable!Containers(l) \cup {NoElement},
               NEW x \in ListItem, Sortable!Start(l, x, to)
        PROVE  SortableInv'
      BY <2>2, SortStartKeeps
  <2>3. ASSUME NEW l \in List, Sortable!Stop(l) PROVE SortableInv'
      BY <2>3, StopKeeps
  <2>4. ASSUME NEW l \in List, Sortable!AnimationEnds(l) PROVE SortableInv'
    <3>1. phase[l] # "idle" /\ Sortable!Clear(l)
        BY <2>4 DEF Sortable!AnimationEnds
    <3> QED BY <3>1, ClearKeeps
  <2>5. ASSUME NEW l \in List, Sortable!Cancel(l) PROVE SortableInv'
      BY <2>5, CancelKeeps
  <2>6. ASSUME UNCHANGED Sortable!sortableVars PROVE SortableInv'
    <3>1. UNCHANGED <<nodes, phase, drag, over, told, crossed>>
        BY <2>6 DEF Sortable!sortableVars
    <3>2. Active' = Active /\ Reach' = Reach /\ \A m \in List : InHand(m)' <=> InHand(m)
        BY <3>1 DEF Active, Reach, InHand
    <3>3. Arranged(nodes, ListItem \cup Active)'
        BY <3>1, <3>2 DEF SortableInv, Arranged
    <3>4. SortableTypeOK'
        BY <3>1 DEF SortableInv, SortableTypeOK
    <3>5. \A m \in List : Sortable!ItemsOf(nodes[m])' = Sortable!ItemsOf(nodes[m])
        BY <3>1
    <3>6. /\ \A m \in List : drag[m].item # NoElement => drag[m].prev # drag[m].item
          /\ \A l, m \in List : phase[l] = "dragging" /\ phase[m] = "dragging" => l = m
          /\ over \subseteq Reach /\ \A m \in Active : InHand(m)
          /\ \A m \in List : ToSet(told[m]) = ToSet(nodes[m]) \cap ListItem
        BY DEF SortableInv
    <3>7. \A m \in Active' : InHand(m)'
        BY <3>2, <3>6 DEF Active
    <3>8. ~crossed => /\ \A l, m \in Active : l = m
                      /\ \A l \in List : told[l] = Sortable!ItemsOf(nodes[l])
                      /\ \A l \in Active : Follows(told[l], drag[l].item, drag[l].prev)
        BY DEF SortableInv
    <3> QED BY <3>1, <3>2, <3>3, <3>4, <3>5, <3>6, <3>7, <3>8 DEF SortableInv
  <2> QED BY <2>1, <2>2, <2>3, <2>4, <2>5, <2>6 DEF Sortable!SortableNext
<1> QED BY <1>1, <1>2, PTL DEF Sortable!SortableSpec

(* The page knows what its lists hold, and, if no two drags crossed, in    *)
(* which order: it is told whenever an item comes to another place.        *)
THEOREM SortableCorrect == Sortable!SortableSpec => []ListsAreTold
<1>1. SortableInv => ListsAreTold
  <2> SUFFICES ASSUME SortableInv PROVE ListsAreTold
      OBVIOUS
  <2>1. Arranged(nodes, ListItem \cup Active)
      BY DEF SortableInv
  <2>2. /\ \A l \in List : nodes[l] \in Seq(Entry) /\ Once(nodes[l])
        /\ \A l, m \in List : \A y \in ToSet(nodes[l]) : y \in ToSet(nodes[m]) => l = m
        /\ \A y : y \in ListItem \cup Active <=> \E l \in List : y \in ToSet(nodes[l])
      BY <2>1 DEF Arranged
  <2>3. ASSUME NEW x \in ListItem
        PROVE  \E l \in List : /\ Len(Sortable!OnlyIn(nodes[l], {x})) = 1
                               /\ \A m \in List \ {l} : x \notin Sortable!Range(nodes[m])
    <3>1. PICK l \in List : x \in ToSet(nodes[l])
        BY <2>2
    <3>2. PICK s : s = OnlyIn(nodes[l], {x})
        OBVIOUS
    <3>3. s = Sortable!OnlyIn(nodes[l], {x})
        BY <3>2 DEF Sortable!OnlyIn, OnlyIn
    <3>4. s \in Seq(Entry) /\ Once(s) /\ ToSet(s) = ToSet(nodes[l]) \cap {x}
        BY <2>2, <3>2, OnlyInOnce
    <3>5. Len(s) = 1
      <4>1. ToSet(s) = {x}
          BY <3>1, <3>4
      <4> QED BY <3>4, <4>1, OneElement
    <3>6. \A m \in List \ {l} : x \notin Sortable!Range(nodes[m])
        BY <2>2, <3>1, RangeIs
    <3> QED BY <3>3, <3>5, <3>6
  <2>4. ASSUME NEW l \in List
        PROVE  /\ Sortable!Range(told[l]) = Sortable!Range(Sortable!ItemsOf(nodes[l]))
               /\ crossed \/ told[l] = Sortable!ItemsOf(nodes[l])
    <3>1. ToSet(told[l]) = ToSet(Sortable!ItemsOf(nodes[l]))
      <4>1. ToSet(Sortable!ItemsOf(nodes[l])) = ToSet(nodes[l]) \cap ListItem
          BY <2>1, ItemsAreThere
      <4> QED BY <4>1 DEF SortableInv
    <3>2. crossed \/ told[l] = Sortable!ItemsOf(nodes[l])
        BY DEF SortableInv
    <3> QED BY <3>1, <3>2, RangeIs
  <2>5. ASSUME NEW l \in List PROVE Sortable!IsIn(nodes, l) = (phase[l] # "idle")
    <3>1. l \in Active <=> \E m \in List : l \in ToSet(nodes[m])
        BY <2>2, HeldIs
    <3>2. Sortable!IsIn(nodes, l) <=> \E m \in List : l \in ToSet(nodes[m])
        BY RangeIs DEF Sortable!IsIn
    <3>3. l \in Active <=> phase[l] # "idle"
        BY HeldIs
    <3>4. Sortable!IsIn(nodes, l) \in BOOLEAN
        BY DEF Sortable!IsIn
    <3> QED BY <3>1, <3>2, <3>3, <3>4
  <2>6. (\A l \in List : phase[l] = "idle") => over = {}
      BY DEF SortableInv, Active, Reach
  <2> QED BY <2>3, <2>4, <2>5, <2>6 DEF ListsAreTold, Sortable!ListsAreTold
<1> QED BY <1>1, SortableInvariant, PTL
=============================================================================
