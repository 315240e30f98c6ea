SPECIFICATION MCSpec
CONSTANTS
    NoElement = ""
    Panel = {"p1", "p2", "p3"}
    NoPanel = "none"
    TabName = {"t1", "t2"}
    NoTab = "none"
    RemoteTab = {"t2"}
    RequestId = {1, 2}
    Draggable = {"d1", "d2"}
    Droppable = {"parent", "child", "beside"}
    Spot = {"outside", "parent", "child", "beside"}
    Under <- MCUnder
    Parent <- MCParent
    Greedy = {"child"}
    Accepted <- MCAccepted
    Delayed = {"d2"}
    Revert <- MCRevert
    Step = 2
    LowestBound = 0
    HighestBound = 6
    LowestNumber = 0
    HighestNumber = 2
    Dialog = {"d1", "d2", "d3"}
    Modal = {"d1", "d2"}
    AnimatedDialog = {"d2"}
    EffectLimit = 3
    Page = "page"
    Nowhere = "body"
    Element = {"list", "item", "link", "other"}
    Around <- MCAround
    Out = "body"
    List = {"l1", "l2"}
    ListItem = {"x", "y", "z"}
    Initial <- MCInitial
    ConnectWith <- MCConnectWith
    AnimatedList = {"l1"}
    DropOnEmpty = {"l1"}
CHECK_DEADLOCK FALSE
INVARIANTS
    OnePanelIsOpen
    OneTabIsOpen
    NothingStaysLit
    RangeIsInOrder
    NoSpinIsLost
    TooltipIsHeld
    ListsAreTold
PROPERTIES
    ModalKeepsFocus
