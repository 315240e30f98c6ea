SPECIFICATION MCSpec
CONSTANTS
    Text <- MCText
    Item = {"x", "y"}
    ValueOf <- MCValueOf
    IsPath <- MCIsPath
    Answer <- MCAnswer
    MaxArmed = 2
    None = None
    Gone = Gone
    MaxScroll = 12
    Delta = 5
    FilterType = {"lang", "q"}
    Option <- MCOption
    BrowserLang = "eng"
    Absent = Absent
    MaxHistory = 3
    MaxWaiting = 1
    Book = {b1, b2}
    Filter = {forth, back, none}
    Matching <- MCMatching
    LangFilter = back
    ViewPort = {1, 2}
    MaxResets = 2
    b1 = b1
    b2 = b2
    forth = forth
    back = back
    none = none
INVARIANTS
    PageIsRight
    MenuAnswersTheTerm
    TypedIsSuggested
    ToolbarIsThereAtTheTop
    ControlsShowTheFilters
PROPERTIES
    ListIsCompleted
