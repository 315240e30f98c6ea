SPECIFICATION Spec
CONSTANTS
    Thread = {t1, t2}
    NoThread = NoThread
    NoPrefix = NoPrefix
    Dangling = Dangling
    lower = lower
    upper = upper
    article = article
    redirect = redirect
    loop = loop
    Item <- MCItem
    Prefix = {NoPrefix, lower, upper}
    ByTitle <- MCByTitle
    FullText <- MCFullText
    Variants <- MCVariants
    Count = {2}
    Url = {article, redirect, loop}
    Redirect <- MCRedirect
    Size <- MCSize
    MaxHops = 2
    MaxInt = 0
CHECK_DEADLOCK FALSE
INVARIANTS
    SuggestionsAreInOrder
    ManagerHasItsLibrary
PROPERTIES
    LockIsReleased
