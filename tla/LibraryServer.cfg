SPECIFICATION MCSpec
CONSTANTS
    Worker = {w1, w2}
    w1 = w1
    Id = {i1, i2, i3}
    Served <- MCServed
    AppIds = {i2}
    AppBooks <- MCAppBooks
    IdOrder <- MCIdOrder
    wiki = wiki
    wiki_2020 = wiki_2020
    Name = {wiki, wiki_2020}
    HumanReadable <- MCHumanReadable
    Alias <- MCAlias
    WithAlias = TRUE
    r1 = r1
    r2 = r2
    Reader = {r1, r2, r3}
    r3 = r3
    Indexed = {r1, r2}
    many = many
    some = some
    nothing = nothing
    Result <- MCResult
    Pattern = {many, some, nothing}
    Ranked <- MCRanked
    Estimate <- MCEstimate
    Bound = {0, 1, 2, 3}
    Offset = {0, 1, 2, 3, 4, 5, 6, 7, 8, 9, 10, 11, 12, 14}
    Length = {0, 1, 2, 4}
    DefaultLength = 2
    MAX_SEARCH_LEN = 3
    SuggestionEnd = 2
    NoResults = NoResults
    NotTurning = NotTurning
    Path = {p1, p2}
    p1 = p1
    p2 = p2
    i1 = i1
    i2 = i2
    i3 = i3
    m1 = m1
    m2 = m2
    q1 = q1
    Meta = {m1, m2}
    Query = {q1}
    Matches <- MCMatches
    HasUrl <- MCHasUrl
    Size <- MCSize
    Url = {}
    MaxBookmarks = 0
    NoBook = NoBook
    NoPath = NoPath
    NoDoc = NoDoc
    None = None
CHECK_DEADLOCK FALSE
INVARIANTS
    BookAnswersAreRight
    ListsCoverTheLibrary
    ResultsComeOnceInOrder
PROPERTIES
    EveryRequestEnds
