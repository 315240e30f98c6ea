SPECIFICATION MCSpec
CONSTANTS
    Resource <- MCResource
    MaxStarts = 2
    MaxVersion = 2
    MaxTokens = 2
    MaxStored = 2
    LiveChanges = FALSE
    NoETag = NoETag
    IntMax = 3
    Int64Max = 11
    MaxSize = 9
    Block = 3
    NoRange = NoRange
    Name = {"a", "b"}
    FileName <- MCWellPlacedFile
    Book <- MCBook
    Cwd <- MCCwd
    Root <- MCRoot
    BookName <- MCBookName
    Entries <- MCEntries
    MainEntry <- MCMainEntry
    External <- MCExternal
    NoEntry = NoEntry
    Id = {i1, i2}
    Title = {t1, t2}
    Url = {u1}
    Path = {p1, p2}
    File = {main}
    Zim <- MCZim
    Feed <- MCFeed
    Foreign <- MCForeign
    PathToSave = {NoPath, Relative}
    Relative = Relative
    InDirOf <- MCInDirOf
    i1 = i1
    i2 = i2
    p1 = p1
    p2 = p2
    t1 = t1
    t2 = t2
    u1 = u1
    main = main
    NoBook = NoBook
    NoPath = NoPath
    NoFile = NoFile
    NoUrl = NoUrl
    Untitled = Untitled
    Junk = Junk
    Absent = Absent
    NotOurs = NotOurs
CHECK_DEADLOCK FALSE
INVARIANTS
    NotModifiedMeansTheSame
    ValidatorsAreStrong
    AnnouncesWhatIsAsked
    SmallBodyIsTheRange
    LinksLeadWhereTheySay
    BookIsFoundAgain
    RestoredAsSaved
PROPERTIES
    ReadOnlyBooksStay
    BodiesAreCompleted
