SPECIFICATION Spec
CONSTANTS
    Gid = {g1, g2}
    Uri = {uri, metalink}
    Metalink = {metalink}
    Wanted = {metalink}
    Mirror = uri
    None = None
CHECK_DEADLOCK FALSE
INVARIANTS
    KnownDownloadsAreRight
    ClosedSessionIsSaved
    KillSparesOthers
PROPERTY
    DestructorReturns
