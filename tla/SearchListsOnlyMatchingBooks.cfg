SPECIFICATION Spec
CONSTANTS
    Id = {i1, i2}
    Path = {p1, p2}
    m1 = m1
    m2 = m2
    q1 = q1
    q2 = q2
    Meta = {m1, m2}
    Query = {q1, q2}
    Matches <- MCMatches
    HasUrl <- MCHasUrl
    Size <- MCSize
    Url = {u1}
    MaxBookmarks = 1
    NoBook = NoBook
    NoPath = NoPath
    NoDoc = NoDoc
    None = None
SYMMETRY Symmetry
INVARIANT SearchListsOnlyMatchingBooks
