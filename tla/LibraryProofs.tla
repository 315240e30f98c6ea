---------------------------- MODULE LibraryProofs ----------------------------
(***************************************************************************)
(* Library for every number of books, files, queries and bookmarks, and    *)
(* then behind a server with any number of threads, while the application  *)
(* adds and removes any of its books; and what filters find in a library   *)
(* that stays as it is, and feeds of it page by page.                      *)
(*                                                                         *)
(* LibraryInv is inductive.  What filter() answers is not inductive by     *)
(* itself: it follows from the index and the map holding the same ids and  *)
(* from a writable record being the one that was indexed last.             *)
(***************************************************************************)
EXTENDS LibraryServer, CatalogFeeds, FoldTheorems, FiniteSetTheorems

LibraryInv ==
    /\ TypeOK
    /\ IndexCoversBooks
    /\ WritableBooksIndexed
    /\ HandlesBelongToBooks
    /\ ReaderSharesArchive

(* The bookmarks left when one is taken out are still bookmarks. *)
LEMMA RemovedSeqType ==
    ASSUME NEW S, NEW s \in Seq(S), NEW i \in 1 .. Len(s)
    PROVE  SubSeq(s, 1, i - 1) \o SubSeq(s, i + 1, Len(s)) \in Seq(S)
<1>1. /\ Len(s) \in Nat
      /\ \A k \in 1 .. Len(s) : s[k] \in S
    BY LenProperties, ElementOfSeq
<1>2. SubSeq(s, 1, i - 1) \in Seq(S)
  <2>1. \A k \in 1 .. (i - 1) : s[k] \in S
      BY <1>1
  <2>2. 1 \in Int /\ i - 1 \in Int
      BY <1>1
  <2> QED BY <2>1, <2>2, SubSeqProperties
<1>3. SubSeq(s, i + 1, Len(s)) \in Seq(S)
  <2>1. \A k \in (i + 1) .. Len(s) : s[k] \in S
      BY <1>1
  <2>2. i + 1 \in Int /\ Len(s) \in Int
      BY <1>1
  <2> QED BY <2>1, <2>2, SubSeqProperties
<1> QED BY <1>2, <1>3, ConcatProperties

-----------------------------------------------------------------------------
LEMMA InitEstablishesInv == Init => LibraryInv
<1> SUFFICES ASSUME Init PROVE LibraryInv
    OBVIOUS
<1>1. TypeOK
    BY EmptySeq DEF Init, TypeOK
<1>2. IndexCoversBooks /\ HandlesBelongToBooks /\ ReaderSharesArchive
    BY DEF Init, IndexCoversBooks, HandlesBelongToBooks, ReaderSharesArchive
<1>3. WritableBooksIndexed
    BY DEF Init, WritableBooksIndexed, BooksIds
<1> QED BY <1>1, <1>2, <1>3 DEF LibraryInv

LEMMA AddBookPreservesInv ==
    ASSUME LibraryInv, NEW id \in Id, NEW book \in BookRecord, AddBook(id, book)
    PROVE  LibraryInv'
<1> USE DEF LibraryInv
<1>1. /\ book \in [path : Path \cup {NoPath}, pathValid : BOOLEAN,
                   meta : Meta, readOnly : BOOLEAN]
      /\ book # NoBook /\ book.meta # NoDoc
    BY NoBookAssumption, ConstantsAssumption DEF BookRecord
<1>2. /\ books'[id] = (IF books[id] = NoBook THEN book ELSE Update(books[id], book))
      /\ books'[id] \in BookRecord
      /\ books'[id] # NoBook
      /\ \A k \in Id \ {id} : books'[k] = books[k]
    BY <1>1, NoBookAssumption DEF AddBook, TypeOK, Update
<1>3. /\ bookDB'[id] = book.meta
      /\ \A k \in Id \ {id} : bookDB'[k] = bookDB[k]
    BY DEF AddBook, TypeOK
<1>4. TypeOK'
    BY <1>1, <1>2 DEF AddBook, TypeOK
<1>5. IndexCoversBooks'
    BY <1>1, <1>2, <1>3 DEF IndexCoversBooks
<1>6. WritableBooksIndexed'
    BY <1>2, <1>3 DEF WritableBooksIndexed, BooksIds, Update
<1>7. HandlesBelongToBooks' /\ ReaderSharesArchive'
    BY <1>2 DEF AddBook, HandlesBelongToBooks, ReaderSharesArchive, BooksIds
<1> QED BY <1>4, <1>5, <1>6, <1>7

LEMMA RemoveBookPreservesInv ==
    ASSUME LibraryInv, NEW id \in Id, RemoveBookById(id)
    PROVE  LibraryInv'
<1> USE DEF LibraryInv, RemoveBookById
<1>1. TypeOK'
    BY DEF TypeOK
<1>2. IndexCoversBooks'
    BY DEF TypeOK, IndexCoversBooks
<1>3. WritableBooksIndexed'
    BY DEF TypeOK, WritableBooksIndexed, BooksIds
<1>4. HandlesBelongToBooks' /\ ReaderSharesArchive'
    BY DEF TypeOK, HandlesBelongToBooks, ReaderSharesArchive, BooksIds
<1> QED BY <1>1, <1>2, <1>3, <1>4

LEMMA SetPathPreservesInv ==
    ASSUME LibraryInv, NEW id \in Id, NEW path \in Path, SetPath(id, path)
    PROVE  LibraryInv'
<1> USE DEF LibraryInv, SetPath
<1>1. /\ books'[id] \in BookRecord
      /\ books'[id].meta = books[id].meta
      /\ books'[id].readOnly = books[id].readOnly
      /\ books'[id] # NoBook
      /\ \A k \in Id \ {id} : books'[k] = books[k]
    BY NoBookAssumption, ConstantsAssumption DEF TypeOK, BookRecord
<1>2. TypeOK'
    BY <1>1 DEF TypeOK
<1>3. IndexCoversBooks' /\ WritableBooksIndexed'
    BY <1>1 DEF IndexCoversBooks, WritableBooksIndexed, BooksIds
<1>4. HandlesBelongToBooks' /\ ReaderSharesArchive'
    BY <1>1 DEF HandlesBelongToBooks, ReaderSharesArchive, BooksIds
<1> QED BY <1>2, <1>3, <1>4

LEMMA OpeningPreservesInv ==
    ASSUME LibraryInv, NEW id \in Id, GetArchiveById(id) \/ GetReaderById(id)
    PROVE  LibraryInv'
<1> USE DEF LibraryInv
<1>1. UNCHANGED <<books, bookDB, bookmarks, disk>>
    BY DEF GetArchiveById, GetReaderById
<1>2. Openable(id) => books[id] # NoBook /\ books[id].path \in Path
    BY DEF Openable, TypeOK
<1>3. TypeOK'
    BY <1>1, <1>2 DEF GetArchiveById, GetReaderById, TypeOK
<1>4. IndexCoversBooks' /\ WritableBooksIndexed'
    BY <1>1 DEF IndexCoversBooks, WritableBooksIndexed, BooksIds
<1>5. HandlesBelongToBooks' /\ ReaderSharesArchive'
    BY <1>1, <1>2 DEF GetArchiveById, GetReaderById, TypeOK,
        HandlesBelongToBooks, ReaderSharesArchive, BooksIds
<1> QED BY <1>3, <1>4, <1>5

LEMMA OthersPreserveInv ==
    ASSUME LibraryInv,
           \/ \E mark \in Bookmark : AddBookmark(mark) \/ RemoveBookmark(mark)
           \/ \E path \in Path : DiskChanges(path)
           \/ UNCHANGED vars
    PROVE  LibraryInv'
<1> USE DEF LibraryInv
<1>1. UNCHANGED <<books, bookDB, readers, archives>>
    BY DEF AddBookmark, RemoveBookmark, DiskChanges, vars
<1>2. bookmarks' \in Seq(Bookmark)
  <2>1. ASSUME NEW mark \in Bookmark, AddBookmark(mark)
        PROVE  bookmarks' \in Seq(Bookmark)
      BY <2>1, AppendProperties DEF AddBookmark, TypeOK
  <2>2. ASSUME NEW mark \in Bookmark, RemoveBookmark(mark)
        PROVE  bookmarks' \in Seq(Bookmark)
    <3>1. PICK i \in 1 .. Len(bookmarks) :
              bookmarks' = SubSeq(bookmarks, 1, i - 1)
                             \o SubSeq(bookmarks, i + 1, Len(bookmarks))
        BY <2>2, LenProperties DEF RemoveBookmark, TypeOK
    <3> QED BY <3>1, RemovedSeqType DEF TypeOK
  <2>3. (\E path \in Path : DiskChanges(path)) \/ UNCHANGED vars
            => bookmarks' = bookmarks
      BY DEF DiskChanges, vars
  <2> QED BY <2>1, <2>2, <2>3 DEF TypeOK
<1>3. disk' \in SUBSET Path
    BY DEF AddBookmark, RemoveBookmark, DiskChanges, vars, TypeOK
<1>4. TypeOK'
    BY <1>1, <1>2, <1>3 DEF TypeOK
<1> QED BY <1>1, <1>4 DEF IndexCoversBooks, WritableBooksIndexed,
        HandlesBelongToBooks, ReaderSharesArchive, BooksIds

LEMMA NextPreservesInv == LibraryInv /\ [Next]_vars => LibraryInv'
<1> SUFFICES ASSUME LibraryInv, [Next]_vars PROVE LibraryInv'
    OBVIOUS
<1>1. ASSUME NEW id \in Id, NEW book \in BookRecord, AddBook(id, book)
      PROVE  LibraryInv'
    BY <1>1, AddBookPreservesInv
<1>2. ASSUME NEW id \in Id, RemoveBookById(id) PROVE LibraryInv'
    BY <1>2, RemoveBookPreservesInv
<1>3. ASSUME NEW id \in Id, NEW path \in Path, SetPath(id, path) PROVE LibraryInv'
    BY <1>3, SetPathPreservesInv
<1>4. ASSUME NEW id \in Id, GetArchiveById(id) \/ GetReaderById(id) PROVE LibraryInv'
    BY <1>4, OpeningPreservesInv
<1> QED BY <1>1, <1>2, <1>3, <1>4, OthersPreserveInv DEF Next

(* Every reachable library has well-typed containers that agree on their   *)
(* ids (library.cpp:76-181).                                               *)
THEOREM LibraryInvariant == Spec => []LibraryInv
BY InitEstablishesInv, NextPreservesInv, PTL DEF Spec

THEOREM TypeCorrect == Spec => []TypeOK
BY LibraryInvariant, PTL DEF LibraryInv

(* A handle exists only for a book of the library, and the reader and the  *)
(* archive of a book are over one opened file (library.cpp:108, 145, 168). *)
THEOREM HandlesCorrect == Spec => []HandlesAreRight
BY LibraryInvariant, PTL DEF LibraryInv, HandlesAreRight
-----------------------------------------------------------------------------
(* The index is asked for at most as many answers as there are books.      *)
(* That loses nothing as long as it holds no other document: the one       *)
(* subset of the hits with that many elements is the set of all of them.   *)
LEMMA LimitLosesNothing ==
    ASSUME IndexCoversBooks, NEW query \in Query
    PROVE  FilterViaBookDB(query) = {Hits(query)}
<1>1. Hits(query) \subseteq BooksIds /\ BooksIds \subseteq Id
    BY DEF Hits, BooksIds, IndexCoversBooks
<1>2. IsFiniteSet(BooksIds) /\ IsFiniteSet(Hits(query))
    BY <1>1, ConstantsAssumption, FS_Subset
<1> DEFINE h == Cardinality(Hits(query))
           b == Cardinality(BooksIds)
<1>3. h \in Nat /\ b \in Nat /\ h <= b
    BY <1>1, <1>2, FS_Subset, FS_CardinalityType
<1>4. Min({h, b}) = h
  <2>1. \A x \in {h, b} : (\A y \in {h, b} : x =< y) => x = h
      BY <1>3
  <2>2. h \in {h, b} /\ \A y \in {h, b} : h =< y
      BY <1>3
  <2> HIDE DEF h, b
  <2> QED BY <2>1, <2>2 DEF Min
<1>5. \A s \in SUBSET Hits(query) : Cardinality(s) = h <=> s = Hits(query)
    BY <1>2, FS_Subset
<1>6. query # "everything"
    BY ConstantsAssumption
<1>7. FilterViaBookDB(query) = kSubset(Min({h, b}), Hits(query))
    BY <1>6 DEF FilterViaBookDB
<1>8. kSubset(h, Hits(query)) = {Hits(query)}
    BY <1>5 DEF kSubset
<1> QED BY <1>4, <1>7, <1>8

LEMMA FilterFollowsFromInv == LibraryInv => FilterIsRight
<1> SUFFICES ASSUME LibraryInv PROVE FilterIsRight
    OBVIOUS
<1>1. \A query \in Query : FilterViaBookDB(query) = {Hits(query)}
    BY LimitLosesNothing DEF LibraryInv
<1>2. FilterViaBookDB("everything") = {BooksIds}
    BY DEF FilterViaBookDB
<1>3. \A query \in Query : Hits(query) \subseteq BooksIds
    BY DEF Hits, BooksIds, LibraryInv, IndexCoversBooks
<1>4. FilterNeverThrows
    BY <1>1, <1>2, <1>3 DEF FilterNeverThrows
<1>5. ASSUME NEW query \in Query, NEW id \in BooksIds, ~books[id].readOnly
      PROVE  id \in Hits(query) <=> books[id].meta \in Matches[query]
  <2>1. id \in Id /\ bookDB[id] = books[id].meta /\ bookDB[id] # NoDoc
      BY <1>5 DEF LibraryInv, WritableBooksIndexed, IndexCoversBooks, BooksIds
  <2> QED BY <2>1 DEF Hits
<1>6. FilterFindsWritableBooks
    BY <1>1, <1>5 DEF FilterFindsWritableBooks
<1> QED BY <1>4, <1>6 DEF FilterIsRight

(* However many books there are and in whatever order they were added,     *)
(* updated, relocated and removed, filter() neither throws nor misses nor  *)
(* invents a writable book (library.cpp:319-358, 480-508).                 *)
THEOREM FilterCorrect == Spec => []FilterIsRight
BY LibraryInvariant, FilterFollowsFromInv, PTL

-----------------------------------------------------------------------------
(* No call replaces the handle of a book that stays (library.cpp:145-181). *)
THEOREM HandlesKept == Spec => HandlesAreKept
<1>1. LibraryInv /\ [Next]_vars => [HandleKept]_vars
  <2> SUFFICES ASSUME LibraryInv, Next, NEW k \in Id, archives[k] # None
               PROVE  archives'[k] = archives[k] \/ books'[k] = NoBook
      BY DEF HandleKept
  <2> USE DEF LibraryInv, TypeOK
  <2>1. ASSUME NEW id \in Id, RemoveBookById(id)
        PROVE  archives'[k] = archives[k] \/ books'[k] = NoBook
      BY <2>1 DEF RemoveBookById
  <2>2. ASSUME NEW id \in Id, GetArchiveById(id) \/ GetReaderById(id)
        PROVE  archives'[k] = archives[k]
      BY <2>2 DEF GetArchiveById, GetReaderById
  <2>3. ASSUME \/ \E id \in Id : \/ \E book \in BookRecord : AddBook(id, book)
                               \/ \E path \in Path : SetPath(id, path)
               \/ \E mark \in Bookmark : AddBookmark(mark) \/ RemoveBookmark(mark)
               \/ \E path \in Path : DiskChanges(path)
        PROVE  archives'[k] = archives[k]
      BY <2>3 DEF AddBook, SetPath, AddBookmark, RemoveBookmark, DiskChanges
  <2> QED BY <2>1, <2>2, <2>3 DEF Next
<1> QED BY <1>1, LibraryInvariant, PTL DEF Spec, HandlesAreKept

(* The library implements its abstraction: index and map, archives and     *)
(* readers cannot be told from one catalog with one handle per book.       *)
THEOREM LibraryImplementsCatalog == Spec => ImplementsCatalog
<1>1. Init => Catalog!Init
    BY DEF Init, Catalog!Init
<1>2. LibraryInv /\ [Next]_vars => [Catalog!Next]_(Catalog!vars)
  <2> SUFFICES ASSUME LibraryInv, Next
               PROVE  Catalog!Next \/ UNCHANGED Catalog!vars
      BY DEF vars, Catalog!vars
  <2> USE DEF LibraryInv, TypeOK, Catalog!vars
  <2>1. ASSUME NEW id \in Id, NEW book \in BookRecord, AddBook(id, book)
        PROVE  Catalog!Next
    <3>1. book.meta \in Meta
        BY DEF BookRecord
    <3>2. Catalog!Put(id, book.meta)
        BY <2>1 DEF AddBook, Catalog!Put
    <3> QED BY <3>1, <3>2 DEF Catalog!Next
  <2>2. ASSUME NEW id \in Id, RemoveBookById(id)
        PROVE  Catalog!Next
    <3>1. Catalog!Drop(id)
        BY <2>2 DEF RemoveBookById, Catalog!Drop
    <3> QED BY <3>1 DEF Catalog!Next
  <2>3. ASSUME NEW id \in Id, GetArchiveById(id) \/ GetReaderById(id)
        PROVE  Catalog!Next \/ UNCHANGED Catalog!vars
    <3>1. CASE archives[id] = None /\ Openable(id)
      <4>1. bookDB[id] # NoDoc /\ books[id].path \in disk
          BY <3>1 DEF Openable, IndexCoversBooks
      <4>2. \/ archives' = [archives EXCEPT ![id] = books[id].path]
            \/ UNCHANGED archives
          BY <2>3, <3>1 DEF GetArchiveById, GetReaderById
      <4>3. UNCHANGED <<bookDB, disk>>
          BY <2>3 DEF GetArchiveById, GetReaderById
      <4>4. CASE archives' = [archives EXCEPT ![id] = books[id].path]
        <5>1. Catalog!Open(id)
            BY <3>1, <4>1, <4>3, <4>4 DEF Catalog!Open
        <5> QED BY <5>1 DEF Catalog!Next
      <4> QED BY <4>2, <4>3, <4>4
    <3>2. CASE ~(archives[id] = None /\ Openable(id))
      <4>1. UNCHANGED archives
          BY <2>3, <3>2 DEF GetArchiveById, GetReaderById
      <4> QED BY <2>3, <4>1 DEF GetArchiveById, GetReaderById
    <3> QED BY <3>1, <3>2
  <2>4. ASSUME NEW path \in Path, DiskChanges(path)
        PROVE  Catalog!Next
    <3>1. Catalog!DiskChanges
        BY <2>4 DEF DiskChanges, Catalog!DiskChanges
    <3> QED BY <3>1 DEF Catalog!Next
  <2>5. ASSUME \/ \E id \in Id, path \in Path : SetPath(id, path)
               \/ \E mark \in Bookmark : AddBookmark(mark) \/ RemoveBookmark(mark)
        PROVE  UNCHANGED Catalog!vars
      BY <2>5 DEF SetPath, AddBookmark, RemoveBookmark
  <2> QED BY <2>1, <2>2, <2>3, <2>4, <2>5 DEF Next
<1> QED BY <1>1, <1>2, LibraryInvariant, PTL DEF Spec, ImplementsCatalog, Catalog!Spec

-----------------------------------------------------------------------------
(***************************************************************************)
(* The library behind the server.  What a thread knows of a book that the  *)
(* application leaves alone stays true from one step of its handler to the *)
(* next: ServerInvariant says what it is at each place of a handler, and   *)
(* is inductive.  The two properties only speak of answers and follow.     *)
(***************************************************************************)

(* The records that nobody changes, and of those the ones to be served.    *)
StableBooks == [id \in Stable |-> books[id]]

ServedAllAlong(recs) == {id \in Stable : recs[id] # NoBook /\ recs[id].pathValid}

Right(recs, query) ==
    {id \in ServedAllAlong(recs) : query \in Query => recs[id].meta \in Matches[query]}

Answer ==
    [kind : {"none", "book", "search", "catalog"}, name : Name \cup {None},
     query : Query \cup {"everything"}, status : {0, 200, 404, 500},
     from : Path \cup {None}, listed : SUBSET Id, cut : BOOLEAN]

PCs == {"idle", "lookup", "copy", "open", "store", "list", "accept", "next", "query", "dump"}

Thread ==
    [pc : PCs, kind : {"none", "book", "search", "catalog"},
     name : Name \cup {None}, id : Id \cup {None}, path : Path \cup {None},
     query : Query \cup {"everything"},
     todo : SUBSET Id, listed : SUBSET Id, cut : BOOLEAN, answer : Answer]

(* A name leads to a book that is called so, in full if any book is, and   *)
(* every name of a served book leads somewhere.                            *)
MapperRight(recs, map) ==
    /\ DOMAIN map.nameToId \subseteq Name
    /\ \A name \in DOMAIN map.nameToId :
          LET id == map.nameToId[name] IN
          /\ id \in Id
          /\ id \in Stable =>
                /\ id \in ServedAllAlong(recs)
                /\ Called(recs[id].path, name)
                /\ (\E b \in ServedAllAlong(recs) : HumanReadable[recs[b].path] = name)
                      => HumanReadable[recs[id].path] = name
    /\ \A b \in ServedAllAlong(recs) : \A name \in Name :
          Called(recs[b].path, name) => name \in DOMAIN map.nameToId

(* No wrong book is in the list, and none is missing unless it was cut.    *)
Covers(list, recs, query, cut) ==
    /\ list \cap Stable \subseteq Right(recs, query)
    /\ ~cut => Right(recs, query) \subseteq list

HasBook(t) == t.pc \in {"lookup", "copy", "open", "store"}

(* Which handler can be where, and the book that it asked the mapper for.  *)
RequestOK(t, map) ==
    t.pc # "idle" =>
        /\ t.kind # "none"
        /\ t.kind = "search" => t.query = "everything" /\ ~t.cut
        /\ t.kind = "book" => /\ HasBook(t)
                              /\ t.name \in DOMAIN map.nameToId
                              /\ t.id = map.nameToId[t.name]
        /\ HasBook(t) => t.id \in Id /\ t.kind # "catalog"
        /\ t.pc \in {"next", "query"} => t.kind = "search"
        /\ t.pc = "dump" => t.kind = "catalog"

(* The path in a copy of a record is the one that the library has.         *)
FileOK(t, recs) ==
    t.pc \in {"open", "store"} =>
        /\ t.path \in Path
        /\ t.id \in Stable => t.id \in ServedAllAlong(recs) /\ t.path = recs[t.id].path

(* How far a list has come: what is done and what is still to do.          *)
ListOK(t, recs) ==
    /\ t.pc = "list" => t.listed = {}
    /\ t.pc = "accept" =>
          /\ t.listed \cap Stable \subseteq Right(recs, t.query)
          /\ t.todo \cap ServedAllAlong(recs) \subseteq Right(recs, t.query)
          /\ ~t.cut => Right(recs, t.query) \subseteq t.todo \cup t.listed
    /\ t.pc \in {"next", "dump"} => Covers(t.todo \cup t.listed, recs, t.query, t.cut)
    /\ HasBook(t) /\ t.kind = "search" =>
          Covers(t.todo \cup t.listed \cup {t.id}, recs, t.query, t.cut)
    /\ t.pc = "query" => Covers(t.listed, recs, t.query, t.cut)

(* A book that is left alone may fail to open, but is never missing.       *)
AnswerRight(a, recs, map) ==
    /\ a.kind = "book" =>
          /\ a.name \in Name
          /\ IF a.name \in DOMAIN map.nameToId
             THEN map.nameToId[a.name] \in Stable =>
                     /\ a.status \in {200, 500}
                     /\ a.status = 200 => a.from = recs[map.nameToId[a.name]].path
             ELSE a.status = 404
    /\ a.kind = "search" => a.query = "everything" /\ ~a.cut
    /\ a.kind \in {"search", "catalog"} /\ a.status = 200 =>
          Covers(a.listed, recs, a.query, a.cut)

ThreadOK(t, recs, map) ==
    /\ t \in Thread
    /\ RequestOK(t, map) /\ FileOK(t, recs) /\ ListOK(t, recs)
    /\ AnswerRight(t.answer, recs, map)

LibraryOK ==
    /\ books \in [Id -> BookRecord \cup {NoBook}]
    /\ bookDB \in [Id -> Meta \cup {NoDoc}]
    /\ archives \in [Id -> Path \cup {None}]
    /\ \A id \in Stable :
          /\ bookDB[id] = IF books[id] = NoBook THEN NoDoc ELSE books[id].meta
          /\ archives[id] # None => books[id] # NoBook /\ archives[id] = books[id].path

AppOK ==
    /\ app.pc \in {"idle", "add", "handles", "erase"}
    /\ app.pc # "idle" => app.id \in AppIds
    /\ app.pc = "add" => app.book \in BookRecord

ServerInvariant ==
    /\ LibraryOK
    /\ AppOK
    /\ MapperRight(StableBooks, mapper)
    /\ worker \in [Worker -> Thread]
    /\ \A w \in Worker : ThreadOK(worker[w], StableBooks, mapper)

-----------------------------------------------------------------------------
(***************************************************************************)
(* The name mapper.                                                        *)
(***************************************************************************)

PartialMap(S, T) == UNION {[D -> T] : D \in SUBSET S}

LEMMA PutIs ==
    ASSUME NEW S, NEW T, NEW map \in PartialMap(S, T), NEW key \in S, NEW value \in T
    PROVE  /\ Put(map, key, value) \in PartialMap(S, T)
           /\ DOMAIN Put(map, key, value) = DOMAIN map \cup {key}
           /\ \A k \in DOMAIN map \cup {key} :
                 Put(map, key, value)[k] = IF k = key THEN value ELSE map[k]
<1>1. PICK D \in SUBSET S : map \in [D -> T]
    BY DEF PartialMap
<1>2. Put(map, key, value) \in [D \cup {key} -> T]
    BY <1>1 DEF Put
<1>3. D \cup {key} \in SUBSET S
    OBVIOUS
<1>4. Put(map, key, value) \in PartialMap(S, T)
    BY <1>2, <1>3 DEF PartialMap
<1> QED BY <1>1, <1>2, <1>4 DEF Put

(* The two maps when the first k of the books have been named: a name that *)
(* is in the map belongs to one of them, in full if any has it in full,    *)
(* and all their names are there.                                          *)
Mapper == [idToName : PartialMap(Id, Name), nameToId : PartialMap(Name, Id)]

NamesAreRight(map, ids, k, pathOf) ==
    \A name \in Name :
        /\ name \in DOMAIN map.nameToId =>
              LET id == map.nameToId[name] IN
              /\ \E i \in 1 .. k : ids[i] = id
              /\ Called(pathOf[id], name)
              /\ (\E i \in 1 .. k : HumanReadable[pathOf[ids[i]]] = name)
                    => HumanReadable[pathOf[id]] = name
        /\ (\E i \in 1 .. k : Called(pathOf[ids[i]], name)) => name \in DOMAIN map.nameToId

LEMMA AddNameIs ==
    ASSUME NEW map \in Mapper, NEW id \in Id, NEW full \in Name
    PROVE  /\ AddName(map, id, full) \in Mapper
           /\ full \in DOMAIN AddName(map, id, full).nameToId
           /\ AddName(map, id, full).nameToId[full] = id
           /\ WithAlias => Alias[full] \in DOMAIN AddName(map, id, full).nameToId
           /\ \A name \in DOMAIN map.nameToId :
                 /\ name \in DOMAIN AddName(map, id, full).nameToId
                 /\ name # full =>
                       AddName(map, id, full).nameToId[name] = map.nameToId[name]
           /\ \A name \in DOMAIN AddName(map, id, full).nameToId :
                 name \notin DOMAIN map.nameToId /\ name # full =>
                    /\ WithAlias /\ name = Alias[full]
                    /\ AddName(map, id, full).nameToId[name] = id
<1> DEFINE named == Put(map.nameToId, full, id)
           both == IF WithAlias /\ Alias[full] \notin DOMAIN named
                   THEN Put(named, Alias[full], id) ELSE named
           byId == Put(map.idToName, id, full)
<1>1. map.nameToId \in PartialMap(Name, Id) /\ map.idToName \in PartialMap(Id, Name)
    BY DEF Mapper
<1>2. Alias[full] \in Name
    BY ServerAssumption
<1>3a. ASSUME NEW m \in PartialMap(Name, Id), NEW key \in Name
       PROVE  /\ Put(m, key, id) \in PartialMap(Name, Id)
              /\ DOMAIN Put(m, key, id) = DOMAIN m \cup {key}
              /\ \A k \in DOMAIN m \cup {key} :
                    Put(m, key, id)[k] = IF k = key THEN id ELSE m[k]
    BY PutIs
<1>3. /\ named \in PartialMap(Name, Id) /\ DOMAIN named = DOMAIN map.nameToId \cup {full}
      /\ \A k \in DOMAIN map.nameToId \cup {full} :
            named[k] = IF k = full THEN id ELSE map.nameToId[k]
    BY <1>1, <1>3a
<1>4. byId \in PartialMap(Id, Name)
    BY <1>1, PutIs
<1> HIDE DEF named, byId
<1>5. /\ Put(named, Alias[full], id) \in PartialMap(Name, Id)
      /\ DOMAIN Put(named, Alias[full], id) = DOMAIN named \cup {Alias[full]}
      /\ \A k \in DOMAIN named \cup {Alias[full]} :
            Put(named, Alias[full], id)[k] = IF k = Alias[full] THEN id ELSE named[k]
    BY <1>2, <1>3, <1>3a
<1>6. AddName(map, id, full) = [idToName |-> byId, nameToId |-> both]
    BY DEF AddName, named, byId
<1>7. both \in PartialMap(Name, Id)
    BY <1>3, <1>5
<1>8. AddName(map, id, full) \in Mapper /\ AddName(map, id, full).nameToId = both
    BY <1>4, <1>6, <1>7 DEF Mapper
<1>9. CASE WithAlias /\ Alias[full] \notin DOMAIN named
    BY <1>3, <1>5, <1>8, <1>9
<1>10. CASE ~(WithAlias /\ Alias[full] \notin DOMAIN named)
    BY <1>3, <1>8, <1>10
<1> QED BY <1>9, <1>10

LEMMA MapperIsRight ==
    ASSUME NEW ids \in Seq(Id), NEW pathOf,
           \A i \in 1 .. Len(ids) : pathOf[ids[i]] \in Path
    PROVE  /\ HumanReadableNameMapper(ids, pathOf) \in Mapper
           /\ NamesAreRight(HumanReadableNameMapper(ids, pathOf), ids, Len(ids), pathOf)
<1> DEFINE Op(map, id) == AddName(map, id, HumanReadable[pathOf[id]])
           N == Len(ids)
           empty == [idToName |-> <<>>, nameToId |-> <<>>]
           Eqn(iter) == iter = [s \in SUBSET (DOMAIN ids) |->
                           IF s = {} THEN empty ELSE Op(iter[s \ {Max(s)}], ids[Max(s)])]
           it == CHOOSE iter : Eqn(iter)
           step == [i \in 1 .. N |-> [map \in Mapper |-> Op(map, ids[i])]]
<1>1. HumanReadableNameMapper(ids, pathOf) = it[DOMAIN ids]
    BY DEF HumanReadableNameMapper, FoldLeft, MapThenFoldSet
<1>2. N \in Nat /\ DOMAIN ids = 1 .. N /\ \A i \in 1 .. N : ids[i] \in Id
    BY LenProperties, ElementOfSeq
<1>3. \A i \in 1 .. N : HumanReadable[pathOf[ids[i]]] \in Name
    BY ServerAssumption
<1>4. \A map \in Mapper, i \in 1 .. N : Op(map, ids[i]) \in Mapper
    BY <1>2, <1>3, AddNameIs
<1>5. empty \in Mapper
  <2>1. \A S, T : <<>> \in PartialMap(S, T)
    <3> SUFFICES ASSUME NEW S, NEW T PROVE <<>> \in PartialMap(S, T)
        OBVIOUS
    <3>1. <<>> \in [{} -> T] /\ {} \in SUBSET S
        OBVIOUS
    <3> QED BY <3>1 DEF PartialMap
  <2> QED BY <2>1 DEF Mapper
<1>6. DOMAIN empty.nameToId = {}
    OBVIOUS
<1> HIDE DEF Op
<1>7. step \in [1 .. N -> [Mapper -> Mapper]]
    BY <1>4
<1>8. \A map \in Mapper, i \in 1 .. N : step[i][map] = Op(map, ids[i])
    OBVIOUS
<1> HIDE DEF step, N, empty
<1>9. PICK iter \in [SUBSET (1 .. N) -> Mapper] : Iterates(iter, N, empty, step)
    BY <1>2, <1>5, <1>7, IterationExists
<1>10. Eqn(iter)
  <2>1. ASSUME NEW s \in SUBSET (1 .. N), s # {}
        PROVE  step[Max(s)][iter[s \ {Max(s)}]] = Op(iter[s \ {Max(s)}], ids[Max(s)])
    <3>1. Max(s) \in 1 .. N
        BY <1>2, <2>1, LargestNumber
    <3> QED BY <1>8, <1>9, <3>1
  <2> QED BY <1>2, <1>9, <2>1 DEF Iterates
<1>11. Eqn(it)
    BY <1>10
<1> HIDE DEF it
<1>12. it[{}] = empty
    BY <1>11
<1> DEFINE Good(k) == {map \in Mapper : NamesAreRight(map, ids, k, pathOf)}
<1>13. ASSUME NEW k \in 1 .. N, it[1 .. k - 1] \in Good(k - 1)
       PROVE  it[1 .. k] \in Good(k)
  <2> DEFINE map == it[1 .. k - 1]
             full == HumanReadable[pathOf[ids[k]]]
             new == AddName(map, ids[k], full)
  <2>1. 1 .. k # {} /\ Max(1 .. k) = k /\ (1 .. k) \ {k} = 1 .. k - 1
      BY NumbersUpTo
  <2>2. 1 .. k \in SUBSET (DOMAIN ids)
      BY <1>2
  <2>3. it[1 .. k] = new
      BY <1>11, <2>1, <2>2 DEF Op
  <2>4. map \in Mapper /\ NamesAreRight(map, ids, k - 1, pathOf)
      BY <1>13
  <2>5. ids[k] \in Id /\ full \in Name
      BY <1>2, <1>3
  <2>6. \A i \in 1 .. k : i = k \/ i \in 1 .. k - 1
      BY <1>2
  <2>6a. \A i \in 1 .. k - 1 : i \in 1 .. k
      BY <1>2
  <2>6b. k \in 1 .. k
      BY <1>2
  <2>7. Called(pathOf[ids[k]], full) /\ (WithAlias => Called(pathOf[ids[k]], Alias[full]))
      BY DEF Called
  <2>8. \A name : Called(pathOf[ids[k]], name) => name = full \/ (WithAlias /\ name = Alias[full])
      BY DEF Called
  <2> HIDE DEF map
  <2>9. /\ new \in Mapper
        /\ full \in DOMAIN new.nameToId /\ new.nameToId[full] = ids[k]
        /\ WithAlias => Alias[full] \in DOMAIN new.nameToId
        /\ \A name \in DOMAIN map.nameToId :
              /\ name \in DOMAIN new.nameToId
              /\ name # full => new.nameToId[name] = map.nameToId[name]
        /\ \A name \in DOMAIN new.nameToId :
              name \notin DOMAIN map.nameToId /\ name # full =>
                 WithAlias /\ name = Alias[full] /\ new.nameToId[name] = ids[k]
      BY <2>4, <2>5, AddNameIs
  <2> HIDE DEF new
  <2>10. ASSUME NEW name \in Name, \E i \in 1 .. k : Called(pathOf[ids[i]], name)
         PROVE  name \in DOMAIN new.nameToId
    <3>1. PICK i \in 1 .. k : Called(pathOf[ids[i]], name)
        BY <2>10
    <3>2. CASE i = k
        BY <2>8, <2>9, <3>1, <3>2, Zenon
    <3>3. CASE i \in 1 .. k - 1
      <4>1. name \in DOMAIN map.nameToId
          BY <2>4, <3>1, <3>3 DEF NamesAreRight
      <4> QED BY <2>9, <4>1
    <3> QED BY <2>6, <3>2, <3>3
  <2>11. ASSUME NEW name \in Name, name \in DOMAIN new.nameToId
         PROVE  LET id == new.nameToId[name] IN
                /\ \E i \in 1 .. k : ids[i] = id
                /\ Called(pathOf[id], name)
                /\ (\E i \in 1 .. k : HumanReadable[pathOf[ids[i]]] = name)
                      => HumanReadable[pathOf[id]] = name
    <3> DEFINE id == new.nameToId[name]
    <3>1. CASE name = full
      <4>1. id = ids[k]
          BY <2>9, <3>1
      <4> HIDE DEF id
      <4>2. HumanReadable[pathOf[id]] = name
          BY <3>1, <4>1
      <4> QED BY <2>6b, <2>7, <3>1, <4>1, <4>2 DEF id
    <3>2. CASE name # full /\ name \in DOMAIN map.nameToId
      <4>1. id = map.nameToId[name]
          BY <2>9, <3>2
      <4> HIDE DEF id
      <4>2. /\ \E i \in 1 .. k - 1 : ids[i] = id
            /\ Called(pathOf[id], name)
            /\ (\E i \in 1 .. k - 1 : HumanReadable[pathOf[ids[i]]] = name)
                  => HumanReadable[pathOf[id]] = name
          BY <2>4, <3>2, <4>1 DEF NamesAreRight
      <4>3. \E i \in 1 .. k : ids[i] = id
          BY <2>6a, <4>2
      <4>4. ASSUME NEW i \in 1 .. k, HumanReadable[pathOf[ids[i]]] = name
            PROVE  HumanReadable[pathOf[id]] = name
        <5>1. i # k
            BY <3>2, <4>4
        <5> QED BY <2>6, <4>2, <4>4, <5>1
      <4> QED BY <4>2, <4>3, <4>4 DEF id
    <3>3. CASE name # full /\ name \notin DOMAIN map.nameToId
      <4>1. WithAlias /\ name = Alias[full] /\ id = ids[k]
          BY <2>9, <2>11, <3>3
      <4> HIDE DEF id
      <4>2. ASSUME NEW i \in 1 .. k, HumanReadable[pathOf[ids[i]]] = name
            PROVE  FALSE
        <5>1. i # k
            BY <3>3, <4>2
        <5>2. i \in 1 .. k - 1
            BY <2>6, <5>1
        <5>3. Called(pathOf[ids[i]], name)
            BY <4>2 DEF Called
        <5>4. name \in DOMAIN map.nameToId
            BY <2>4, <5>2, <5>3 DEF NamesAreRight
        <5> QED BY <3>3, <5>4
      <4> QED BY <2>6b, <2>7, <4>1, <4>2 DEF id
    <3> QED BY <3>1, <3>2, <3>3
  <2>12. NamesAreRight(new, ids, k, pathOf)
      BY <2>10, <2>11 DEF NamesAreRight
  <2> QED BY <2>3, <2>9, <2>12
<1>14. empty \in Good(0)
  <2>1. 1 .. 0 = {}
      OBVIOUS
  <2> QED BY <1>5, <1>6, <2>1 DEF NamesAreRight
<1> HIDE DEF Good
<1> DEFINE P == [k \in 0 .. N |-> Good(k)]
<1>15. it[1 .. N] \in P[N]
  <2>1. it[{}] \in P[0]
      BY <1>2, <1>12, <1>14
  <2>2. ASSUME NEW k \in 1 .. N, it[1 .. k - 1] \in P[k - 1] PROVE it[1 .. k] \in P[k]
    <3>1. k \in 0 .. N /\ k - 1 \in 0 .. N
        BY <1>2
    <3> QED BY <1>13, <2>2, <3>1
  <2> HIDE DEF P
  <2> QED BY <1>2, <2>1, <2>2, IterationStays
<1>16. it[1 .. N] \in Good(N)
    BY <1>2, <1>15
<1> QED BY <1>1, <1>2, <1>16 DEF Good, N

-----------------------------------------------------------------------------
(***************************************************************************)
(* Library::filter with the handlers' filter.                              *)
(***************************************************************************)

LEMMA FilteredIs ==
    /\ Filtered \in Seq(Id)
    /\ \A i \in 1 .. Len(Filtered) : Servable(Filtered[i])
    /\ \A id \in Id : Servable(id) => \E i \in 1 .. Len(Filtered) : Filtered[i] = id
<1> DEFINE S == {id \in BooksIds : Servable(id)}
           N == Len(IdOrder)
<1>1. N \in Nat /\ \A id \in Id : \E k \in 1 .. N : IdOrder[k] = id
    BY ServerAssumption, LenProperties
<1>2. \A id \in Id : Servable(id) => id \in S
    BY DEF Servable, BooksIds
<1>3. Filtered \in Seq(Id) /\ \E at : Picks(Filtered, at, IdOrder, S, N)
    BY ServerAssumption, OnlyInIs DEF Filtered
<1>4. PICK at : Picks(Filtered, at, IdOrder, S, N)
    BY <1>3
<1>5. \A i \in 1 .. Len(Filtered) : Filtered[i] = IdOrder[at[i]] /\ Filtered[i] \in S
    BY <1>4 DEF Picks
<1>6. \A k \in 1 .. N : IdOrder[k] \in S => \E i \in 1 .. Len(Filtered) : at[i] = k
    BY <1>4 DEF Picks
<1>7. ASSUME NEW id \in Id, Servable(id) PROVE \E i \in 1 .. Len(Filtered) : Filtered[i] = id
  <2>1. PICK k \in 1 .. N : IdOrder[k] = id
      BY <1>1
  <2>2. IdOrder[k] \in S
      BY <1>2, <1>7, <2>1
  <2>3. PICK i \in 1 .. Len(Filtered) : at[i] = k
      BY <1>6, <2>2
  <2> QED BY <1>5, <2>1, <2>3
<1> QED BY <1>3, <1>5, <1>7

-----------------------------------------------------------------------------
(* What Goto makes of a thread.                                            *)
Moved(t, pc, local) ==
    [f \in DOMAIN t |-> IF f = "pc" THEN pc ELSE IF f \in DOMAIN local THEN local[f] ELSE t[f]]

LEMMA ThreadFields ==
    ASSUME NEW t \in Thread
    PROVE  /\ DOMAIN t = {"pc", "kind", "name", "id", "path", "query", "todo", "listed",
                          "cut", "answer"}
           /\ t = [f \in DOMAIN t |-> t[f]]
BY DEF Thread

LEMMA MovedIs ==
    ASSUME NEW t \in Thread, NEW pc \in PCs, NEW local,
           DOMAIN local \subseteq {"id", "path", "todo", "listed", "cut"},
           "id" \in DOMAIN local => local["id"] \in Id,
           "path" \in DOMAIN local => local["path"] \in Path,
           "todo" \in DOMAIN local => local["todo"] \in SUBSET Id,
           "listed" \in DOMAIN local => local["listed"] \in SUBSET Id,
           "cut" \in DOMAIN local => local["cut"] \in BOOLEAN
    PROVE  LET new == Moved(t, pc, local) IN
           /\ new \in Thread
           /\ new.pc = pc /\ new.kind = t.kind /\ new.name = t.name /\ new.query = t.query
           /\ new.answer = t.answer
           /\ new.id = IF "id" \in DOMAIN local THEN local["id"] ELSE t.id
           /\ new.path = IF "path" \in DOMAIN local THEN local["path"] ELSE t.path
           /\ new.todo = IF "todo" \in DOMAIN local THEN local["todo"] ELSE t.todo
           /\ new.listed = IF "listed" \in DOMAIN local THEN local["listed"] ELSE t.listed
           /\ new.cut = IF "cut" \in DOMAIN local THEN local["cut"] ELSE t.cut
<1> DEFINE Own(f) == IF f \in DOMAIN local THEN local[f] ELSE t[f]
           r == [pc |-> pc, kind |-> t.kind, name |-> t.name, id |-> Own("id"),
                 path |-> Own("path"), query |-> t.query, todo |-> Own("todo"),
                 listed |-> Own("listed"), cut |-> Own("cut"), answer |-> t.answer]
<1>1. /\ Own("id") \in Id \cup {None} /\ Own("path") \in Path \cup {None}
      /\ Own("todo") \in SUBSET Id /\ Own("listed") \in SUBSET Id
      /\ Own("cut") \in BOOLEAN
    BY DEF Thread
<1>2. /\ t["kind"] = t.kind /\ t["name"] = t.name /\ t["query"] = t.query
      /\ t["answer"] = t.answer
    OBVIOUS
<1>3. \A f \in {"pc", "kind", "name", "id", "path", "query", "todo", "listed", "cut", "answer"} :
          r[f] = IF f = "pc" THEN pc ELSE Own(f)
    OBVIOUS
<1> HIDE DEF Own
<1>4. r = [f \in DOMAIN t |-> r[f]]
    BY ThreadFields
<1>5. r \in Thread
    BY <1>1 DEF Thread, PCs
<1>6. r = Moved(t, pc, local)
  <2> HIDE DEF r
  <2> QED BY <1>3, <1>4, ThreadFields DEF Moved, Own
<1> QED BY <1>5, <1>6 DEF Own

-----------------------------------------------------------------------------
LEMMA PathValidIsEnough ==
    ASSUME NEW book \in BookRecord
    PROVE  /\ Accept(LocalAndValid, book) <=> book.pathValid
           /\ book.pathValid \in BOOLEAN /\ book.meta \in Meta
           /\ book.pathValid => book.path \in Path
BY DEF BookRecord, Accept, LocalAndValid, Allows

LEMMA IdleIsOK == Idle \in Thread /\ NoAnswer \in Answer /\ Idle.answer = NoAnswer /\ Idle.listed = {}
<1>1. NoAnswer \in Answer
    BY DEF NoAnswer, Answer
<1> QED BY <1>1 DEF Idle, Thread, PCs

LEMMA AnsweredOK ==
    ASSUME NEW t \in Thread, NEW status \in {200, 404, 500}, NEW from \in Path \cup {None},
           NEW listed \in SUBSET Id, NEW recs, NEW map, NEW new,
           new = [Idle EXCEPT !.answer =
                     [kind |-> t.kind, name |-> t.name, query |-> t.query,
                      status |-> status, from |-> from, listed |-> listed, cut |-> t.cut]],
           AnswerRight([kind |-> t.kind, name |-> t.name, query |-> t.query,
                        status |-> status, from |-> from, listed |-> listed, cut |-> t.cut],
                       recs, map)
    PROVE  ThreadOK(new, recs, map)
<1> DEFINE a == [kind |-> t.kind, name |-> t.name, query |-> t.query,
                 status |-> status, from |-> from, listed |-> listed, cut |-> t.cut]
<1>0. a \in Answer
    BY DEF Thread, Answer
<1>1. new \in Thread
  <2> HIDE DEF a
  <2>1. new = [Idle EXCEPT !.answer = a]
      BY DEF a
  <2> QED BY <1>0, <2>1, IdleIsOK DEF Thread
<1>2. new.pc = "idle"
    BY DEF Idle
<1>3. new.answer = [kind |-> t.kind, name |-> t.name, query |-> t.query,
                    status |-> status, from |-> from, listed |-> listed, cut |-> t.cut]
    BY DEF Idle
<1> QED BY <1>1, <1>2, <1>3 DEF ThreadOK, RequestOK, HasBook, FileOK, ListOK

(* The threads after one of them has moved.                                *)
ThreadsOK(threads) ==
    /\ threads \in [Worker -> Thread]
    /\ \A w \in Worker : ThreadOK(threads[w], StableBooks, mapper)

LEMMA OneThreadMoves ==
    ASSUME ServerInvariant, NEW w \in Worker, NEW new, ThreadOK(new, StableBooks, mapper),
           worker' = [worker EXCEPT ![w] = new]
    PROVE  ThreadsOK(worker')
<1>1. worker' \in [Worker -> Thread]
    BY DEF ServerInvariant, ThreadOK
<1>2. \A v \in Worker : worker'[v] = new \/ worker'[v] = worker[v]
    BY DEF ServerInvariant
<1>3. \A v \in Worker : ThreadOK(worker'[v], StableBooks, mapper)
    BY <1>2 DEF ServerInvariant
<1> QED BY <1>1, <1>3 DEF ThreadsOK

(* The books that are left alone and the mapper never change.              *)
LEMMA ThreadsAreEnough ==
    ASSUME ServerInvariant, ThreadsOK(worker'), LibraryOK', AppOK', mapper' = mapper,
           \A id \in Stable : books'[id] = books[id]
    PROVE  ServerInvariant'
<1>1. StableBooks' = StableBooks
    BY DEF StableBooks, Stable
<1> QED BY <1>1 DEF ServerInvariant, ThreadsOK

LEMMA OnlyThreadsMove ==
    ASSUME ServerInvariant, ThreadsOK(worker'),
           UNCHANGED <<books, bookDB, archives, app, mapper>>
    PROVE  ServerInvariant'
<1>1. LibraryOK' /\ AppOK'
    BY DEF ServerInvariant, LibraryOK, AppOK
<1> QED BY <1>1, ThreadsAreEnough

LEMMA GotoKeeps ==
    ASSUME ServerInvariant, NEW w \in Worker, NEW pc, NEW local, Goto(w, pc, local),
           ThreadOK(Moved(worker[w], pc, local), StableBooks, mapper)
    PROVE  ThreadsOK(worker')
<1> DEFINE new == Moved(worker[w], pc, local)
<1>1. worker' = [worker EXCEPT ![w] = new]
  <2>1. worker' = [worker EXCEPT ![w] =
                      [f \in DOMAIN worker[w] |-> IF f = "pc" THEN pc
                                                  ELSE IF f \in DOMAIN local THEN local[f]
                                                  ELSE worker[w][f]]]
      BY DEF Goto, ServerInvariant
  <2> QED BY <2>1 DEF Moved
<1> HIDE DEF new
<1>2. ThreadOK(new, StableBooks, mapper)
    BY DEF new
<1> QED BY <1>1, <1>2, OneThreadMoves

LEMMA ReplyKeeps ==
    ASSUME ServerInvariant, NEW w \in Worker, NEW status \in {200, 404, 500},
           NEW from \in Path \cup {None}, NEW listed \in SUBSET Id,
           Reply(w, status, from, listed),
           AnswerRight([kind |-> worker[w].kind, name |-> worker[w].name,
                        query |-> worker[w].query, status |-> status, from |-> from,
                        listed |-> listed, cut |-> worker[w].cut], StableBooks, mapper)
    PROVE  ThreadsOK(worker')
<1> DEFINE t == worker[w]
           new == [Idle EXCEPT !.answer =
                      [kind |-> t.kind, name |-> t.name, query |-> t.query,
                       status |-> status, from |-> from, listed |-> listed, cut |-> t.cut]]
<1>1. worker' = [worker EXCEPT ![w] = new]
    BY DEF Reply
<1>2. t \in Thread
    BY DEF ServerInvariant
<1>3. ThreadOK(new, StableBooks, mapper)
    BY <1>2, AnsweredOK
<1> HIDE DEF new
<1> QED BY <1>1, <1>3, OneThreadMoves

(* A failed request: for a book, with 404 only if the application has its  *)
(* hands on it.                                                            *)
LEMMA FailKeeps ==
    ASSUME ServerInvariant, NEW w \in Worker, NEW status \in {404, 500}, Fail(w, status),
           worker[w].pc # "idle",
           worker[w].kind = "book" /\ status = 404 => worker[w].id \notin Stable
    PROVE  ThreadsOK(worker')
<1> DEFINE t == worker[w]
           a == [kind |-> t.kind, name |-> t.name, query |-> t.query,
                 status |-> status, from |-> None, listed |-> {}, cut |-> t.cut]
<1>1. t \in Thread /\ RequestOK(t, mapper) /\ DOMAIN mapper.nameToId \subseteq Name
    BY DEF ServerInvariant, ThreadOK, MapperRight
<1>2. /\ a.kind = t.kind /\ a.name = t.name /\ a.query = t.query /\ a.status = status
      /\ a.cut = t.cut
    OBVIOUS
<1> HIDE DEF a
<1>3. AnswerRight(a, StableBooks, mapper)
    BY <1>1, <1>2 DEF AnswerRight, RequestOK
<1>4. Reply(w, status, None, {})
    BY DEF Fail
<1>5. status \in {200, 404, 500} /\ None \in Path \cup {None} /\ {} \in SUBSET Id
    OBVIOUS
<1> QED BY <1>3, <1>4, <1>5, ReplyKeeps DEF a

LEMMA RequestKeeps ==
    ASSUME ServerInvariant, NEW w \in Worker, Request(w)
    PROVE  ServerInvariant'
<1>1. worker \in [Worker -> Thread] /\ MapperRight(StableBooks, mapper)
    BY DEF ServerInvariant
<1>2. UNCHANGED <<books, bookDB, archives, app, mapper>>
    BY DEF Request, RequestBook, RequestSearch, RequestCatalog, library
<1>3. Idle \in Thread /\ Idle.answer.kind = "none"
    BY IdleIsOK DEF NoAnswer
<1>4. ASSUME NEW name \in Name, RequestBook(w, name) PROVE ServerInvariant'
  <2>1. CASE name \in DOMAIN mapper.nameToId
    <3> DEFINE new == [Idle EXCEPT !.pc = "lookup", !.kind = "book", !.name = name,
                                   !.id = mapper.nameToId[name]]
    <3>1. worker' = [worker EXCEPT ![w] = new]
        BY <1>4, <2>1 DEF RequestBook
    <3>2. mapper.nameToId[name] \in Id
        BY <1>1, <2>1 DEF MapperRight
    <3>3. new \in Thread /\ new.answer.kind = "none"
        BY <1>3, <3>2 DEF Thread, PCs
    <3>4. /\ new.pc = "lookup" /\ new.kind = "book" /\ new.name = name
          /\ new.id = mapper.nameToId[name]
        BY DEF Idle
    <3> HIDE DEF new
    <3>5. ThreadOK(new, StableBooks, mapper)
        BY <2>1, <3>2, <3>3, <3>4 DEF ThreadOK, RequestOK, HasBook, FileOK, ListOK, AnswerRight
    <3> QED BY <1>2, <3>1, <3>5, OneThreadMoves, OnlyThreadsMove
  <2>2. CASE name \notin DOMAIN mapper.nameToId
    <3> DEFINE a == [NoAnswer EXCEPT !.kind = "book", !.name = name, !.status = 404]
               new == [Idle EXCEPT !.answer = a]
    <3>1. worker' = [worker EXCEPT ![w] = new]
        BY <1>4, <2>2 DEF RequestBook
    <3>2. new \in Thread
      <4>1. a \in Answer
        <5> DEFINE b == [NoAnswer EXCEPT !.kind = "book"]
                   c == [b EXCEPT !.name = name]
        <5>1. b \in Answer
            BY IdleIsOK DEF Answer
        <5> HIDE DEF b
        <5>2. c \in Answer
            BY <5>1 DEF Answer
        <5> HIDE DEF c
        <5>3. [c EXCEPT !.status = 404] \in Answer
            BY <5>2 DEF Answer
        <5> QED BY <5>3 DEF b, c
      <4> HIDE DEF a
      <4> QED BY <1>3, <4>1 DEF Thread
    <3>3. new.pc = "idle" /\ new.answer = a
        BY DEF Idle
    <3>4. a.kind = "book" /\ a.name = name /\ a.status = 404
        BY DEF NoAnswer
    <3> HIDE DEF new, a
    <3>5. ThreadOK(new, StableBooks, mapper)
        BY <2>2, <3>2, <3>3, <3>4 DEF ThreadOK, RequestOK, HasBook, FileOK, ListOK, AnswerRight
    <3> QED BY <1>2, <3>1, <3>5, OneThreadMoves, OnlyThreadsMove
  <2> QED BY <2>1, <2>2
<1>5. ASSUME RequestSearch(w) PROVE ServerInvariant'
  <2> DEFINE new == [Idle EXCEPT !.pc = "list", !.kind = "search"]
  <2>1. worker' = [worker EXCEPT ![w] = new]
      BY <1>5 DEF RequestSearch
  <2>2. new \in Thread /\ new.answer.kind = "none" /\ new.listed = {}
      BY <1>3, IdleIsOK DEF Thread, PCs
  <2>3. new.pc = "list" /\ new.kind = "search" /\ new.query = "everything" /\ new.cut = FALSE
      BY DEF Idle
  <2> HIDE DEF new
  <2>4. ThreadOK(new, StableBooks, mapper)
      BY <2>2, <2>3 DEF ThreadOK, RequestOK, HasBook, FileOK, ListOK, AnswerRight
  <2> QED BY <1>2, <2>1, <2>4, OneThreadMoves, OnlyThreadsMove
<1>6. ASSUME NEW query \in Query \cup {"everything"}, RequestCatalog(w, query)
      PROVE  ServerInvariant'
  <2> DEFINE new == [Idle EXCEPT !.pc = "list", !.kind = "catalog", !.query = query]
  <2>1. worker' = [worker EXCEPT ![w] = new]
      BY <1>6 DEF RequestCatalog
  <2>2. new \in Thread /\ new.answer.kind = "none" /\ new.listed = {}
      BY <1>3, IdleIsOK DEF Thread, PCs
  <2>3. new.pc = "list" /\ new.kind = "catalog"
      BY DEF Idle
  <2> HIDE DEF new
  <2>4. ThreadOK(new, StableBooks, mapper)
      BY <2>2, <2>3 DEF ThreadOK, RequestOK, HasBook, FileOK, ListOK, AnswerRight
  <2> QED BY <1>2, <2>1, <2>4, OneThreadMoves, OnlyThreadsMove
<1> QED BY <1>4, <1>5, <1>6 DEF Request

-----------------------------------------------------------------------------
LEMMA StableIs ==
    ASSUME LibraryOK, NEW id \in Stable
    PROVE  /\ id \in Id /\ StableBooks[id] = books[id]
           /\ id \in ServedAllAlong(StableBooks) <=> Servable(id)
           /\ id \in ServedAllAlong(StableBooks) <=> books[id] # NoBook /\ books[id].pathValid
<1>1. id \in Id /\ StableBooks[id] = books[id]
    BY DEF Stable, StableBooks
<1>2. books[id] \in BookRecord \/ books[id] = NoBook
    BY <1>1 DEF LibraryOK
<1>3. Servable(id) <=> books[id] # NoBook /\ books[id].pathValid
    BY <1>2, PathValidIsEnough DEF Servable
<1>4. id \in ServedAllAlong(StableBooks) <=> books[id] # NoBook /\ books[id].pathValid
    BY <1>1 DEF ServedAllAlong
<1> QED BY <1>1, <1>3, <1>4

LEMMA ThreadIs ==
    ASSUME ServerInvariant, NEW w \in Worker
    PROVE  /\ worker[w] \in Thread /\ RequestOK(worker[w], mapper)
           /\ FileOK(worker[w], StableBooks) /\ ListOK(worker[w], StableBooks)
           /\ AnswerRight(worker[w].answer, StableBooks, mapper)
BY DEF ServerInvariant, ThreadOK

(* A book that a name leads to is served if it is left alone.              *)
LEMMA NamedBookIsServed ==
    ASSUME ServerInvariant, NEW w \in Worker, HasBook(worker[w]), worker[w].kind = "book",
           worker[w].id \in Stable
    PROVE  worker[w].id \in ServedAllAlong(StableBooks)
<1>1. worker[w].pc # "idle"
    BY DEF HasBook
<1>2. worker[w].name \in DOMAIN mapper.nameToId /\ worker[w].id = mapper.nameToId[worker[w].name]
    BY <1>1, ThreadIs DEF RequestOK
<1> QED BY <1>2 DEF ServerInvariant, MapperRight

LEMMA UseArchiveKeeps ==
    ASSUME ServerInvariant, NEW w \in Worker, HasBook(worker[w]), NEW path \in Path,
           worker[w].id \in Stable => path = StableBooks[worker[w].id].path,
           UseArchive(w, path)
    PROVE  ThreadsOK(worker')
<1> DEFINE t == worker[w]
<1>1. /\ t \in Thread /\ RequestOK(t, mapper) /\ ListOK(t, StableBooks)
      /\ AnswerRight(t.answer, StableBooks, mapper)
    BY ThreadIs
<1>2. t.pc # "idle" /\ t.id \in Id
    BY <1>1 DEF RequestOK, HasBook
<1>3. CASE t.kind = "search"
  <2> DEFINE local == [listed |-> t.listed \cup {t.id}]
             new == Moved(t, "next", local)
  <2>1. Goto(w, "next", local)
      BY <1>3 DEF UseArchive
  <2>2. DOMAIN local = {"listed"} /\ local["listed"] = t.listed \cup {t.id}
      OBVIOUS
  <2>3. t.listed \cup {t.id} \in SUBSET Id
      BY <1>1, <1>2 DEF Thread
  <2> HIDE DEF local, t
  <2>4. /\ new \in Thread /\ new.pc = "next" /\ new.kind = "search" /\ new.query = t.query
        /\ new.cut = t.cut /\ new.todo = t.todo /\ new.listed = t.listed \cup {t.id}
        /\ new.answer = t.answer
      BY <1>1, <1>3, <2>2, <2>3, MovedIs DEF PCs
  <2> HIDE DEF new
  <2>5. new.todo \cup new.listed = t.todo \cup t.listed \cup {t.id}
      BY <2>4
  <2>6. Covers(new.todo \cup new.listed, StableBooks, new.query, new.cut)
      BY <1>1, <1>3, <2>4, <2>5 DEF ListOK, t
  <2>7. new.query = "everything" /\ ~new.cut
      BY <1>1, <1>2, <1>3, <2>4 DEF RequestOK
  <2>8. ThreadOK(new, StableBooks, mapper)
      BY <1>1, <2>4, <2>6, <2>7 DEF ThreadOK, RequestOK, HasBook, FileOK, ListOK
  <2> QED BY <2>1, <2>8, GotoKeeps DEF t, new
<1>4. CASE t.kind # "search"
  <2> DEFINE a == [kind |-> t.kind, name |-> t.name, query |-> t.query,
                   status |-> 200, from |-> path, listed |-> {}, cut |-> t.cut]
  <2>1. Reply(w, 200, path, {})
      BY <1>4 DEF UseArchive
  <2>2. a.kind = "book" /\ a.name = t.name /\ a.status = 200 /\ a.from = path
      BY <1>1, <1>2, <1>4 DEF RequestOK, Thread
  <2> HIDE DEF a
  <2>3. /\ t.name \in DOMAIN mapper.nameToId /\ t.id = mapper.nameToId[t.name]
        /\ DOMAIN mapper.nameToId \subseteq Name
      BY <1>1, <1>2, <2>2, <1>4 DEF RequestOK, ServerInvariant, MapperRight, Thread
  <2>4. AnswerRight(a, StableBooks, mapper)
      BY <2>2, <2>3 DEF AnswerRight
  <2>5. 200 \in {200, 404, 500} /\ path \in Path \cup {None} /\ {} \in SUBSET Id
      OBVIOUS
  <2> QED BY <2>1, <2>4, <2>5, ReplyKeeps DEF a
<1> QED BY <1>3, <1>4

LEMMA WithoutArchiveKeeps ==
    ASSUME ServerInvariant, NEW w \in Worker, HasBook(worker[w]),
           worker[w].id \notin ServedAllAlong(StableBooks), WithoutArchive(w)
    PROVE  ThreadsOK(worker')
<1> DEFINE t == worker[w]
<1>1. /\ t \in Thread /\ RequestOK(t, mapper) /\ ListOK(t, StableBooks)
      /\ AnswerRight(t.answer, StableBooks, mapper)
    BY ThreadIs
<1>2. t.pc # "idle"
    BY DEF HasBook
<1>3. CASE t.kind = "search"
  <2> DEFINE new == Moved(t, "next", <<>>)
  <2>1. Goto(w, "next", <<>>)
      BY <1>3 DEF WithoutArchive
  <2>2. DOMAIN <<>> = {}
      OBVIOUS
  <2> HIDE DEF t
  <2>3. /\ new \in Thread /\ new.pc = "next" /\ new.kind = "search" /\ new.query = t.query
        /\ new.cut = t.cut /\ new.todo = t.todo /\ new.listed = t.listed
        /\ new.answer = t.answer
      BY <1>1, <1>3, <2>2, MovedIs DEF PCs
  <2> HIDE DEF new
  <2>4. Covers(t.todo \cup t.listed \cup {t.id}, StableBooks, t.query, t.cut)
      BY <1>1, <1>3 DEF ListOK, t
  <2>5. t.id \notin Right(StableBooks, t.query)
      BY DEF Right, t
  <2>6. Covers(new.todo \cup new.listed, StableBooks, new.query, new.cut)
      BY <2>3, <2>4, <2>5 DEF Covers
  <2>7. new.query = "everything" /\ ~new.cut
      BY <1>1, <1>2, <1>3, <2>3 DEF RequestOK
  <2>8. ThreadOK(new, StableBooks, mapper)
      BY <1>1, <2>3, <2>6, <2>7 DEF ThreadOK, RequestOK, HasBook, FileOK, ListOK
  <2> QED BY <2>1, <2>8, GotoKeeps DEF t, new
<1>4. CASE t.kind # "search"
  <2>1. Fail(w, 404)
      BY <1>4 DEF WithoutArchive
  <2>2. t.kind = "book" => t.id \notin Stable
      BY NamedBookIsServed
  <2> QED BY <1>2, <2>1, <2>2, FailKeeps
<1> QED BY <1>3, <1>4

LEMMA NoSuchBookKeeps ==
    ASSUME ServerInvariant, NEW w \in Worker, worker[w].pc # "idle", NoSuchBook(w),
           HasBook(worker[w]) => worker[w].id \notin ServedAllAlong(StableBooks)
    PROVE  ThreadsOK(worker')
<1>1. RequestOK(worker[w], mapper)
    BY ThreadIs
<1>2. CASE worker[w].kind = "book"
  <2>1. Fail(w, 404)
      BY <1>2 DEF NoSuchBook
  <2>2. HasBook(worker[w])
      BY <1>1, <1>2 DEF RequestOK
  <2>3. worker[w].id \notin Stable
      BY <1>2, <2>2, NamedBookIsServed
  <2> QED BY <2>1, <2>3, FailKeeps
<1>3. CASE worker[w].kind # "book"
  <2>1. Fail(w, 500)
      BY <1>3 DEF NoSuchBook
  <2> QED BY <1>3, <2>1, FailKeeps
<1> QED BY <1>2, <1>3

-----------------------------------------------------------------------------
(* What the index answers are hits, and all of them unless the limit cuts. *)
LEMMA FilterAnswers ==
    ASSUME NEW query \in Query, NEW found \in FilterViaBookDB(query)
    PROVE  found \subseteq Hits(query) /\ (LimitCuts(query) \/ found = Hits(query))
<1> DEFINE h == Cardinality(Hits(query))
           b == Cardinality(BooksIds)
<1>1. Hits(query) \subseteq Id /\ BooksIds \subseteq Id
    BY DEF Hits, BooksIds
<1>2. IsFiniteSet(BooksIds) /\ IsFiniteSet(Hits(query))
    BY <1>1, ConstantsAssumption, FS_Subset
<1>3. h \in Nat /\ b \in Nat
    BY <1>2, FS_CardinalityType
<1>4. query # "everything"
    BY ConstantsAssumption
<1>5. found \in kSubset(Min({h, b}), Hits(query))
    BY <1>4 DEF FilterViaBookDB
<1>6. found \subseteq Hits(query) /\ Cardinality(found) = Min({h, b})
    BY <1>5 DEF kSubset
<1>7. \A s \in SUBSET Hits(query) : Cardinality(s) = h <=> s = Hits(query)
    BY <1>2, FS_Subset
<1>8. ASSUME h <= b PROVE Min({h, b}) = h
  <2>1. \A x \in {h, b} : (\A y \in {h, b} : x =< y) => x = h
      BY <1>3, <1>8
  <2>2. h \in {h, b} /\ \A y \in {h, b} : h =< y
      BY <1>3, <1>8
  <2> HIDE DEF h, b
  <2> QED BY <2>1, <2>2 DEF Min
<1>9. h <= b \/ LimitCuts(query)
    BY <1>3, <1>4 DEF LimitCuts
<1> HIDE DEF h, b
<1> QED BY <1>6, <1>7, <1>8, <1>9

(* Of the books that are left alone, the right ones are among them.        *)
LEMMA FilterFindsStable ==
    ASSUME ServerInvariant, NEW query \in Query \cup {"everything"},
           NEW found \in FilterViaBookDB(query)
    PROVE  /\ found \in SUBSET Id
           /\ found \cap ServedAllAlong(StableBooks) \subseteq Right(StableBooks, query)
           /\ LimitCuts(query) \/ Right(StableBooks, query) \subseteq found
<1>1. /\ \A id \in ServedAllAlong(StableBooks) :
            /\ id \in Stable /\ id \in Id /\ books[id] # NoBook
            /\ StableBooks[id] = books[id] /\ bookDB[id] = books[id].meta
            /\ bookDB[id] # NoDoc
  <2> SUFFICES ASSUME NEW id \in ServedAllAlong(StableBooks)
               PROVE  /\ id \in Stable /\ id \in Id /\ books[id] # NoBook
                      /\ StableBooks[id] = books[id] /\ bookDB[id] = books[id].meta
                      /\ bookDB[id] # NoDoc
      OBVIOUS
  <2>1. id \in Stable
      BY DEF ServedAllAlong
  <2>2. id \in Id /\ StableBooks[id] = books[id] /\ books[id] # NoBook
      BY <2>1, StableIs DEF ServerInvariant
  <2>3. bookDB[id] = books[id].meta
      BY <2>1, <2>2 DEF ServerInvariant, LibraryOK
  <2>4. books[id] \in BookRecord
      BY <2>2 DEF ServerInvariant, LibraryOK
  <2>5. books[id].meta \in Meta
      BY <2>4, PathValidIsEnough
  <2> QED BY <2>1, <2>2, <2>3, <2>5, ConstantsAssumption
<1>2. Right(StableBooks, query) \subseteq ServedAllAlong(StableBooks)
    BY DEF Right
<1>3. CASE query = "everything"
  <2>1. found = BooksIds /\ query \notin Query
      BY <1>3, ConstantsAssumption DEF FilterViaBookDB
  <2> QED BY <1>1, <2>1 DEF BooksIds, Right
<1>4. CASE query \in Query
  <2>1. found \subseteq Hits(query) /\ (LimitCuts(query) \/ found = Hits(query))
      BY <1>4, FilterAnswers
  <2>2. \A id \in ServedAllAlong(StableBooks) :
           id \in Hits(query) <=> id \in Right(StableBooks, query)
      BY <1>1, <1>4 DEF Hits, Right
  <2>3. Hits(query) \subseteq Id
      BY DEF Hits
  <2> QED BY <1>2, <2>1, <2>2, <2>3
<1> QED BY <1>3, <1>4

-----------------------------------------------------------------------------
(* The steps of a handler.                                                 *)
LEMMA LookupKeeps ==
    ASSUME ServerInvariant, NEW w \in Worker, Lookup(w) PROVE ServerInvariant'
<1> DEFINE t == worker[w]
<1>1. t.pc = "lookup" /\ HasBook(t) /\ t.pc # "idle"
    BY DEF Lookup, At, HasBook
<1>2. /\ t \in Thread /\ RequestOK(t, mapper) /\ ListOK(t, StableBooks)
      /\ AnswerRight(t.answer, StableBooks, mapper)
    BY ThreadIs
<1>3. t.id \in Id
    BY <1>1, <1>2 DEF RequestOK
<1>4. UNCHANGED <<books, bookDB, archives, app, mapper>>
    BY DEF Lookup, library
<1>5. CASE archives[t.id] # None
  <2>1. UseArchive(w, archives[t.id])
      BY <1>5 DEF Lookup
  <2>2. archives[t.id] \in Path
      BY <1>3, <1>5 DEF ServerInvariant, LibraryOK
  <2>3. t.id \in Stable => archives[t.id] = StableBooks[t.id].path
      BY <1>5, StableIs DEF ServerInvariant, LibraryOK
  <2>4. ThreadsOK(worker')
      BY <1>1, <2>1, <2>2, <2>3, UseArchiveKeeps
  <2> QED BY <1>4, <2>4, OnlyThreadsMove
<1>6. CASE ~(archives[t.id] # None)
  <2> DEFINE new == Moved(t, "copy", <<>>)
  <2>1. Goto(w, "copy", <<>>)
      BY <1>6 DEF Lookup
  <2>2. DOMAIN <<>> = {}
      OBVIOUS
  <2> HIDE DEF t
  <2>3. /\ new \in Thread /\ new.pc = "copy" /\ new.kind = t.kind /\ new.query = t.query
        /\ new.cut = t.cut /\ new.todo = t.todo /\ new.listed = t.listed
        /\ new.answer = t.answer /\ new.name = t.name /\ new.id = t.id
      BY <1>2, <2>2, MovedIs DEF PCs
  <2> HIDE DEF new
  <2>4. ThreadOK(new, StableBooks, mapper)
      BY <1>1, <1>2, <2>3 DEF ThreadOK, RequestOK, HasBook, FileOK, ListOK
  <2>5. ThreadsOK(worker')
      BY <2>1, <2>4, GotoKeeps DEF t, new
  <2> QED BY <1>4, <2>5, OnlyThreadsMove
<1> QED BY <1>5, <1>6

LEMMA CopyBookKeeps ==
    ASSUME ServerInvariant, NEW w \in Worker, CopyBook(w) PROVE ServerInvariant'
<1> DEFINE t == worker[w]
           book == books[t.id]
<1>1. t.pc = "copy" /\ HasBook(t) /\ t.pc # "idle"
    BY DEF CopyBook, At, HasBook
<1>2. /\ t \in Thread /\ RequestOK(t, mapper) /\ ListOK(t, StableBooks)
      /\ AnswerRight(t.answer, StableBooks, mapper)
    BY ThreadIs
<1>3. t.id \in Id /\ (book \in BookRecord \/ book = NoBook)
    BY <1>1, <1>2 DEF RequestOK, ServerInvariant, LibraryOK
<1>4. UNCHANGED <<books, bookDB, archives, app, mapper>>
    BY DEF CopyBook, library
<1>5. t.id \in ServedAllAlong(StableBooks) => book # NoBook /\ book.pathValid
    BY StableIs DEF ServedAllAlong, ServerInvariant
<1>6. CASE book = NoBook /\ NoSuchBook(w)
  <2>1. ThreadsOK(worker')
      BY <1>1, <1>5, <1>6, NoSuchBookKeeps
  <2> QED BY <1>4, <2>1, OnlyThreadsMove
<1>7. CASE book # NoBook /\ ~book.pathValid /\ WithoutArchive(w)
  <2>1. ThreadsOK(worker')
      BY <1>1, <1>5, <1>7, WithoutArchiveKeeps
  <2> QED BY <1>4, <2>1, OnlyThreadsMove
<1>8. CASE book # NoBook /\ book.pathValid /\ Goto(w, "open", [path |-> book.path])
  <2> DEFINE local == [path |-> book.path]
             new == Moved(t, "open", local)
  <2>1. Goto(w, "open", local)
      BY <1>8
  <2>2. DOMAIN local = {"path"} /\ local["path"] = book.path
      OBVIOUS
  <2>3. book.path \in Path
      BY <1>3, <1>8, PathValidIsEnough
  <2>4. t.id \in Stable => t.id \in ServedAllAlong(StableBooks)
                           /\ book.path = StableBooks[t.id].path
      BY <1>8, StableIs DEF ServerInvariant
  <2> HIDE DEF t, book, local
  <2>5. /\ new \in Thread /\ new.pc = "open" /\ new.kind = t.kind /\ new.query = t.query
        /\ new.cut = t.cut /\ new.todo = t.todo /\ new.listed = t.listed
        /\ new.answer = t.answer /\ new.name = t.name /\ new.id = t.id
        /\ new.path = book.path
      BY <1>2, <2>2, <2>3, MovedIs DEF PCs
  <2> HIDE DEF new
  <2>6. ThreadOK(new, StableBooks, mapper)
      BY <1>1, <1>2, <2>3, <2>4, <2>5 DEF ThreadOK, RequestOK, HasBook, FileOK, ListOK
  <2>7. ThreadsOK(worker')
      BY <2>1, <2>6, GotoKeeps DEF t, new
  <2> QED BY <1>4, <2>7, OnlyThreadsMove
<1> QED BY <1>6, <1>7, <1>8 DEF CopyBook

LEMMA OpenFileKeeps ==
    ASSUME ServerInvariant, NEW w \in Worker, OpenFile(w) PROVE ServerInvariant'
<1> DEFINE t == worker[w]
<1>1. t.pc = "open" /\ HasBook(t) /\ t.pc # "idle"
    BY DEF OpenFile, At, HasBook
<1>2. /\ t \in Thread /\ RequestOK(t, mapper) /\ ListOK(t, StableBooks)
      /\ FileOK(t, StableBooks) /\ AnswerRight(t.answer, StableBooks, mapper)
    BY ThreadIs
<1>3. UNCHANGED <<books, bookDB, archives, app, mapper>>
    BY DEF OpenFile, library
<1>4. CASE t.path \in disk
  <2> DEFINE new == Moved(t, "store", <<>>)
  <2>1. Goto(w, "store", <<>>)
      BY <1>4 DEF OpenFile
  <2>2. DOMAIN <<>> = {}
      OBVIOUS
  <2> HIDE DEF t
  <2>3. /\ new \in Thread /\ new.pc = "store" /\ new.kind = t.kind /\ new.query = t.query
        /\ new.cut = t.cut /\ new.todo = t.todo /\ new.listed = t.listed
        /\ new.answer = t.answer /\ new.name = t.name /\ new.id = t.id
        /\ new.path = t.path
      BY <1>2, <2>2, MovedIs DEF PCs
  <2> HIDE DEF new
  <2>4. ThreadOK(new, StableBooks, mapper)
      BY <1>1, <1>2, <2>3 DEF ThreadOK, RequestOK, HasBook, FileOK, ListOK
  <2>5. ThreadsOK(worker')
      BY <2>1, <2>4, GotoKeeps DEF t, new
  <2> QED BY <1>3, <2>5, OnlyThreadsMove
<1>5. CASE t.path \notin disk
  <2>1. Fail(w, 500)
      BY <1>5 DEF OpenFile
  <2>2. ThreadsOK(worker')
      BY <1>1, <2>1, FailKeeps
  <2> QED BY <1>3, <2>2, OnlyThreadsMove
<1> QED BY <1>4, <1>5

LEMMA StoreKeeps ==
    ASSUME ServerInvariant, NEW w \in Worker, Store(w) PROVE ServerInvariant'
<1> DEFINE t == worker[w]
<1>1. t.pc = "store" /\ HasBook(t) /\ t.pc # "idle"
    BY DEF Store, At, HasBook
<1>2. RequestOK(t, mapper) /\ FileOK(t, StableBooks)
    BY ThreadIs
<1>3. t.id \in Id /\ t.path \in Path
      /\ (t.id \in Stable => /\ t.id \in ServedAllAlong(StableBooks)
                             /\ t.path = StableBooks[t.id].path)
    BY <1>1, <1>2 DEF RequestOK, FileOK
<1>4. /\ archives' = [archives EXCEPT ![t.id] = t.path] /\ UseArchive(w, t.path)
      /\ UNCHANGED <<books, bookDB, app, mapper>>
    BY DEF Store
<1>5. ThreadsOK(worker')
    BY <1>1, <1>3, <1>4, UseArchiveKeeps
<1>6. t.id \in Stable => books[t.id] # NoBook /\ t.path = books[t.id].path
    BY <1>3, StableIs DEF ServerInvariant
<1> HIDE DEF t
<1>7. LibraryOK'
  <2>1. archives' \in [Id -> Path \cup {None}]
      BY <1>3, <1>4 DEF ServerInvariant, LibraryOK
  <2>2. ASSUME NEW id \in Stable, archives'[id] # None
        PROVE  books[id] # NoBook /\ archives'[id] = books[id].path
    <3>1. id \in Id
        BY DEF Stable
    <3>2. CASE id = t.id
        BY <1>3, <1>4, <1>6, <3>2 DEF ServerInvariant, LibraryOK
    <3>3. CASE id # t.id
        BY <1>3, <1>4, <2>2, <3>1, <3>3 DEF ServerInvariant, LibraryOK
    <3> QED BY <3>2, <3>3
  <2> QED BY <1>4, <2>1, <2>2 DEF ServerInvariant, LibraryOK, Stable
<1>8. AppOK'
    BY <1>4 DEF ServerInvariant, AppOK
<1> QED BY <1>4, <1>5, <1>7, <1>8, ThreadsAreEnough

LEMMA ListIdsKeeps ==
    ASSUME ServerInvariant, NEW w \in Worker, ListIds(w) PROVE ServerInvariant'
<1> DEFINE t == worker[w]
           cuts == LimitCuts(t.query)
<1>1. t.pc = "list" /\ t.pc # "idle" /\ ~HasBook(t)
    BY DEF ListIds, At, HasBook
<1>2. /\ t \in Thread /\ RequestOK(t, mapper)
      /\ AnswerRight(t.answer, StableBooks, mapper)
    BY ThreadIs
<1>3. UNCHANGED <<books, bookDB, archives, app, mapper>>
    BY DEF ListIds, library
<1>4. PICK found \in FilterViaBookDB(t.query) :
          Goto(w, "accept", [todo |-> found, cut |-> cuts])
    BY DEF ListIds
<1>5. t.query \in Query \cup {"everything"}
    BY <1>2 DEF Thread
<1>6. /\ found \in SUBSET Id
      /\ found \cap ServedAllAlong(StableBooks) \subseteq Right(StableBooks, t.query)
      /\ cuts \/ Right(StableBooks, t.query) \subseteq found
    BY <1>5, FilterFindsStable
<1>7. cuts \in BOOLEAN /\ (t.query = "everything" => ~cuts)
    BY DEF LimitCuts
<1> DEFINE local == [todo |-> found, cut |-> cuts]
           new == Moved(t, "accept", local)
<1>8. DOMAIN local = {"todo", "cut"} /\ local["todo"] = found /\ local["cut"] = cuts
    OBVIOUS
<1>9. Goto(w, "accept", local)
    BY <1>4
<1> HIDE DEF t, cuts, local
<1>10. /\ new \in Thread /\ new.pc = "accept" /\ new.kind = t.kind /\ new.query = t.query
       /\ new.cut = cuts /\ new.todo = found /\ new.listed = t.listed
       /\ new.answer = t.answer
    BY <1>2, <1>6, <1>7, <1>8, MovedIs DEF PCs
<1> HIDE DEF new
<1>11. t.listed = {}
    BY <1>1, ThreadIs DEF ListOK, t
<1>12. ThreadOK(new, StableBooks, mapper)
    BY <1>1, <1>2, <1>6, <1>7, <1>10, <1>11 DEF ThreadOK, RequestOK, HasBook, FileOK, ListOK
<1>13. ThreadsOK(worker')
    BY <1>9, <1>12, GotoKeeps DEF t, new
<1> QED BY <1>3, <1>13, OnlyThreadsMove

LEMMA AcceptBookKeeps ==
    ASSUME ServerInvariant, NEW w \in Worker, AcceptBook(w) PROVE ServerInvariant'
<1> DEFINE t == worker[w]
<1>1. t.pc = "accept" /\ t.pc # "idle" /\ ~HasBook(t)
    BY DEF AcceptBook, At, HasBook
<1>2. /\ t \in Thread /\ RequestOK(t, mapper) /\ ListOK(t, StableBooks)
      /\ AnswerRight(t.answer, StableBooks, mapper)
    BY ThreadIs
<1>3. UNCHANGED <<books, bookDB, archives, app, mapper>>
    BY DEF AcceptBook, library
<1>4. t.todo \in SUBSET Id /\ t.listed \in SUBSET Id
    BY <1>2 DEF Thread
<1>5. /\ t.listed \cap Stable \subseteq Right(StableBooks, t.query)
      /\ t.todo \cap ServedAllAlong(StableBooks) \subseteq Right(StableBooks, t.query)
      /\ ~t.cut => Right(StableBooks, t.query) \subseteq t.todo \cup t.listed
    BY <1>1, <1>2 DEF ListOK
<1>6. Right(StableBooks, t.query) \subseteq ServedAllAlong(StableBooks)
    BY DEF Right
<1>7. ASSUME NEW id \in t.todo, books[id] = NoBook, NoSuchBook(w)
      PROVE  ServerInvariant'
  <2>1. ThreadsOK(worker')
      BY <1>1, <1>7, NoSuchBookKeeps
  <2> QED BY <1>3, <2>1, OnlyThreadsMove
<1>8. ASSUME NEW id \in t.todo, books[id] # NoBook,
             Goto(w, "accept", [todo |-> t.todo \ {id},
                                listed |-> IF Accept(LocalAndValid, books[id])
                                           THEN t.listed \cup {id} ELSE t.listed])
      PROVE  ServerInvariant'
  <2> DEFINE todo == t.todo \ {id}
             listed == IF Accept(LocalAndValid, books[id]) THEN t.listed \cup {id} ELSE t.listed
             local == [todo |-> todo, listed |-> listed]
             new == Moved(t, "accept", local)
  <2>1. Goto(w, "accept", local)
      BY <1>8
  <2>2. DOMAIN local = {"todo", "listed"} /\ local["todo"] = todo /\ local["listed"] = listed
      OBVIOUS
  <2>3. id \in Id /\ todo \in SUBSET Id /\ listed \in SUBSET Id
      BY <1>4
  <2>4. id \in Stable => (Accept(LocalAndValid, books[id])
                             <=> id \in ServedAllAlong(StableBooks))
      BY <1>8, StableIs DEF ServerInvariant, Servable
  <2>5. ServedAllAlong(StableBooks) \subseteq Stable
      BY DEF ServedAllAlong
  <2>6. /\ listed \cap Stable \subseteq Right(StableBooks, t.query)
        /\ todo \cap ServedAllAlong(StableBooks) \subseteq Right(StableBooks, t.query)
        /\ ~t.cut => Right(StableBooks, t.query) \subseteq todo \cup listed
    <3>1. CASE Accept(LocalAndValid, books[id])
        BY <1>5, <2>4, <2>5, <3>1
    <3>2. CASE ~Accept(LocalAndValid, books[id])
        BY <1>5, <1>6, <2>4, <2>5, <3>2
    <3> QED BY <3>1, <3>2
  <2> HIDE DEF t, todo, listed, local
  <2>7. /\ new \in Thread /\ new.pc = "accept" /\ new.kind = t.kind /\ new.query = t.query
        /\ new.cut = t.cut /\ new.todo = todo /\ new.listed = listed
        /\ new.answer = t.answer
      BY <1>2, <2>2, <2>3, MovedIs DEF PCs
  <2> HIDE DEF new
  <2>8. ThreadOK(new, StableBooks, mapper)
      BY <1>1, <1>2, <2>6, <2>7 DEF ThreadOK, RequestOK, HasBook, FileOK, ListOK
  <2>9. ThreadsOK(worker')
      BY <2>1, <2>8, GotoKeeps DEF t, new
  <2> QED BY <1>3, <2>9, OnlyThreadsMove
<1>9. ASSUME t.todo = {},
             Goto(w, IF t.kind = "search" THEN "next" ELSE "dump",
                  [todo |-> t.listed, listed |-> {}])
      PROVE  ServerInvariant'
  <2> DEFINE pc == IF t.kind = "search" THEN "next" ELSE "dump"
             local == [todo |-> t.listed, listed |-> {}]
             new == Moved(t, pc, local)
  <2>1. Goto(w, pc, local)
      BY <1>9
  <2>2. DOMAIN local = {"todo", "listed"} /\ local["todo"] = t.listed /\ local["listed"] = {}
      OBVIOUS
  <2>3. {} \in SUBSET Id /\ pc \in PCs
      BY DEF PCs
  <2>4. Covers(t.listed \cup {}, StableBooks, t.query, t.cut)
      BY <1>5, <1>9 DEF Covers
  <2>5. /\ pc \in {"next", "dump"}
        /\ t.kind # "book"
        /\ pc = "next" => t.kind = "search"
        /\ pc = "dump" => t.kind = "catalog"
      BY <1>1, <1>2 DEF RequestOK, Thread
  <2> HIDE DEF t, pc, local
  <2>6. /\ new \in Thread /\ new.pc = pc /\ new.kind = t.kind /\ new.query = t.query
        /\ new.cut = t.cut /\ new.todo = t.listed /\ new.listed = {}
        /\ new.answer = t.answer
      BY <1>2, <1>4, <2>2, <2>3, MovedIs
  <2> HIDE DEF new
  <2>7. ThreadOK(new, StableBooks, mapper)
      BY <1>1, <1>2, <2>4, <2>5, <2>6 DEF ThreadOK, RequestOK, HasBook, FileOK, ListOK
  <2>8. ThreadsOK(worker')
      BY <2>1, <2>7, GotoKeeps DEF t, new
  <2> QED BY <1>3, <2>8, OnlyThreadsMove
<1> QED BY <1>7, <1>8, <1>9 DEF AcceptBook

LEMMA NextBookKeeps ==
    ASSUME ServerInvariant, NEW w \in Worker, NextBook(w) PROVE ServerInvariant'
<1> DEFINE t == worker[w]
<1>1. t.pc = "next" /\ t.pc # "idle" /\ ~HasBook(t)
    BY DEF NextBook, At, HasBook
<1>2. /\ t \in Thread /\ RequestOK(t, mapper) /\ ListOK(t, StableBooks)
      /\ AnswerRight(t.answer, StableBooks, mapper)
    BY ThreadIs
<1>3. UNCHANGED <<books, bookDB, archives, app, mapper>>
    BY DEF NextBook, library
<1>4. t.todo \in SUBSET Id /\ t.listed \in SUBSET Id
    BY <1>2 DEF Thread
<1>5. t.kind = "search" /\ Covers(t.todo \cup t.listed, StableBooks, t.query, t.cut)
    BY <1>1, <1>2 DEF RequestOK, ListOK
<1>6. ASSUME NEW id \in t.todo, Goto(w, "lookup", [id |-> id, todo |-> t.todo \ {id}])
      PROVE  ServerInvariant'
  <2> DEFINE todo == t.todo \ {id}
             local == [id |-> id, todo |-> todo]
             new == Moved(t, "lookup", local)
  <2>1. Goto(w, "lookup", local)
      BY <1>6
  <2>2. DOMAIN local = {"id", "todo"} /\ local["id"] = id /\ local["todo"] = todo
      OBVIOUS
  <2>3. id \in Id /\ todo \in SUBSET Id
      BY <1>4
  <2>4. todo \cup t.listed \cup {id} = t.todo \cup t.listed
      OBVIOUS
  <2> HIDE DEF t, todo, local
  <2>5. /\ new \in Thread /\ new.pc = "lookup" /\ new.kind = t.kind /\ new.query = t.query
        /\ new.cut = t.cut /\ new.todo = todo /\ new.listed = t.listed
        /\ new.answer = t.answer /\ new.id = id
    <3>1. "lookup" \in PCs
        BY DEF PCs
    <3>2. /\ DOMAIN local \subseteq {"id", "path", "todo", "listed", "cut"}
          /\ local["id"] \in Id /\ local["todo"] \in SUBSET Id
          /\ "id" \in DOMAIN local /\ "todo" \in DOMAIN local
          /\ "path" \notin DOMAIN local /\ "listed" \notin DOMAIN local
          /\ "cut" \notin DOMAIN local
        BY <2>2, <2>3
    <3> QED BY <1>2, <2>2, <3>1, <3>2, MovedIs
  <2> HIDE DEF new
  <2>6. Covers(new.todo \cup new.listed \cup {new.id}, StableBooks, new.query, new.cut)
      BY <1>5, <2>4, <2>5
  <2>7. ThreadOK(new, StableBooks, mapper)
      BY <1>1, <1>2, <1>5, <2>3, <2>5, <2>6
         DEF ThreadOK, RequestOK, HasBook, FileOK, ListOK
  <2>8. ThreadsOK(worker')
      BY <2>1, <2>7, GotoKeeps DEF t, new
  <2> QED BY <1>3, <2>8, OnlyThreadsMove
<1>7. ASSUME t.todo = {}, Goto(w, "query", <<>>) PROVE ServerInvariant'
  <2> DEFINE new == Moved(t, "query", <<>>)
  <2>1. DOMAIN <<>> = {}
      OBVIOUS
  <2>2. Covers(t.listed, StableBooks, t.query, t.cut)
      BY <1>5, <1>7 DEF Covers
  <2> HIDE DEF t
  <2>3. /\ new \in Thread /\ new.pc = "query" /\ new.kind = t.kind /\ new.query = t.query
        /\ new.cut = t.cut /\ new.todo = t.todo /\ new.listed = t.listed
        /\ new.answer = t.answer
      BY <1>2, <2>1, MovedIs DEF PCs
  <2> HIDE DEF new
  <2>4. ThreadOK(new, StableBooks, mapper)
      BY <1>1, <1>2, <1>5, <2>2, <2>3 DEF ThreadOK, RequestOK, HasBook, FileOK, ListOK
  <2>5. ThreadsOK(worker')
      BY <1>7, <2>4, GotoKeeps DEF t, new
  <2> QED BY <1>3, <2>5, OnlyThreadsMove
<1> QED BY <1>6, <1>7 DEF NextBook

LEMMA ListAnswerKeeps ==
    ASSUME ServerInvariant, NEW w \in Worker, worker[w].pc # "idle",
           worker[w].kind # "book", Reply(w, 200, None, worker[w].listed),
           Covers(worker[w].listed, StableBooks, worker[w].query, worker[w].cut)
    PROVE  ThreadsOK(worker')
<1> DEFINE t == worker[w]
           a == [kind |-> t.kind, name |-> t.name, query |-> t.query,
                 status |-> 200, from |-> None, listed |-> t.listed, cut |-> t.cut]
<1>1. t \in Thread /\ RequestOK(t, mapper)
    BY ThreadIs
<1>2. /\ a.kind = t.kind /\ a.query = t.query /\ a.listed = t.listed /\ a.cut = t.cut
    OBVIOUS
<1>3. /\ t.listed \in SUBSET Id /\ None \in Path \cup {None} /\ 200 \in {200, 404, 500}
    BY <1>1 DEF Thread
<1> HIDE DEF a
<1>4. AnswerRight(a, StableBooks, mapper)
    BY <1>1, <1>2 DEF AnswerRight, RequestOK
<1> QED BY <1>3, <1>4, ReplyKeeps DEF a

LEMMA RunSearchKeeps ==
    ASSUME ServerInvariant, NEW w \in Worker, RunSearch(w) PROVE ServerInvariant'
<1>1. /\ worker[w].pc = "query" /\ worker[w].pc # "idle"
      /\ UNCHANGED <<books, bookDB, archives, app, mapper>>
    BY DEF RunSearch, At, library
<1>2. /\ worker[w].kind = "search"
      /\ Covers(worker[w].listed, StableBooks, worker[w].query, worker[w].cut)
    BY <1>1, ThreadIs DEF RequestOK, ListOK
<1>3. CASE worker' = worker
  <2>1. ThreadsOK(worker')
      BY <1>3 DEF ServerInvariant, ThreadsOK
  <2> QED BY <1>1, <2>1, OnlyThreadsMove
<1>4. CASE Reply(w, 200, None, worker[w].listed)
    BY <1>1, <1>2, <1>4, ListAnswerKeeps, OnlyThreadsMove
<1>5. CASE Fail(w, 500)
    BY <1>1, <1>5, FailKeeps, OnlyThreadsMove
<1> QED BY <1>3, <1>4, <1>5 DEF RunSearch

LEMMA DumpBookKeeps ==
    ASSUME ServerInvariant, NEW w \in Worker, DumpBook(w) PROVE ServerInvariant'
<1> DEFINE t == worker[w]
<1>1. t.pc = "dump" /\ t.pc # "idle" /\ ~HasBook(t)
    BY DEF DumpBook, At, HasBook
<1>2. /\ t \in Thread /\ RequestOK(t, mapper) /\ ListOK(t, StableBooks)
      /\ AnswerRight(t.answer, StableBooks, mapper)
    BY ThreadIs
<1>3. UNCHANGED <<books, bookDB, archives, app, mapper>>
    BY DEF DumpBook, library
<1>4. t.todo \in SUBSET Id /\ t.listed \in SUBSET Id
    BY <1>2 DEF Thread
<1>5. t.kind = "catalog" /\ Covers(t.todo \cup t.listed, StableBooks, t.query, t.cut)
    BY <1>1, <1>2 DEF RequestOK, ListOK
<1>6. ASSUME NEW id \in t.todo, NoSuchBook(w) PROVE ServerInvariant'
    BY <1>1, <1>3, <1>6, NoSuchBookKeeps, OnlyThreadsMove
<1>7. ASSUME NEW id \in t.todo,
             Goto(w, "dump", [todo |-> t.todo \ {id}, listed |-> t.listed \cup {id}])
      PROVE  ServerInvariant'
  <2> DEFINE todo == t.todo \ {id}
             listed == t.listed \cup {id}
             local == [todo |-> todo, listed |-> listed]
             new == Moved(t, "dump", local)
  <2>1. Goto(w, "dump", local)
      BY <1>7
  <2>2. DOMAIN local = {"todo", "listed"} /\ local["todo"] = todo /\ local["listed"] = listed
      OBVIOUS
  <2>3. todo \in SUBSET Id /\ listed \in SUBSET Id
      BY <1>4
  <2>4. todo \cup listed = t.todo \cup t.listed
      OBVIOUS
  <2> HIDE DEF t, todo, listed, local
  <2>5. /\ new \in Thread /\ new.pc = "dump" /\ new.kind = t.kind /\ new.query = t.query
        /\ new.cut = t.cut /\ new.todo = todo /\ new.listed = listed
        /\ new.answer = t.answer
      BY <1>2, <2>2, <2>3, MovedIs DEF PCs
  <2> HIDE DEF new
  <2>6. Covers(new.todo \cup new.listed, StableBooks, new.query, new.cut)
      BY <1>5, <2>4, <2>5
  <2>7. ThreadOK(new, StableBooks, mapper)
      BY <1>1, <1>2, <1>5, <2>5, <2>6 DEF ThreadOK, RequestOK, HasBook, FileOK, ListOK
  <2>8. ThreadsOK(worker')
      BY <2>1, <2>7, GotoKeeps DEF t, new
  <2> QED BY <1>3, <2>8, OnlyThreadsMove
<1>8. ASSUME t.todo = {}, Reply(w, 200, None, t.listed) PROVE ServerInvariant'
  <2>1. Covers(t.listed, StableBooks, t.query, t.cut)
      BY <1>5, <1>8 DEF Covers
  <2>2. ThreadsOK(worker')
      BY <1>1, <1>5, <1>8, <2>1, ListAnswerKeeps
  <2> QED BY <1>3, <2>2, OnlyThreadsMove
<1> QED BY <1>6, <1>7, <1>8 DEF DumpBook

-----------------------------------------------------------------------------
(* The application, the files and the races.                               *)
LEMMA ApplicationKeeps ==
    ASSUME ServerInvariant, Application PROVE ServerInvariant'
<1>1. /\ ThreadsOK(worker) /\ LibraryOK /\ AppOK /\ AppIds \subseteq Id
      /\ \A id \in Stable : id \in Id /\ id \notin AppIds
    BY ServerAssumption DEF ServerInvariant, ThreadsOK, Stable
<1>2. ASSUME NEW id \in AppIds, NEW book \in AppBooks, AppAddIndex(id, book)
      PROVE  ServerInvariant'
  <2>1. id \in Id /\ book \in BookRecord /\ book.meta \in Meta
      BY ServerAssumption, PathValidIsEnough
  <2>2. LibraryOK'
      BY <1>1, <1>2, <2>1 DEF AppAddIndex, LibraryOK, Stable
  <2>3. AppOK'
      BY <1>2, <2>1 DEF AppAddIndex, AppOK
  <2> QED BY <1>1, <1>2, <2>2, <2>3, ThreadsAreEnough DEF AppAddIndex
<1>3. ASSUME NEW id \in AppIds, AppRemoveDocument(id) PROVE ServerInvariant'
  <2>1. LibraryOK'
      BY <1>1, <1>3 DEF AppRemoveDocument, LibraryOK, Stable
  <2>2. AppOK'
      BY <1>3 DEF AppRemoveDocument, AppOK
  <2> QED BY <1>1, <1>3, <2>1, <2>2, ThreadsAreEnough DEF AppRemoveDocument
<1>4. CASE AppAddRecord
  <2>1. app.id \in AppIds /\ app.id \in Id /\ app.book \in BookRecord
      BY <1>1, <1>4 DEF AppAddRecord, AppAt, AppOK
  <2> DEFINE id == app.id
             new == IF books[id] = NoBook THEN app.book ELSE Update(books[id], app.book)
  <2>2. books' = [books EXCEPT ![id] = new]
      BY <1>4 DEF AppAddRecord
  <2>3. new \in BookRecord
      BY <1>1, <2>1 DEF LibraryOK, Update
  <2> HIDE DEF new, id
  <2>4. /\ id \in AppIds /\ id \in Id
        /\ UNCHANGED <<bookDB, archives, worker, mapper>>
      BY <1>4, <2>1 DEF AppAddRecord, id
  <2>5. \A other \in Stable : books'[other] = books[other]
      BY <1>1, <2>2, <2>4 DEF LibraryOK
  <2>6. LibraryOK'
      BY <1>1, <2>2, <2>3, <2>4, <2>5 DEF LibraryOK, Stable
  <2>7. AppOK'
      BY <1>4 DEF AppAddRecord, AppOK
  <2> QED BY <1>1, <2>4, <2>5, <2>6, <2>7, ThreadsAreEnough
<1>5. CASE AppRemoveHandles
  <2>1. app.id \in AppIds /\ app.id \in Id /\ app.pc = "handles"
      BY <1>1, <1>5 DEF AppRemoveHandles, AppAt, AppOK
  <2>2. LibraryOK'
      BY <1>1, <1>5, <2>1 DEF AppRemoveHandles, LibraryOK, Stable
  <2>3. app'.pc = "erase" /\ app'.id = app.id
    <3>1. app' = [app EXCEPT !.pc = "erase"]
        BY <1>5 DEF AppRemoveHandles
    <3> QED BY <3>1
  <2>4. AppOK'
      BY <2>1, <2>3 DEF AppOK
  <2> QED BY <1>1, <1>5, <2>2, <2>4, ThreadsAreEnough DEF AppRemoveHandles
<1>6. CASE AppRemoveRecord
  <2>1. app.id \in AppIds /\ app.id \in Id
      BY <1>1, <1>6 DEF AppRemoveRecord, AppAt, AppOK
  <2>2. \A other \in Stable : books'[other] = books[other]
      BY <1>1, <1>6, <2>1 DEF AppRemoveRecord, LibraryOK
  <2>3. LibraryOK'
      BY <1>1, <1>6, <2>1, <2>2 DEF AppRemoveRecord, LibraryOK, Stable
  <2>4. AppOK'
      BY <1>6 DEF AppRemoveRecord, AppOK
  <2> QED BY <1>1, <1>6, <2>2, <2>3, <2>4, ThreadsAreEnough DEF AppRemoveRecord
<1> QED BY <1>2, <1>3, <1>4, <1>5, <1>6 DEF Application

LEMMA ServerNextKeeps == ServerInvariant /\ [ServerNext]_serverVars => ServerInvariant'
<1> SUFFICES ASSUME ServerInvariant, [ServerNext]_serverVars PROVE ServerInvariant'
    OBVIOUS
<1>1. ASSUME NEW w \in Worker, Request(w) PROVE ServerInvariant'
    BY <1>1, RequestKeeps
<1>2. ASSUME NEW w \in Worker, Handle(w) PROVE ServerInvariant'
    BY <1>2, LookupKeeps, CopyBookKeeps, OpenFileKeeps, StoreKeeps, ListIdsKeeps,
       AcceptBookKeeps, NextBookKeeps, RunSearchKeeps, DumpBookKeeps DEF Handle
<1>3. CASE Application
    BY <1>3, ApplicationKeeps
<1>4. ThreadsOK(worker)
    BY DEF ServerInvariant, ThreadsOK
<1>5. ASSUME UNCHANGED <<books, bookDB, archives, app, mapper, worker>>
      PROVE  ServerInvariant'
    BY <1>4, <1>5, OnlyThreadsMove
<1>6. ASSUME NEW path \in Path, FileChanges(path) PROVE ServerInvariant'
    BY <1>5, <1>6 DEF FileChanges, DiskChanges
<1>7. CASE Race
    BY <1>5, <1>7 DEF Race, library
<1>8. CASE UNCHANGED serverVars
    BY <1>5, <1>8 DEF serverVars
<1> QED BY <1>1, <1>2, <1>3, <1>6, <1>7, <1>8 DEF ServerNext

-----------------------------------------------------------------------------
(* The server starts with a mapper for the books that it finds.            *)
LEMMA MapperStartsRight ==
    ASSUME ServerInit, LibraryOK PROVE MapperRight(StableBooks, mapper)
<1> DEFINE pathOf == [id \in BooksIds |-> books[id].path]
           served == ServedAllAlong(StableBooks)
<1>1. /\ Filtered \in Seq(Id) /\ Len(Filtered) \in Nat
      /\ \A i \in 1 .. Len(Filtered) : Filtered[i] \in Id /\ Servable(Filtered[i])
    BY FilteredIs, LenProperties, ElementOfSeq
<1>2. \A id \in Id : Servable(id) => \E i \in 1 .. Len(Filtered) : Filtered[i] = id
    BY FilteredIs
<1>3. ASSUME NEW id \in Id, Servable(id) PROVE pathOf[id] = books[id].path /\ pathOf[id] \in Path
  <2>1. books[id] \in BookRecord /\ id \in BooksIds
      BY <1>3 DEF Servable, BooksIds, LibraryOK
  <2>2. books[id].pathValid
      BY <1>3, <2>1, PathValidIsEnough DEF Servable
  <2> QED BY <2>1, <2>2, PathValidIsEnough
<1>4. \A i \in 1 .. Len(Filtered) : pathOf[Filtered[i]] \in Path
    BY <1>1, <1>3
<1>5. mapper = HumanReadableNameMapper(Filtered, pathOf)
    BY DEF ServerInit
<1> HIDE DEF pathOf
<1>6. mapper \in Mapper /\ NamesAreRight(mapper, Filtered, Len(Filtered), pathOf)
    BY <1>1, <1>4, <1>5, MapperIsRight
<1>7. PICK D \in SUBSET Name : mapper.nameToId \in [D -> Id]
    BY <1>6 DEF Mapper, PartialMap
<1>8. \A id \in Stable : id \in Id /\ StableBooks[id] = books[id] /\ (id \in served <=> Servable(id))
    BY StableIs
<1>9. served \subseteq Stable
    BY DEF ServedAllAlong
<1> HIDE DEF served
<1>10. \A b \in served : \E i \in 1 .. Len(Filtered) :
          /\ Filtered[i] = b /\ pathOf[Filtered[i]] = books[b].path /\ StableBooks[b] = books[b]
    BY <1>2, <1>3, <1>8, <1>9
<1>11. ASSUME NEW name \in DOMAIN mapper.nameToId
       PROVE  LET id == mapper.nameToId[name] IN
              /\ id \in Id
              /\ id \in Stable =>
                    /\ id \in served
                    /\ Called(StableBooks[id].path, name)
                    /\ (\E b \in served : HumanReadable[StableBooks[b].path] = name)
                          => HumanReadable[StableBooks[id].path] = name
  <2> DEFINE id == mapper.nameToId[name]
  <2>1. name \in Name /\ id \in Id
      BY <1>7
  <2> HIDE DEF id
  <2>2. /\ \E i \in 1 .. Len(Filtered) : Filtered[i] = id
        /\ Called(pathOf[id], name)
        /\ (\E i \in 1 .. Len(Filtered) : HumanReadable[pathOf[Filtered[i]]] = name)
              => HumanReadable[pathOf[id]] = name
      BY <1>6, <2>1 DEF NamesAreRight, id
  <2>3. Servable(id) /\ pathOf[id] = books[id].path
      BY <1>1, <1>3, <2>2
  <2>4. ASSUME id \in Stable
        PROVE  /\ id \in served
               /\ Called(StableBooks[id].path, name)
               /\ (\E b \in served : HumanReadable[StableBooks[b].path] = name)
                     => HumanReadable[StableBooks[id].path] = name
    <3>1. id \in served /\ StableBooks[id].path = pathOf[id]
        BY <1>8, <2>3, <2>4
    <3>2. ASSUME NEW b \in served, HumanReadable[StableBooks[b].path] = name
          PROVE  HumanReadable[pathOf[id]] = name
        BY <1>10, <2>2, <3>2
    <3> QED BY <2>2, <3>1, <3>2
  <2> QED BY <2>1, <2>4 DEF id
<1>12. ASSUME NEW b \in served, NEW name \in Name, Called(StableBooks[b].path, name)
       PROVE  name \in DOMAIN mapper.nameToId
    BY <1>6, <1>10, <1>12 DEF NamesAreRight
<1>13. DOMAIN mapper.nameToId \subseteq Name
    BY <1>7
<1> QED BY <1>11, <1>12, <1>13 DEF MapperRight, served

LEMMA ServerInitEstablishes == ServerInit => ServerInvariant
<1> SUFFICES ASSUME ServerInit PROVE ServerInvariant
    OBVIOUS
<1>1. LibraryOK
  <2>1. books \in [Id -> BookRecord \cup {NoBook}]
      BY DEF ServerInit
  <2>2. \A id \in Id : bookDB[id] = IF books[id] = NoBook THEN NoDoc ELSE books[id].meta
      BY DEF ServerInit
  <2>3. \A id \in Id : books[id] # NoBook => books[id].meta \in Meta
      BY <2>1, PathValidIsEnough
  <2>4. bookDB \in [Id -> Meta \cup {NoDoc}]
      BY <2>3 DEF ServerInit
  <2> QED BY <2>1, <2>2, <2>4 DEF ServerInit, LibraryOK, Stable
<1>2. AppOK
    BY DEF ServerInit, AppOK
<1>3. ThreadOK(Idle, StableBooks, mapper)
  <2>1. Idle.pc = "idle"
      BY DEF Idle
  <2>2. Idle.answer.kind = "none"
      BY IdleIsOK DEF NoAnswer
  <2> QED BY <2>1, <2>2, IdleIsOK
          DEF ThreadOK, RequestOK, HasBook, FileOK, ListOK, AnswerRight
<1>4. worker = [w \in Worker |-> Idle]
    BY DEF ServerInit
<1> QED BY <1>1, <1>2, <1>3, <1>4, IdleIsOK, MapperStartsRight DEF ServerInvariant

-----------------------------------------------------------------------------
LEMMA InvAnswersBooks == ServerInvariant => BookAnswersAreRight
<1> SUFFICES ASSUME ServerInvariant, NEW w \in Worker, worker[w].answer.kind = "book",
                    worker[w].answer.name \in DOMAIN mapper.nameToId =>
                       mapper.nameToId[worker[w].answer.name] \in Stable
             PROVE  LET a == worker[w].answer
                        id == mapper.nameToId[a.name]
                        Left == {b \in Stable : Servable(b)}
                    IN /\ a.status = 200 =>
                             /\ id \in Left /\ a.from = books[id].path
                             /\ Called(a.from, a.name)
                             /\ (\E b \in Left : HumanReadable[books[b].path] = a.name)
                                   => HumanReadable[a.from] = a.name
                       /\ a.status = 404 => \A b \in Left : ~Called(books[b].path, a.name)
                       /\ a.status = 500 => id \in Left
    BY DEF BookAnswersAreRight
<1> DEFINE a == worker[w].answer
           id == mapper.nameToId[a.name]
           Left == {b \in Stable : Servable(b)}
<1>1. AnswerRight(a, StableBooks, mapper) /\ MapperRight(StableBooks, mapper) /\ LibraryOK
    BY ThreadIs DEF ServerInvariant
<1>2. /\ Left = ServedAllAlong(StableBooks)
      /\ \A b \in Left : StableBooks[b] = books[b]
    BY <1>1, StableIs DEF ServedAllAlong
<1> HIDE DEF Left
<1>3. CASE a.name \in DOMAIN mapper.nameToId
  <2>1. /\ id \in Stable /\ a.status \in {200, 500}
        /\ a.status = 200 => a.from = StableBooks[id].path
      BY <1>1, <1>3 DEF AnswerRight
  <2>2. /\ id \in ServedAllAlong(StableBooks)
        /\ Called(StableBooks[id].path, a.name)
        /\ (\E b \in ServedAllAlong(StableBooks) :
               HumanReadable[StableBooks[b].path] = a.name)
              => HumanReadable[StableBooks[id].path] = a.name
      BY <1>1, <1>3, <2>1 DEF MapperRight
  <2> HIDE DEF a, id
  <2>3. id \in Left /\ StableBooks[id] = books[id]
      BY <1>2, <2>2
  <2>4. (\E b \in Left : HumanReadable[books[b].path] = a.name)
           => HumanReadable[StableBooks[id].path] = a.name
      BY <1>2, <2>2
  <2>5. /\ a.status = 200 =>
              /\ id \in Left /\ a.from = books[id].path
              /\ Called(a.from, a.name)
              /\ (\E b \in Left : HumanReadable[books[b].path] = a.name)
                    => HumanReadable[a.from] = a.name
        /\ a.status # 404 /\ id \in Left
      BY <2>1, <2>2, <2>3, <2>4
  <2> QED BY <2>5 DEF a, id, Left
<1>4. CASE a.name \notin DOMAIN mapper.nameToId
  <2>1. a.status = 404 /\ a.name \in Name
      BY <1>1, <1>4 DEF AnswerRight
  <2>2. \A b \in Left : ~Called(books[b].path, a.name)
      BY <1>1, <1>2, <1>4, <2>1 DEF MapperRight
  <2> QED BY <2>1, <2>2 DEF Left
<1> QED BY <1>3, <1>4

LEMMA InvCoversLibrary == ServerInvariant => ListsCoverTheLibrary
<1> SUFFICES ASSUME ServerInvariant PROVE ListsCoverTheLibrary
    OBVIOUS
<1>1. LibraryOK
    BY DEF ServerInvariant
<1>2. \A query : Right(StableBooks, query) =
          {id \in Stable : Servable(id) /\ (query \in Query => books[id].meta \in Matches[query])}
    BY <1>1, StableIs DEF Right, ServedAllAlong
<1>3. \A query : Right(StableBooks, query) \subseteq Stable
    BY DEF Right, ServedAllAlong
<1>4. ASSUME NEW w \in Worker, worker[w].answer.kind \in {"search", "catalog"},
             worker[w].answer.status = 200
      PROVE  LET a == worker[w].answer IN
             /\ Covers(a.listed, StableBooks, a.query, a.cut)
             /\ a.kind = "search" => a.query = "everything" /\ ~a.cut
    BY <1>4, ThreadIs DEF AnswerRight
<1>5. SearchCoversLibrary
  <2> SUFFICES ASSUME NEW w \in Worker, worker[w].answer.kind = "search",
                      worker[w].answer.status = 200
               PROVE  worker[w].answer.listed \cap Stable = {id \in Stable : Servable(id)}
      BY DEF SearchCoversLibrary
  <2> DEFINE a == worker[w].answer
  <2>1. Covers(a.listed, StableBooks, "everything", FALSE)
      BY <1>4 DEF Covers
  <2>2. Right(StableBooks, "everything") = {id \in Stable : Servable(id)}
      BY <1>2, ConstantsAssumption
  <2> QED BY <2>1, <2>2 DEF Covers
<1>6. CatalogListsTheLibrary
  <2> SUFFICES ASSUME NEW w \in Worker, worker[w].answer.kind = "catalog",
                      worker[w].answer.status = 200
               PROVE  LET a == worker[w].answer
                          right == {id \in Stable :
                                       /\ Servable(id)
                                       /\ a.query \in Query =>
                                             books[id].meta \in Matches[a.query]}
                      IN /\ a.listed \cap Stable \subseteq right
                         /\ a.listed \cap Stable # right => a.cut
      BY DEF CatalogListsTheLibrary
  <2> DEFINE a == worker[w].answer
  <2>1. Covers(a.listed, StableBooks, a.query, a.cut)
      BY <1>4
  <2> HIDE DEF a
  <2>2. /\ a.listed \cap Stable \subseteq Right(StableBooks, a.query)
        /\ a.cut \/ Right(StableBooks, a.query) \subseteq a.listed
      BY <2>1 DEF Covers
  <2>3. a.listed \cap Stable # Right(StableBooks, a.query) => a.cut
      BY <1>3, <2>2
  <2> QED BY <1>2, <2>2, <2>3 DEF a
<1> QED BY <1>5, <1>6 DEF ListsCoverTheLibrary

(* Each thread is right about the books that are left alone, wherever it   *)
(* is in its handler (internalServer.cpp, library.cpp).                    *)
THEOREM ServerInvariantHolds == ServerSpec => []ServerInvariant
BY ServerInitEstablishes, ServerNextKeeps, PTL DEF ServerSpec

(* However many threads open, store and read the same books, and whatever  *)
(* the application adds and removes meanwhile, an answer for another book  *)
(* is made from its file, under its name, and 404 is never a wrong one     *)
(* (internalServer.cpp get_archive, library.cpp getArchiveById).           *)
THEOREM AnswersCorrect == ServerSpec => []BookAnswersAreRight
BY ServerInvariantHolds, InvAnswersBooks, PTL

(* A library-wide search and a feed that succeed have all the books that   *)
(* match and were there all the time, and no others of those, although     *)
(* ids, records and files are read one after the other.                    *)
THEOREM ListsCorrect == ServerSpec => []ListsCoverTheLibrary
BY ServerInvariantHolds, InvCoversLibrary, PTL

-----------------------------------------------------------------------------
(***************************************************************************)
(* Lists of different numbers.                                             *)
(***************************************************************************)

LEMMA OnceIsNoLonger ==
    ASSUME NEW n \in Nat, NEW list \in Seq(1 .. n), Once(list)
    PROVE  Len(list) <= n
<1>1. /\ Len(list) \in Nat /\ DOMAIN list = 1 .. Len(list)
      /\ list \in [1 .. Len(list) -> 1 .. n]
    BY LenProperties
<1>2. ToSet(list) \in SUBSET (1 .. n)
    BY <1>1 DEF ToSet
<1>3. IsFiniteSet(1 .. n) /\ Cardinality(1 .. n) = n
    BY FS_Interval
<1>4. Cardinality(ToSet(list)) <= n
    BY <1>2, <1>3, FS_Subset
<1> QED BY <1>4, OnceHasAsMany

(* The same members, as many, so each of them once.                        *)
LEMMA EnoughForAll ==
    ASSUME NEW S, IsFiniteSet(S), NEW list \in SetToSeqs(S)
    PROVE  /\ list \in Seq(S) /\ Len(list) = Cardinality(S)
           /\ Once(list) /\ ToSet(list) = S
<1> DEFINE n == Cardinality(S)
<1>1. n \in Nat /\ list \in [1 .. n -> S] /\ \A i, j \in 1 .. n : i # j => list[i] # list[j]
    BY FS_CardinalityType DEF SetToSeqs
<1>2. list \in Seq(S) /\ Len(list) = n
    BY <1>1, SeqDef
<1>3. Once(list)
    BY <1>1, <1>2 DEF Once
<1>4. ToSet(list) \in SUBSET S
    BY <1>1, <1>2 DEF ToSet
<1>5. Cardinality(ToSet(list)) = n
    BY <1>2, <1>3, OnceHasAsMany
<1>6. ToSet(list) = S
    BY <1>4, <1>5, FS_Subset
<1> QED BY <1>2, <1>3, <1>6

LEMMA Reversed ==
    ASSUME NEW n \in Nat, NEW list, list = [i \in 1 .. n |-> i]
    PROVE  /\ list \in Seq(1 .. n) /\ Once(list) /\ ToSet(list) = 1 .. n
           /\ Reverse(list) \in Seq(1 .. n) /\ Once(Reverse(list))
           /\ ToSet(Reverse(list)) = 1 .. n
<1>1. list \in Seq(1 .. n) /\ Len(list) = n
    BY SeqDef
<1>2. Once(list) /\ ToSet(list) = 1 .. n
    BY <1>1 DEF Once, ToSet
<1>3. Reverse(list) = [i \in 1 .. n |-> (n - i) + 1]
    BY <1>1 DEF Reverse
<1>4. \A i \in 1 .. n : (n - i) + 1 \in 1 .. n /\ (n - ((n - i) + 1)) + 1 = i
    OBVIOUS
<1>5. Reverse(list) \in [1 .. n -> 1 .. n]
    BY <1>3, <1>4
<1>6. Reverse(list) \in Seq(1 .. n) /\ Len(Reverse(list)) = n
    BY <1>5, SeqDef
<1>7. Once(Reverse(list))
    BY <1>3, <1>6 DEF Once
<1>8. ToSet(Reverse(list)) = 1 .. n
  <2>1. \A k \in 1 .. n : \E i \in 1 .. n : Reverse(list)[i] = k
      BY <1>3, <1>4
  <2>2. DOMAIN Reverse(list) = 1 .. n /\ \A i \in 1 .. n : Reverse(list)[i] \in 1 .. n
      BY <1>5
  <2> QED BY <2>1, <2>2 DEF ToSet
<1> QED BY <1>1, <1>2, <1>6, <1>7, <1>8

-----------------------------------------------------------------------------
(***************************************************************************)
(* What a filter finds.                                                    *)
(***************************************************************************)

LEMMA LibraryIs ==
    ASSUME lib \in Libraries
    PROVE  /\ Len(lib) \in Nat /\ Len(lib) <= MaxSizeT /\ FeedIds = 1 .. Len(lib)
           /\ \A id \in FeedIds :
                 /\ \A c \in {"local", "remote", "valid"} : lib[id][c] \in BOOLEAN
                 /\ lib[id].valid => lib[id].local
                 /\ \A field \in TextField \cup {"title", "description"} :
                       lib[id][field] \in Seq(Word)
<1>1. lib \in Seq(ToSet(lib)) /\ Len(lib) <= MaxSizeT
    BY FeedsAssumption DEF IsLibrary
<1>2. Len(lib) \in Nat /\ FeedIds = 1 .. Len(lib)
    BY <1>1, LenProperties DEF FeedIds
<1>3. ASSUME NEW id \in FeedIds
      PROVE  /\ \A c \in {"local", "remote", "valid"} : lib[id][c] \in BOOLEAN
             /\ lib[id].valid => lib[id].local
             /\ \A field \in TextField \cup {"title", "description"} :
                   lib[id][field] \in Seq(Word)
  <2>1. lib[id] \in ToSet(lib)
      BY DEF ToSet, FeedIds
  <2> QED BY <2>1, FeedsAssumption DEF IsLibrary
<1> QED BY <1>1, <1>2, <1>3

(* The way of a query that selects everything finds what the index would.  *)
LEMMA EverythingIsHit ==
    ASSUME lib \in Libraries, NEW f, WillSelectEverything(f) PROVE XapianHits(f) = FeedIds
<1>1. /\ f.query = <<>> /\ f.acceptTags = {} /\ f.rejectTags = {}
      /\ \A field \in TextField : field \notin f.active
    BY DEF WillSelectEverything
<1>2. WordHits(f.query) = FeedIds
    BY <1>1 DEF WordHits
<1>3. TagHits(f.acceptTags, f.rejectTags) = FeedIds
    BY <1>1 DEF TagHits
<1>4. \A field \in TextField : FieldHits(f, field) = FeedIds
    BY <1>1 DEF FieldHits
<1> QED BY <1>2, <1>3, <1>4 DEF XapianHits

Accepted(f) == {id \in XapianHits(f) : AcceptedBy(f, lib[id])}

LEMMA FilterFinds ==
    ASSUME lib \in Libraries, NEW f
    PROVE  /\ FilterBooks(f) \in Seq(FeedIds) /\ Once(FilterBooks(f))
           /\ ToSet(FilterBooks(f)) = Accepted(f)
<1> DEFINE all == [n \in FeedIds |-> n]
           hits == ListViaBookDB(f)
           accepted == {id \in FeedIds : AcceptedBy(f, lib[id])}
<1>1. Len(lib) \in Nat /\ FeedIds = 1 .. Len(lib)
    BY LibraryIs
<1>2. XapianHits(f) \subseteq FeedIds
    BY DEF XapianHits, WordHits
<1>3. /\ all \in Seq(FeedIds) /\ Once(all) /\ ToSet(all) = FeedIds
      /\ Reverse(all) \in Seq(FeedIds) /\ Once(Reverse(all)) /\ ToSet(Reverse(all)) = FeedIds
    BY <1>1, Reversed
<1>4. hits \in Seq(FeedIds) /\ Once(hits) /\ ToSet(hits) = XapianHits(f)
  <2>1. hits = IF WillSelectEverything(f) THEN all ELSE OnlyIn(Reverse(all), XapianHits(f))
      BY DEF ListViaBookDB
  <2> HIDE DEF all, hits
  <2>2. CASE WillSelectEverything(f)
      BY <1>3, <2>1, <2>2, EverythingIsHit
  <2>3. CASE ~WillSelectEverything(f)
    <3> DEFINE reversed == Reverse(all)
               found == XapianHits(f)
    <3>1. /\ reversed \in Seq(FeedIds) /\ Once(reversed) /\ ToSet(reversed) = FeedIds
          /\ hits = OnlyIn(reversed, found) /\ found \subseteq FeedIds
        BY <1>2, <1>3, <2>1, <2>3
    <3> HIDE DEF reversed, found
    <3>2. /\ OnlyIn(reversed, found) \in Seq(FeedIds) /\ Once(OnlyIn(reversed, found))
          /\ ToSet(OnlyIn(reversed, found)) = ToSet(reversed) \cap found
        BY <3>1, OnlyInOnce
    <3>3. FeedIds \cap found = found
        BY <3>1
    <3> QED BY <3>1, <3>2, <3>3 DEF found
  <2> QED BY <2>2, <2>3
<1>5. FilterBooks(f) = OnlyIn(hits, accepted)
    BY DEF FilterBooks
<1>6. XapianHits(f) \cap accepted = Accepted(f)
    BY <1>2 DEF Accepted
<1> HIDE DEF hits, accepted
<1>7. /\ OnlyIn(hits, accepted) \in Seq(FeedIds) /\ Once(OnlyIn(hits, accepted))
      /\ ToSet(OnlyIn(hits, accepted)) = ToSet(hits) \cap accepted
    BY <1>4, OnlyInOnce
<1> QED BY <1>4, <1>5, <1>6, <1>7

-----------------------------------------------------------------------------
(***************************************************************************)
(* A filter says what was asked for.                                       *)
(***************************************************************************)

Flag == TextField \cup {"LOCAL", "NOLOCAL", "REMOTE", "NOREMOTE", "VALID", "NOVALID",
                        "QUERY", "ACCEPTTAGS", "REJECTTAGS", "MAXSIZE"}

Filters ==
    [active : SUBSET Flag, text : [TextField -> Seq(Word)], query : Seq(Word),
     acceptTags : Tags \cup {{}}, rejectTags : Tags \cup {{}}, maxSize : Bytes \cup {0}]

FlagSays(f, yes, no, accept) ==
    (yes \in f.active <=> accept = TRUE) /\ (no \in f.active <=> accept = FALSE)

Given(argument, otherwise) == IF argument = NotGiven THEN otherwise ELSE argument

FlagsSay(f, asked) ==
    /\ FlagSays(f, "LOCAL", "NOLOCAL", asked["local"])
    /\ FlagSays(f, "REMOTE", "NOREMOTE", asked["remote"])
    /\ FlagSays(f, "VALID", "NOVALID", asked["valid"])

TextSays(f, asked, field) ==
    /\ field \in f.active <=> asked[field] # NotGiven
    /\ asked[field] # NotGiven => f.text[field] = asked[field]

ValuesSay(f, asked) ==
    /\ f.query = Given(asked["query"], <<>>)
    /\ f.acceptTags = Given(asked["accept"], {})
    /\ f.rejectTags = Given(asked["reject"], {})

SizeSays(f, asked) ==
    /\ "MAXSIZE" \in f.active <=> asked["maxSize"] # NotGiven
    /\ asked["maxSize"] # NotGiven => f.maxSize = asked["maxSize"]

Says(f, asked) ==
    /\ FlagsSay(f, asked) /\ ValuesSay(f, asked) /\ SizeSays(f, asked)
    /\ \A field \in TextField : TextSays(f, asked, field)

LEMMA Arguments ==
    /\ Argument("local") = BOOLEAN /\ Argument("remote") = BOOLEAN /\ Argument("valid") = BOOLEAN
    /\ Argument("query") = Seq(Word) /\ \A field \in TextField : Argument(field) = Seq(Word)
    /\ Argument("accept") = Tags /\ Argument("reject") = Tags /\ Argument("maxSize") = Bytes
BY DEF Argument, TextField

LEMMA Setter ==
    ASSUME NEW f, NEW argument
    PROVE  /\ Call(f, "local", argument) = SetFlag(f, "LOCAL", "NOLOCAL", argument)
           /\ Call(f, "remote", argument) = SetFlag(f, "REMOTE", "NOREMOTE", argument)
           /\ Call(f, "valid", argument) = SetFlag(f, "VALID", "NOVALID", argument)
           /\ Call(f, "query", argument) = QueryFilter(f, argument)
           /\ Call(f, "accept", argument) = AcceptTags(f, argument)
           /\ Call(f, "reject", argument) = RejectTags(f, argument)
           /\ Call(f, "maxSize", argument) = MaxSize(f, argument)
           /\ \A field \in TextField : Call(f, field, argument) = TextFilter(f, field, argument)
<1>1. /\ Call(f, "local", argument) = Local(f, argument)
      /\ Call(f, "remote", argument) = Remote(f, argument)
      /\ Call(f, "valid", argument) = Valid(f, argument)
      /\ Call(f, "query", argument) = QueryFilter(f, argument)
      /\ Call(f, "accept", argument) = AcceptTags(f, argument)
      /\ Call(f, "reject", argument) = RejectTags(f, argument)
      /\ Call(f, "maxSize", argument) = MaxSize(f, argument)
      /\ \A field \in TextField : Call(f, field, argument) = TextFilter(f, field, argument)
    BY DEF Call, TextField
<1> QED BY <1>1 DEF Local, Remote, Valid

LEMMA NothingSaid == NewFilter \in Filters /\ IsAsked(NoCalls) /\ Says(NewFilter, NoCalls)
<1>1. NewFilter \in Filters
    BY EmptySeq DEF NewFilter, Filters
<1>2. \A c \in Criterion : NoCalls[c] = NotGiven
    BY DEF NoCalls
<1>3. IsAsked(NoCalls)
    BY DEF IsAsked, NoCalls
<1>4. NotGiven \notin BOOLEAN
  <2>1. "local" \in Criterion
      BY DEF Criterion
  <2> QED BY <2>1, Arguments, FeedsAssumption
<1>5. TextField \subseteq Criterion
    BY DEF Criterion
<1>6. /\ NewFilter.active = {} /\ NewFilter.query = <<>>
      /\ NewFilter.acceptTags = {} /\ NewFilter.rejectTags = {}
    BY DEF NewFilter
<1>7. /\ NoCalls["local"] = NotGiven /\ NoCalls["remote"] = NotGiven
      /\ NoCalls["valid"] = NotGiven /\ NoCalls["query"] = NotGiven
      /\ NoCalls["accept"] = NotGiven /\ NoCalls["reject"] = NotGiven
      /\ NoCalls["maxSize"] = NotGiven
      /\ \A field \in TextField : NoCalls[field] = NotGiven
    BY <1>2, <1>5 DEF Criterion
<1>8. Says(NewFilter, NoCalls)
    BY <1>4, <1>6, <1>7 DEF Says, FlagsSay, FlagSays, TextSays, ValuesSay, SizeSays, Given
<1> QED BY <1>1, <1>3, <1>8

LEMMA OneMoreIsAsked ==
    ASSUME NEW asked, IsAsked(asked), NEW c \in Criterion,
           NEW argument \in Argument(c) \cup {NotGiven}
    PROVE  /\ IsAsked([asked EXCEPT ![c] = argument])
           /\ \A d \in Criterion :
                 [asked EXCEPT ![c] = argument][d] = IF d = c THEN argument ELSE asked[d]
<1> DEFINE to == [asked EXCEPT ![c] = argument]
<1>1. to = [d \in Criterion |-> IF d = c THEN argument ELSE asked[d]]
    BY DEF IsAsked
<1> HIDE DEF to
<1>2. \A d \in Criterion : to[d] = NotGiven \/ to[d] \in Argument(d)
    BY <1>1 DEF IsAsked
<1>3. IsAsked(to)
    BY <1>1, <1>2 DEF IsAsked
<1> QED BY <1>1, <1>3 DEF to

LEMMA FlagIsSet ==
    ASSUME NEW f \in Filters, NEW yes \in Flag, NEW no \in Flag, yes # no,
           NEW accept \in BOOLEAN
    PROVE  LET new == SetFlag(f, yes, no, accept) IN
           /\ new \in Filters /\ FlagSays(new, yes, no, accept)
           /\ \A flag \in Flag \ {yes, no} : flag \in new.active <=> flag \in f.active
           /\ new.text = f.text /\ new.query = f.query /\ new.maxSize = f.maxSize
           /\ new.acceptTags = f.acceptTags /\ new.rejectTags = f.rejectTags
<1> DEFINE active == IF accept THEN (f.active \cup {yes}) \ {no} ELSE (f.active \cup {no}) \ {yes}
           new == SetFlag(f, yes, no, accept)
<1>1. active \in SUBSET Flag
    BY DEF Filters
<1>2. /\ yes \in active <=> accept = TRUE
      /\ no \in active <=> accept = FALSE
      /\ \A flag \in Flag \ {yes, no} : flag \in active <=> flag \in f.active
    OBVIOUS
<1> HIDE DEF active
<1>3. new = [f EXCEPT !.active = active]
    BY DEF SetFlag, active
<1>4. /\ new \in Filters /\ new.active = active
      /\ new.text = f.text /\ new.query = f.query /\ new.maxSize = f.maxSize
      /\ new.acceptTags = f.acceptTags /\ new.rejectTags = f.rejectTags
    BY <1>1, <1>3 DEF Filters
<1> HIDE DEF new
<1>5. FlagSays(new, yes, no, accept)
    BY <1>2, <1>4 DEF FlagSays
<1> QED BY <1>2, <1>4, <1>5 DEF new

(* What a call leaves as it is, says what it said.                         *)
LEMMA FlagsStay ==
    ASSUME NEW f, NEW asked, FlagsSay(f, asked), NEW new, NEW to,
           \A flag \in {"LOCAL", "NOLOCAL", "REMOTE", "NOREMOTE", "VALID", "NOVALID"} :
               flag \in new.active <=> flag \in f.active,
           \A c \in {"local", "remote", "valid"} : to[c] = asked[c]
    PROVE  FlagsSay(new, to)
BY DEF FlagsSay, FlagSays

LEMMA TextsStay ==
    ASSUME NEW f, NEW asked, \A field \in TextField : TextSays(f, asked, field), NEW new, NEW to,
           \A flag \in TextField : flag \in new.active <=> flag \in f.active,
           new.text = f.text,
           \A c \in TextField : to[c] = asked[c]
    PROVE  \A field \in TextField : TextSays(new, to, field)
BY DEF TextSays

LEMMA ValuesStay ==
    ASSUME NEW f, NEW asked, ValuesSay(f, asked), NEW new, NEW to,
           new.query = f.query, new.acceptTags = f.acceptTags, new.rejectTags = f.rejectTags,
           \A c \in {"query", "accept", "reject"} : to[c] = asked[c]
    PROVE  ValuesSay(new, to)
BY DEF ValuesSay, Given

LEMMA SizeStays ==
    ASSUME NEW f, NEW asked, SizeSays(f, asked), NEW new, NEW to,
           "MAXSIZE" \in new.active <=> "MAXSIZE" \in f.active, new.maxSize = f.maxSize,
           to["maxSize"] = asked["maxSize"]
    PROVE  SizeSays(new, to)
BY DEF SizeSays

LEMMA FlagCallSays ==
    ASSUME NEW f \in Filters, NEW asked, Says(f, asked), NEW accept \in BOOLEAN,
           NEW yes, NEW no, NEW c,
           <<c, yes, no>> \in {<<"local", "LOCAL", "NOLOCAL">>, <<"remote", "REMOTE", "NOREMOTE">>,
                              <<"valid", "VALID", "NOVALID">>},
           NEW to, \A d \in Criterion : to[d] = IF d = c THEN accept ELSE asked[d]
    PROVE  SetFlag(f, yes, no, accept) \in Filters /\ Says(SetFlag(f, yes, no, accept), to)
<1> DEFINE new == SetFlag(f, yes, no, accept)
<1>1. /\ yes \in Flag /\ no \in Flag /\ yes # no /\ c \in {"local", "remote", "valid"}
      /\ yes \notin TextField \cup {"MAXSIZE"} /\ no \notin TextField \cup {"MAXSIZE"}
      /\ TextField \cup {"MAXSIZE"} \subseteq Flag
    BY DEF Flag, TextField
<1>2. /\ new \in Filters /\ FlagSays(new, yes, no, accept)
      /\ \A flag \in Flag \ {yes, no} : flag \in new.active <=> flag \in f.active
      /\ new.text = f.text /\ new.query = f.query /\ new.maxSize = f.maxSize
      /\ new.acceptTags = f.acceptTags /\ new.rejectTags = f.rejectTags
    BY <1>1, FlagIsSet
<1> HIDE DEF new
<1>3. /\ to[c] = accept
      /\ \A d \in {"local", "remote", "valid"} : d # c => to[d] = asked[d]
      /\ \A d \in TextField \cup {"query", "accept", "reject", "maxSize"} : to[d] = asked[d]
    BY <1>1 DEF Criterion, TextField
<1>4. FlagsSay(new, to)
  <2>1. \A flag \in {"LOCAL", "NOLOCAL", "REMOTE", "NOREMOTE", "VALID", "NOVALID"} \ {yes, no} :
            flag \in new.active <=> flag \in f.active
      BY <1>2 DEF Flag
  <2>2. FlagsSay(f, asked)
      BY DEF Says
  <2>3. CASE c = "local" /\ yes = "LOCAL" /\ no = "NOLOCAL"
      BY <1>2, <1>3, <2>1, <2>2, <2>3 DEF FlagsSay, FlagSays
  <2>4. CASE c = "remote" /\ yes = "REMOTE" /\ no = "NOREMOTE"
      BY <1>2, <1>3, <2>1, <2>2, <2>4 DEF FlagsSay, FlagSays
  <2>5. CASE c = "valid" /\ yes = "VALID" /\ no = "NOVALID"
      BY <1>2, <1>3, <2>1, <2>2, <2>5 DEF FlagsSay, FlagSays
  <2> QED BY <2>3, <2>4, <2>5
<1>5. ValuesSay(new, to)
    BY <1>2, <1>3, ValuesStay DEF Says
<1>6. SizeSays(new, to)
    BY <1>1, <1>2, <1>3, SizeStays DEF Says
<1>7. \A field \in TextField : TextSays(new, to, field)
  <2>1. \A flag \in TextField : flag \in new.active <=> flag \in f.active
      BY <1>1, <1>2
  <2> QED BY <1>2, <1>3, <2>1, TextsStay DEF Says
<1> QED BY <1>2, <1>4, <1>5, <1>6, <1>7 DEF Says, new

LEMMA TextCallSays ==
    ASSUME NEW f \in Filters, NEW asked, Says(f, asked), NEW c \in TextField,
           NEW argument \in Seq(Word), argument # NotGiven,
           NEW to, \A d \in Criterion : to[d] = IF d = c THEN argument ELSE asked[d]
    PROVE  TextFilter(f, c, argument) \in Filters /\ Says(TextFilter(f, c, argument), to)
<1> DEFINE new == TextFilter(f, c, argument)
           active == f.active \cup {c}
           text == [f.text EXCEPT ![c] = argument]
<1>1. /\ c \notin {"LOCAL", "NOLOCAL", "REMOTE", "NOREMOTE", "VALID", "NOVALID", "MAXSIZE"}
      /\ TextField \subseteq Flag /\ TextField \subseteq Criterion
    BY DEF Flag, TextField, Criterion
<1>2. active \in SUBSET Flag /\ text \in [TextField -> Seq(Word)]
    BY <1>1 DEF Filters
<1>3. \A field \in TextField :
          /\ field \in active <=> field = c \/ field \in f.active
          /\ text[field] = IF field = c THEN argument ELSE f.text[field]
    BY DEF Filters
<1>4. \A flag \in {"LOCAL", "NOLOCAL", "REMOTE", "NOREMOTE", "VALID", "NOVALID", "MAXSIZE"} :
          flag \in active <=> flag \in f.active
    BY <1>1
<1>5. new = [f EXCEPT !.active = active, !.text = text]
    BY DEF TextFilter
<1> HIDE DEF active, text, new
<1>6. /\ new \in Filters /\ new.active = active /\ new.text = text
      /\ new.query = f.query /\ new.maxSize = f.maxSize
      /\ new.acceptTags = f.acceptTags /\ new.rejectTags = f.rejectTags
    BY <1>2, <1>5 DEF Filters
<1>7. \A d \in {"local", "remote", "valid", "query", "accept", "reject", "maxSize"} : to[d] = asked[d]
    BY DEF Criterion, TextField
<1>8. FlagsSay(new, to)
    BY <1>4, <1>6, <1>7, FlagsStay DEF Says
<1>9. ValuesSay(new, to)
    BY <1>6, <1>7, ValuesStay DEF Says
<1>10. SizeSays(new, to)
    BY <1>4, <1>6, <1>7, SizeStays DEF Says
<1>11. \A field \in TextField : TextSays(new, to, field)
    BY <1>1, <1>3, <1>6 DEF Says, TextSays
<1> QED BY <1>6, <1>8, <1>9, <1>10, <1>11 DEF Says, new

(* One flag more, which no text and no other setter has.                   *)
LEMMA OneFlagMore ==
    ASSUME NEW f \in Filters, NEW flag \in {"QUERY", "ACCEPTTAGS", "REJECTTAGS", "MAXSIZE"}
    PROVE  LET active == f.active \cup {flag} IN
           /\ active \in SUBSET Flag /\ flag \in active
           /\ \A other \in Flag : other # flag => (other \in active <=> other \in f.active)
           /\ TextField \subseteq Flag \ {flag}
           /\ {"LOCAL", "NOLOCAL", "REMOTE", "NOREMOTE", "VALID", "NOVALID"} \subseteq Flag \ {flag}
BY DEF Filters, Flag, TextField

LEMMA ValueCallSays ==
    ASSUME NEW f \in Filters, NEW asked, Says(f, asked), NEW c \in {"query", "accept", "reject", "maxSize"},
           NEW argument \in Argument(c), argument # NotGiven,
           NEW to, \A d \in Criterion : to[d] = IF d = c THEN argument ELSE asked[d]
    PROVE  Call(f, c, argument) \in Filters /\ Says(Call(f, c, argument), to)
<1> DEFINE new == Call(f, c, argument)
           flag == IF c = "query" THEN "QUERY" ELSE IF c = "accept" THEN "ACCEPTTAGS"
                   ELSE IF c = "reject" THEN "REJECTTAGS" ELSE "MAXSIZE"
           active == f.active \cup {flag}
<1>1. flag \in {"QUERY", "ACCEPTTAGS", "REJECTTAGS", "MAXSIZE"}
    OBVIOUS
<1>2. flag = "MAXSIZE" <=> c = "maxSize"
    OBVIOUS
<1> HIDE DEF flag
<1>3. /\ active \in SUBSET Flag /\ flag \in active
      /\ \A other \in Flag : other # flag => (other \in active <=> other \in f.active)
      /\ TextField \subseteq Flag \ {flag}
      /\ {"LOCAL", "NOLOCAL", "REMOTE", "NOREMOTE", "VALID", "NOVALID"} \subseteq Flag \ {flag}
    BY <1>1, OneFlagMore
<1>4. /\ c = "query" => new = [f EXCEPT !.active = active, !.query = argument] /\ argument \in Seq(Word)
      /\ c = "accept" => new = [f EXCEPT !.active = active, !.acceptTags = argument] /\ argument \in Tags
      /\ c = "reject" => new = [f EXCEPT !.active = active, !.rejectTags = argument] /\ argument \in Tags
      /\ c = "maxSize" => new = [f EXCEPT !.active = active, !.maxSize = argument] /\ argument \in Bytes
  <2>1. CASE c = "query"
      BY <2>1, Setter, Arguments DEF flag, QueryFilter
  <2>2. CASE c = "accept"
      BY <2>2, Setter, Arguments DEF flag, AcceptTags
  <2>3. CASE c = "reject"
      BY <2>3, Setter, Arguments DEF flag, RejectTags
  <2>4. CASE c = "maxSize"
      BY <2>4, Setter, Arguments DEF flag, MaxSize
  <2> QED BY <2>1, <2>2, <2>3, <2>4
<1> HIDE DEF active, new
<1>5. /\ new \in Filters /\ new.active = active /\ new.text = f.text
      /\ new.query = IF c = "query" THEN argument ELSE f.query
      /\ new.acceptTags = IF c = "accept" THEN argument ELSE f.acceptTags
      /\ new.rejectTags = IF c = "reject" THEN argument ELSE f.rejectTags
      /\ new.maxSize = IF c = "maxSize" THEN argument ELSE f.maxSize
  <2>1. CASE c = "query"
    <3>1. /\ new = [f EXCEPT !.active = active, !.query = argument]
          /\ argument \in Seq(Word)
        BY <1>4, <2>1
    <3>2. /\ new \in Filters /\ new.active = active /\ new.text = f.text /\ new.query = argument
          /\ new.acceptTags = f.acceptTags /\ new.rejectTags = f.rejectTags /\ new.maxSize = f.maxSize
        BY <1>3, <3>1 DEF Filters
    <3> QED BY <2>1, <3>2
  <2>2. CASE c = "accept"
    <3>1. /\ new = [f EXCEPT !.active = active, !.acceptTags = argument]
          /\ argument \in Tags
        BY <1>4, <2>2
    <3>2. /\ new \in Filters /\ new.active = active /\ new.text = f.text /\ new.acceptTags = argument
          /\ new.query = f.query /\ new.rejectTags = f.rejectTags /\ new.maxSize = f.maxSize
        BY <1>3, <3>1 DEF Filters
    <3> QED BY <2>2, <3>2
  <2>3. CASE c = "reject"
    <3>1. /\ new = [f EXCEPT !.active = active, !.rejectTags = argument]
          /\ argument \in Tags
        BY <1>4, <2>3
    <3>2. /\ new \in Filters /\ new.active = active /\ new.text = f.text /\ new.rejectTags = argument
          /\ new.query = f.query /\ new.acceptTags = f.acceptTags /\ new.maxSize = f.maxSize
        BY <1>3, <3>1 DEF Filters
    <3> QED BY <2>3, <3>2
  <2>4. CASE c = "maxSize"
    <3>1. /\ new = [f EXCEPT !.active = active, !.maxSize = argument]
          /\ argument \in Bytes
        BY <1>4, <2>4
    <3>2. /\ new \in Filters /\ new.active = active /\ new.text = f.text /\ new.maxSize = argument
          /\ new.query = f.query /\ new.acceptTags = f.acceptTags /\ new.rejectTags = f.rejectTags
        BY <1>3, <3>1 DEF Filters
    <3> QED BY <2>4, <3>2
  <2> QED BY <2>1, <2>2, <2>3, <2>4
<1>6. /\ \A d \in {"local", "remote", "valid"} \cup TextField : to[d] = asked[d]
      /\ \A d \in {"query", "accept", "reject", "maxSize"} : to[d] = IF d = c THEN argument ELSE asked[d]
    BY DEF Criterion, TextField
<1>7. FlagsSay(new, to)
  <2>1. \A other \in {"LOCAL", "NOLOCAL", "REMOTE", "NOREMOTE", "VALID", "NOVALID"} :
            other \in new.active <=> other \in f.active
      BY <1>3, <1>5
  <2> QED BY <1>6, <2>1, FlagsStay DEF Says
<1>8. \A field \in TextField : TextSays(new, to, field)
  <2>1. \A other \in TextField : other \in new.active <=> other \in f.active
      BY <1>3, <1>5
  <2> QED BY <1>5, <1>6, <2>1, TextsStay DEF Says
<1>9. ValuesSay(new, to)
    BY <1>5, <1>6 DEF Says, ValuesSay, Given
<1>10. SizeSays(new, to)
  <2>1. CASE c = "maxSize"
      BY <1>2, <1>3, <1>5, <1>6, <2>1 DEF SizeSays
  <2>2. CASE c # "maxSize"
    <3>1. "MAXSIZE" \in Flag /\ flag # "MAXSIZE"
        BY <1>2, <2>2 DEF Flag
    <3>2. "MAXSIZE" \in new.active <=> "MAXSIZE" \in f.active
        BY <1>3, <1>5, <3>1
    <3> QED BY <1>5, <1>6, <2>2, <3>2, SizeStays DEF Says
  <2> QED BY <2>1, <2>2
<1> QED BY <1>5, <1>7, <1>8, <1>9, <1>10 DEF Says, new

LEMMA CallSays ==
    ASSUME NEW f \in Filters, NEW asked, Says(f, asked),
           NEW c \in Criterion, NEW argument \in Argument(c),
           NEW to, \A d \in Criterion : to[d] = IF d = c THEN argument ELSE asked[d]
    PROVE  Call(f, c, argument) \in Filters /\ Says(Call(f, c, argument), to)
<1>1. argument # NotGiven
    BY FeedsAssumption
<1>2. CASE c = "local"
  <2>1. Call(f, c, argument) = SetFlag(f, "LOCAL", "NOLOCAL", argument) /\ argument \in BOOLEAN
      BY <1>2, Setter, Arguments
  <2>2. <<c, "LOCAL", "NOLOCAL">> \in {<<"local", "LOCAL", "NOLOCAL">>, <<"remote", "REMOTE", "NOREMOTE">>,
                                  <<"valid", "VALID", "NOVALID">>}
      BY <1>2
  <2> QED BY <2>1, <2>2, FlagCallSays
<1>3. CASE c = "remote"
  <2>1. Call(f, c, argument) = SetFlag(f, "REMOTE", "NOREMOTE", argument) /\ argument \in BOOLEAN
      BY <1>3, Setter, Arguments
  <2>2. <<c, "REMOTE", "NOREMOTE">> \in {<<"local", "LOCAL", "NOLOCAL">>, <<"remote", "REMOTE", "NOREMOTE">>,
                                  <<"valid", "VALID", "NOVALID">>}
      BY <1>3
  <2> QED BY <2>1, <2>2, FlagCallSays
<1>4. CASE c = "valid"
  <2>1. Call(f, c, argument) = SetFlag(f, "VALID", "NOVALID", argument) /\ argument \in BOOLEAN
      BY <1>4, Setter, Arguments
  <2>2. <<c, "VALID", "NOVALID">> \in {<<"local", "LOCAL", "NOLOCAL">>, <<"remote", "REMOTE", "NOREMOTE">>,
                                  <<"valid", "VALID", "NOVALID">>}
      BY <1>4
  <2> QED BY <2>1, <2>2, FlagCallSays
<1>5. CASE c \in TextField
  <2>1. Call(f, c, argument) = TextFilter(f, c, argument) /\ argument \in Seq(Word)
      BY <1>5, Setter, Arguments
  <2> QED BY <1>1, <1>5, <2>1, TextCallSays
<1>6. CASE c \in {"query", "accept", "reject", "maxSize"}
    BY <1>1, <1>6, ValueCallSays
<1> QED BY <1>2, <1>3, <1>4, <1>5, <1>6 DEF Criterion

LEMMA AllSetters ==
    /\ Len(Setters) = 12 /\ DOMAIN Setters = 1 .. 12
    /\ \A i \in 1 .. 12 : Setters[i] \in Criterion
    /\ \A c \in Criterion : \E i \in 1 .. 12 : Setters[i] = c
<1>1. Len(Setters) = 12 /\ DOMAIN Setters = 1 .. 12
    BY DEF Setters
<1>2. /\ Setters[1] = "local" /\ Setters[2] = "valid" /\ Setters[3] = "remote"
      /\ Setters[4] = "query" /\ Setters[5] = "maxSize" /\ Setters[6] = "name"
      /\ Setters[7] = "category" /\ Setters[8] = "lang" /\ Setters[9] = "publisher"
      /\ Setters[10] = "creator" /\ Setters[11] = "accept" /\ Setters[12] = "reject"
    BY DEF Setters
<1>3. \A i \in 1 .. 12 : i \in {1, 2, 3, 4, 5, 6, 7, 8, 9, 10, 11, 12}
    OBVIOUS
<1>4. \A i \in 1 .. 12 : Setters[i] \in Criterion
    BY <1>2, <1>3 DEF Criterion, TextField
<1>5. /\ 1 \in 1 .. 12 /\ 2 \in 1 .. 12 /\ 3 \in 1 .. 12 /\ 4 \in 1 .. 12
      /\ 5 \in 1 .. 12 /\ 6 \in 1 .. 12 /\ 7 \in 1 .. 12 /\ 8 \in 1 .. 12
      /\ 9 \in 1 .. 12 /\ 10 \in 1 .. 12 /\ 11 \in 1 .. 12 /\ 12 \in 1 .. 12
    OBVIOUS
<1>6. \A c \in Criterion : \E i \in 1 .. 12 : Setters[i] = c
    BY <1>2, <1>5, Zenon DEF Criterion, TextField
<1> QED BY <1>1, <1>4, <1>6

(* The first k of the setters have been called for what is given.          *)
UpTo(given, k) ==
    [c \in Criterion |-> IF \E i \in 1 .. k : Setters[i] = c THEN given[c] ELSE NotGiven]

LEMMA NextSetterSays ==
    ASSUME NEW given, IsAsked(given), NEW k \in 1 .. 12,
           NEW f \in Filters, Says(f, UpTo(given, k - 1)),
           NEW new, new = IF given[Setters[k]] = NotGiven THEN f ELSE Call(f, Setters[k], given[Setters[k]])
    PROVE  new \in Filters /\ Says(new, UpTo(given, k))
<1> DEFINE c == Setters[k]
           before == UpTo(given, k - 1)
           to == UpTo(given, k)
<1>1. /\ c \in Criterion /\ \A i \in 1 .. k : i \in 1 .. k - 1 \/ i = k
      /\ k \in 1 .. k /\ 1 .. k - 1 \subseteq 1 .. k
    BY AllSetters
<1>2. before = [d \in Criterion |-> IF \E i \in 1 .. k - 1 : Setters[i] = d THEN given[d] ELSE NotGiven]
    BY DEF UpTo
<1>3. to = [d \in Criterion |-> IF \E i \in 1 .. k : Setters[i] = d THEN given[d] ELSE NotGiven]
    BY DEF UpTo
<1> HIDE DEF before, to
<1>4. \A d \in Criterion : to[d] = IF d = c THEN given[c] ELSE before[d]
    BY <1>1, <1>2, <1>3
<1> HIDE DEF c
<1>5. CASE given[c] = NotGiven
  <2>1. to = before
    <3>1. before[c] = NotGiven
        BY <1>1, <1>2, <1>5
    <3>2. \A d \in Criterion : to[d] = before[d]
        BY <1>4, <1>5, <3>1
    <3> QED BY <1>2, <1>3, <3>2
  <2> QED BY <1>5, <2>1 DEF before, to, c
<1>6. CASE given[c] # NotGiven
  <2>1. given[c] \in Argument(c) /\ new = Call(f, c, given[c])
      BY <1>1, <1>6 DEF IsAsked, c
  <2>2. Says(f, before)
      BY DEF before
  <2>3. Call(f, c, given[c]) \in Filters /\ Says(Call(f, c, given[c]), to)
      BY <1>1, <1>4, <2>1, <2>2, CallSays
  <2> QED BY <2>1, <2>3 DEF to
<1> QED BY <1>5, <1>6

Sayable == {f \in Filters : \E asked : Says(f, asked)}

LEMMA SetterStays ==
    ASSUME NEW given, IsAsked(given), NEW f \in Sayable, NEW c \in Criterion
    PROVE  (IF given[c] = NotGiven THEN f ELSE Call(f, c, given[c])) \in Sayable
<1>1. CASE given[c] = NotGiven
    BY <1>1
<1>2. CASE given[c] # NotGiven
  <2>1. PICK asked : Says(f, asked)
      BY DEF Sayable
  <2>2. f \in Filters /\ given[c] \in Argument(c)
      BY <1>2 DEF Sayable, IsAsked
  <2> DEFINE to == [d \in Criterion |-> IF d = c THEN given[c] ELSE asked[d]]
  <2>3. \A d \in Criterion : to[d] = IF d = c THEN given[c] ELSE asked[d]
      OBVIOUS
  <2> HIDE DEF to
  <2>4. Call(f, c, given[c]) \in Filters /\ Says(Call(f, c, given[c]), to)
      BY <2>1, <2>2, <2>3, CallSays
  <2> QED BY <1>2, <2>4 DEF Sayable
<1> QED BY <1>1, <1>2

LEMMA FilterOfSays ==
    ASSUME NEW given, IsAsked(given)
    PROVE  FilterOf(given) \in Filters /\ Says(FilterOf(given), given)
<1> DEFINE N == 12
           Op(f, c) == IF given[c] = NotGiven THEN f ELSE Call(f, c, given[c])
           Eqn(iter) == iter = [t \in SUBSET (DOMAIN Setters) |->
                           IF t = {} THEN NewFilter ELSE Op(iter[t \ {Max(t)}], Setters[Max(t)])]
           it == CHOOSE iter : Eqn(iter)
           step == [i \in 1 .. N |-> [f \in Sayable |-> Op(f, Setters[i])]]
<1>1. FilterOf(given) = it[DOMAIN Setters]
    BY DEF FilterOf, FoldLeft, MapThenFoldSet
<1>2. N \in Nat /\ DOMAIN Setters = 1 .. N /\ \A i \in 1 .. N : Setters[i] \in Criterion
    BY AllSetters
<1>3. \A f \in Sayable, c \in Criterion : Op(f, c) \in Sayable
    BY SetterStays
<1>4. ASSUME NEW k \in 1 .. N, NEW f \in Filters, Says(f, UpTo(given, k - 1))
      PROVE  Op(f, Setters[k]) \in Filters /\ Says(Op(f, Setters[k]), UpTo(given, k))
    BY <1>4, NextSetterSays
<1> HIDE DEF Op
<1>5. step \in [1 .. N -> [Sayable -> Sayable]]
    BY <1>2, <1>3
<1>6. \A f \in Sayable, i \in 1 .. N : step[i][f] = Op(f, Setters[i])
    OBVIOUS
<1>7. NewFilter \in Filters /\ NewFilter \in Sayable /\ Says(NewFilter, UpTo(given, 0))
  <2>1. UpTo(given, 0) = NoCalls
      BY DEF UpTo, NoCalls
  <2> QED BY <2>1, NothingSaid DEF Sayable
<1> HIDE DEF step, N
<1>8. PICK iter \in [SUBSET (1 .. N) -> Sayable] : Iterates(iter, N, NewFilter, step)
    BY <1>2, <1>5, <1>7, IterationExists
<1>9. Eqn(iter)
  <2>1. ASSUME NEW t \in SUBSET (1 .. N), t # {}
        PROVE  step[Max(t)][iter[t \ {Max(t)}]] = Op(iter[t \ {Max(t)}], Setters[Max(t)])
    <3>1. Max(t) \in 1 .. N
        BY <1>2, <2>1, LargestNumber
    <3> QED BY <1>6, <1>8, <3>1
  <2> QED BY <1>2, <1>8, <2>1 DEF Iterates
<1>10. Eqn(it)
    BY <1>9
<1> HIDE DEF it
<1>11. it[{}] = NewFilter
    BY <1>10
<1> DEFINE Good == [k \in 0 .. N |-> {f \in Filters : Says(f, UpTo(given, k))}]
<1>12. ASSUME NEW k \in 1 .. N, it[1 .. k - 1] \in Good[k - 1] PROVE it[1 .. k] \in Good[k]
  <2>1. k \in Nat \ {0} /\ k - 1 \in 0 .. N /\ k \in 0 .. N /\ 1 .. k \in SUBSET (1 .. N)
      BY <1>2
  <2>2. 1 .. k # {} /\ Max(1 .. k) = k /\ (1 .. k) \ {k} = 1 .. k - 1
      BY <2>1, NumbersUpTo
  <2>3. it[1 .. k] = Op(it[1 .. k - 1], Setters[k])
      BY <1>2, <1>10, <2>1, <2>2
  <2>4. it[1 .. k - 1] \in Filters /\ Says(it[1 .. k - 1], UpTo(given, k - 1))
      BY <1>12, <2>1
  <2>5. it[1 .. k] \in Filters /\ Says(it[1 .. k], UpTo(given, k))
      BY <1>4, <2>3, <2>4
  <2> QED BY <2>1, <2>5
<1>13. it[{}] \in Good[0]
    BY <1>2, <1>7, <1>11
<1> HIDE DEF Good
<1>14. it[1 .. N] \in Good[N]
    BY <1>2, <1>12, <1>13, IterationStays
<1>15. it[1 .. N] \in Filters /\ Says(it[1 .. N], UpTo(given, N))
    BY <1>2, <1>14 DEF Good
<1>16. UpTo(given, 12) = given
  <2>1. UpTo(given, 12) = [c \in Criterion |-> given[c]]
      BY AllSetters DEF UpTo
  <2> QED BY <2>1 DEF IsAsked
<1> QED BY <1>1, <1>2, <1>15, <1>16 DEF N

-----------------------------------------------------------------------------
(***************************************************************************)
(* What a filter finds is what was asked for.                              *)
(***************************************************************************)

(* A text of one word occurs where there is a term for it.                 *)
LEMMA OneWordOccurs ==
    ASSUME NEW text \in Seq(Word), Len(text) <= 1, NEW in \in Seq(Word)
    PROVE  Occurs(text, in) <=> Len(text) = 1 /\ text[1] \in ToSet(in)
<1>1. /\ Len(text) \in Nat /\ Len(in) \in Nat /\ DOMAIN in = 1 .. Len(in)
      /\ \A i \in 1 .. Len(in) : in[i] \in Word
    BY LenProperties, ElementOfSeq
<1>4. text = <<>> <=> Len(text) = 0
  <2>1. CASE text = <<>>
      BY <2>1
  <2>2. CASE text # <<>>
      BY <2>2, EmptySeq
  <2> QED BY <2>1, <2>2
<1>2. ASSUME Occurs(text, in) PROVE Len(text) = 1 /\ text[1] \in ToSet(in)
  <2>1. text # <<>> /\ Len(text) = 1
    <3>1. text # <<>>
        BY <1>2 DEF Occurs
    <3>2. PICK n \in Nat : n = Len(text)
        BY <1>1
    <3>3. n # 0 /\ n <= 1
        BY <1>4, <3>1, <3>2
    <3>4. n = 1
        BY <3>3
    <3> QED BY <3>1, <3>2, <3>4
  <2>2. PICK i \in 0 .. Len(in), j \in 0 .. Len(in) : text = SubSeq(in, i + 1, j)
      BY <1>2 DEF Occurs, SubSeqs
  <2>3. i + 1 \in Int /\ j \in Int /\ \A k \in i + 1 .. j : in[k] \in Word
      BY <1>1, <2>2
  <2>4. /\ Len(text) = IF i + 1 <= j THEN j - (i + 1) + 1 ELSE 0
        /\ \A k \in 1 .. j - (i + 1) + 1 : text[k] = in[(i + 1) + k - 1]
      BY <2>2, <2>3, SubSeqProperties
  <2>5. j = i + 1 /\ text[1] = in[i + 1] /\ i + 1 \in 1 .. Len(in)
      BY <1>1, <2>1, <2>2, <2>4
  <2> QED BY <1>1, <2>1, <2>5 DEF ToSet
<1>3. ASSUME Len(text) = 1, text[1] \in ToSet(in) PROVE Occurs(text, in)
  <2>1. PICK i \in 1 .. Len(in) : text[1] = in[i]
      BY <1>1, <1>3 DEF ToSet
  <2>2. i - 1 \in 0 .. Len(in) /\ i \in 0 .. Len(in) /\ (i - 1) + 1 = i
      BY <1>1, <2>1
  <2> DEFINE part == SubSeq(in, i, i)
  <2>3. part \in Seq(Word) /\ Len(part) = 1 /\ part[1] = in[i]
    <3>1. i \in Int /\ \A k \in i .. i : in[k] \in Word
        BY <1>1, <2>1
    <3>2. /\ part \in Seq(Word) /\ Len(part) = IF i <= i THEN i - i + 1 ELSE 0
          /\ \A k \in 1 .. i - i + 1 : part[k] = in[i + k - 1]
        BY <3>1, SubSeqProperties
    <3> HIDE DEF part
    <3>3. i - i + 1 = 1 /\ 1 \in 1 .. i - i + 1 /\ i + 1 - 1 = i
        BY <3>1
    <3> QED BY <3>2, <3>3
  <2>4. part \in SubSeqs(in)
    <3> SUFFICES \E m, n \in 0 .. Len(in) : part = SubSeq(in, m + 1, n)
        BY DEF SubSeqs
    <3>1. part = SubSeq(in, (i - 1) + 1, i)
        BY <2>2
    <3> HIDE DEF part
    <3> QED BY <2>2, <3>1
  <2> HIDE DEF part
  <2>5. text = part
    <3>1. text \in [1 .. 1 -> Word] /\ part \in [1 .. 1 -> Word]
      <4>1. text \in [1 .. Len(text) -> Word] /\ part \in [1 .. Len(part) -> Word]
          BY <2>3, LenProperties
      <4> QED BY <1>3, <2>3, <4>1
    <3>2. \A k \in 1 .. 1 : text[k] = part[k]
        BY <2>1, <2>3
    <3> QED BY <3>1, <3>2
  <2>6. text # <<>>
      BY <1>3, <1>4
  <2> QED BY <2>4, <2>5, <2>6 DEF Occurs
<1> QED BY <1>2, <1>3

LEMMA FieldsAreMeant ==
    ASSUME lib \in Libraries, NEW f, NEW asked, IsAsked(asked), Says(f, asked), OneTerm(asked),
           NEW id \in FeedIds, NEW field \in TextField
    PROVE  id \in FieldHits(f, field) <=>
               (asked[field] # NotGiven => Occurs(asked[field], lib[id][field]))
<1>1. /\ field \in f.active <=> asked[field] # NotGiven
      /\ asked[field] # NotGiven => f.text[field] = asked[field]
    BY DEF Says, TextSays
<1>2. CASE asked[field] = NotGiven
    BY <1>1, <1>2 DEF FieldHits
<1>3. CASE asked[field] # NotGiven /\ field \in {"publisher", "creator"}
    BY <1>1, <1>3 DEF FieldHits, PhraseHits, Occurs
<1>4. CASE asked[field] # NotGiven /\ field \notin {"publisher", "creator"}
  <2>1. asked[field] \in Seq(Word)
    <3>1. field \in Criterion
        BY DEF Criterion
    <3> QED BY <1>4, <3>1, Arguments DEF IsAsked
  <2>2. Len(asked[field]) <= 1
      BY <1>4 DEF OneTerm, TextField
  <2>3. lib[id][field] \in Seq(Word)
      BY LibraryIs
  <2>4. Occurs(asked[field], lib[id][field]) <=>
            Len(asked[field]) = 1 /\ asked[field][1] \in ToSet(lib[id][field])
      BY <2>1, <2>2, <2>3, OneWordOccurs
  <2> QED BY <1>1, <1>4, <2>4 DEF FieldHits, TermHits, Terms
<1> QED BY <1>2, <1>3, <1>4

LEMMA WordsAreMeant ==
    ASSUME lib \in Libraries, NEW f, NEW asked, IsAsked(asked), Says(f, asked), NEW id \in FeedIds
    PROVE  id \in WordHits(f.query) <=>
               (asked.query \notin {NotGiven, <<>>} =>
                  LET words == ToSet(lib[id].title) \cup ToSet(lib[id].description) IN
                  /\ ToSet(Front(asked.query)) \subseteq words
                  /\ Completions[Last(asked.query)] \cap words # {})
<1> DEFINE query == asked.query
           words == ToSet(lib[id].title) \cup ToSet(lib[id].description)
<1>1. f.query = IF query = NotGiven THEN <<>> ELSE query
    BY DEF Says, ValuesSay, Given
<1>2. id \in WordHits(f.query) <=>
          \A n \in DOMAIN f.query :
              \E w \in IF n = Len(f.query) THEN Completions[f.query[n]] ELSE {f.query[n]} : w \in words
    BY DEF WordHits, Terms
<1> HIDE DEF words
<1>3. CASE query \in {NotGiven, <<>>}
    BY <1>1, <1>2, <1>3
<1>4. CASE query \notin {NotGiven, <<>>}
  <2>1. query \in Seq(Word)
    <3>1. "query" \in Criterion
        BY DEF Criterion
    <3> QED BY <1>4, <3>1, Arguments DEF IsAsked
  <2> DEFINE n == Len(query)
             front == Front(query)
  <2>2. n \in Nat /\ n # 0 /\ DOMAIN query = 1 .. n
      BY <1>4, <2>1, EmptySeq, LenProperties
  <2>3. Last(query) = query[n]
      BY DEF Last
  <2>4. ToSet(front) = {query[i] : i \in 1 .. n - 1}
    <3>1. 1 \in Int /\ n - 1 \in Int /\ \A i \in 1 .. n - 1 : query[i] \in Word
        BY <2>1, <2>2, ElementOfSeq
    <3>2. /\ front \in Seq(Word) /\ Len(front) = IF 1 <= n - 1 THEN n - 1 - 1 + 1 ELSE 0
          /\ \A i \in 1 .. n - 1 - 1 + 1 : front[i] = query[1 + i - 1]
        BY <3>1, SubSeqProperties DEF Front
    <3> HIDE DEF front
    <3>3. DOMAIN front = 1 .. n - 1
        BY <2>2, <3>2, LenProperties
    <3>4. \A i \in 1 .. n - 1 : front[i] = query[i]
        BY <2>2, <3>2
    <3> QED BY <3>3, <3>4 DEF ToSet
  <2> HIDE DEF n, front
  <2>5. id \in WordHits(f.query) <=>
            /\ \A i \in 1 .. n - 1 : query[i] \in words
            /\ \E w \in Completions[query[n]] : w \in words
    <3>1. n \in 1 .. n /\ \A i \in 1 .. n : i = n \/ i \in 1 .. n - 1
        BY <2>2
    <3>2. 1 .. n - 1 \subseteq 1 .. n /\ \A i \in 1 .. n - 1 : i # n
        BY <2>2
    <3>3. f.query = query /\ Len(f.query) = n
        BY <1>1, <1>4 DEF n
    <3>4. id \in WordHits(f.query) <=>
              \A i \in 1 .. n : \E w \in IF i = n THEN Completions[query[i]] ELSE {query[i]} : w \in words
        BY <1>2, <2>2, <3>3
    <3> QED BY <3>1, <3>2, <3>4
  <2>6. ToSet(front) \subseteq words <=> \A i \in 1 .. n - 1 : query[i] \in words
      BY <2>4
  <2>7. Completions[Last(query)] \cap words # {} <=> \E w \in Completions[query[n]] : w \in words
      BY <2>3
  <2> QED BY <1>4, <2>5, <2>6, <2>7 DEF words, front
<1> QED BY <1>3, <1>4

LEMMA FlagsAreMeant ==
    ASSUME lib \in Libraries, NEW f, NEW asked, IsAsked(asked), Says(f, asked), NEW id \in FeedIds
    PROVE  AcceptedBy(f, lib[id]) <=>
             /\ asked.local # NotGiven => lib[id].local = asked.local
             /\ asked.remote # NotGiven => lib[id].remote = asked.remote
             /\ asked.valid # NotGiven => (lib[id].local /\ lib[id].valid) = asked.valid
             /\ asked["maxSize"] # NotGiven => lib[id].size <= asked["maxSize"]
<1> DEFINE book == lib[id]
<1>1. \A c \in {"local", "remote", "valid"} :
          book[c] \in BOOLEAN /\ (asked[c] = NotGiven \/ asked[c] \in BOOLEAN)
  <2>1. \A c \in {"local", "remote", "valid"} : c \in Criterion
      BY DEF Criterion
  <2> QED BY <2>1, LibraryIs, Arguments DEF IsAsked
<1>2. NotGiven \notin BOOLEAN
  <2>1. "local" \in Criterion
      BY DEF Criterion
  <2> QED BY <2>1, Arguments, FeedsAssumption
<1>3. /\ "LOCAL" \in f.active <=> asked["local"] = TRUE
      /\ "NOLOCAL" \in f.active <=> asked["local"] = FALSE
      /\ "REMOTE" \in f.active <=> asked["remote"] = TRUE
      /\ "NOREMOTE" \in f.active <=> asked["remote"] = FALSE
      /\ "VALID" \in f.active <=> asked["valid"] = TRUE
      /\ "NOVALID" \in f.active <=> asked["valid"] = FALSE
    BY DEF Says, FlagsSay, FlagSays
<1>4. ("MAXSIZE" \in f.active => book.size <= f.maxSize) <=>
          (asked["maxSize"] # NotGiven => book.size <= asked["maxSize"])
    BY DEF Says, SizeSays
<1>5. ("LOCAL" \in f.active => book.local) /\ ("NOLOCAL" \in f.active => ~book.local) <=>
          (asked["local"] # NotGiven => book["local"] = asked["local"])
    BY <1>1, <1>2, <1>3
<1>6. ("REMOTE" \in f.active => book.remote) /\ ("NOREMOTE" \in f.active => ~book.remote) <=>
          (asked["remote"] # NotGiven => book["remote"] = asked["remote"])
    BY <1>1, <1>2, <1>3
<1>7. ("VALID" \in f.active => book.valid) /\ ("NOVALID" \in f.active => ~book.valid) <=>
          (asked["valid"] # NotGiven => (book.local /\ book.valid) = asked["valid"])
  <2>1. PICK isLocal \in BOOLEAN : isLocal = book.local
      BY <1>1
  <2>2. PICK isValid \in BOOLEAN : isValid = book.valid
      BY <1>1
  <2>3. isValid => isLocal
      BY <2>1, <2>2, LibraryIs
  <2>4. (isLocal /\ isValid) = isValid
      BY <2>3
  <2> QED BY <1>1, <1>2, <1>3, <2>1, <2>2, <2>4
<1> HIDE DEF book
<1>8. AcceptedBy(f, book) <=>
          /\ ("LOCAL" \in f.active => book.local) /\ ("NOLOCAL" \in f.active => ~book.local)
          /\ ("VALID" \in f.active => book.valid) /\ ("NOVALID" \in f.active => ~book.valid)
          /\ ("REMOTE" \in f.active => book.remote) /\ ("NOREMOTE" \in f.active => ~book.remote)
          /\ ("MAXSIZE" \in f.active => book.size <= f.maxSize)
    BY DEF AcceptedBy
<1> QED BY <1>4, <1>5, <1>6, <1>7, <1>8 DEF book

LEMMA TagsAreMeant ==
    ASSUME NEW f, NEW asked, Says(f, asked), NEW id \in FeedIds
    PROVE  id \in TagHits(f.acceptTags, f.rejectTags) <=>
             /\ asked["accept"] # NotGiven => asked["accept"] \subseteq lib[id].tags
             /\ asked["reject"] # NotGiven => asked["reject"] \cap lib[id].tags = {}
<1>1. /\ f.acceptTags = IF asked["accept"] = NotGiven THEN {} ELSE asked["accept"]
      /\ f.rejectTags = IF asked["reject"] = NotGiven THEN {} ELSE asked["reject"]
    BY DEF Says, ValuesSay, Given
<1>2. id \in TagHits(f.acceptTags, f.rejectTags) <=>
          f.acceptTags \subseteq lib[id].tags /\ f.rejectTags \cap lib[id].tags = {}
    BY DEF TagHits
<1>3. f.acceptTags \subseteq lib[id].tags <=>
          (asked["accept"] # NotGiven => asked["accept"] \subseteq lib[id].tags)
    BY <1>1
<1>4. f.rejectTags \cap lib[id].tags = {} <=>
          (asked["reject"] # NotGiven => asked["reject"] \cap lib[id].tags = {})
    BY <1>1
<1> QED BY <1>2, <1>3, <1>4

LEMMA MeantIs ==
    ASSUME lib \in Libraries, NEW f, NEW asked, IsAsked(asked), Says(f, asked), OneTerm(asked)
    PROVE  Accepted(f) = Meant(asked)
<1>1. ASSUME NEW id \in FeedIds PROVE id \in Accepted(f) <=> id \in Meant(asked)
  <2> DEFINE words == ToSet(lib[id].title) \cup ToSet(lib[id].description)
             Fields == \A c \in TextField : asked[c] # NotGiven => Occurs(asked[c], lib[id][c])
             Flags == /\ asked.local # NotGiven => lib[id].local = asked.local
                      /\ asked.remote # NotGiven => lib[id].remote = asked.remote
                      /\ asked.valid # NotGiven =>
                            (lib[id].local /\ lib[id].valid) = asked.valid
             Small == asked.maxSize # NotGiven => lib[id].size <= asked.maxSize
             Accepts == asked.accept # NotGiven => asked.accept \subseteq lib[id].tags
             Rejects == asked.reject # NotGiven => asked.reject \cap lib[id].tags = {}
             Words == asked.query \notin {NotGiven, <<>>} =>
                         /\ ToSet(Front(asked.query)) \subseteq words
                         /\ Completions[Last(asked.query)] \cap words # {}
  <2>1. id \in Accepted(f) <=>
            /\ id \in WordHits(f.query) /\ id \in TagHits(f.acceptTags, f.rejectTags)
            /\ \A field \in TextField : id \in FieldHits(f, field)
            /\ AcceptedBy(f, lib[id])
      BY DEF Accepted, XapianHits
  <2>2. id \in Meant(asked) <=> Flags /\ Fields /\ Accepts /\ Rejects /\ Small /\ Words
      BY DEF Meant
  <2>3. id \in WordHits(f.query) <=> Words
      BY WordsAreMeant
  <2>4. id \in TagHits(f.acceptTags, f.rejectTags) <=> Accepts /\ Rejects
      BY TagsAreMeant
  <2>5. (\A field \in TextField : id \in FieldHits(f, field)) <=> Fields
      BY FieldsAreMeant
  <2>6. AcceptedBy(f, lib[id]) <=> Flags /\ Small
      BY FlagsAreMeant
  <2> HIDE DEF Fields, Flags, Small, Accepts, Rejects, Words
  <2> QED BY <2>1, <2>2, <2>3, <2>4, <2>5, <2>6
<1>2. Accepted(f) \subseteq FeedIds /\ Meant(asked) \subseteq FeedIds
    BY DEF Accepted, XapianHits, WordHits, Meant
<1> QED BY <1>1, <1>2

-----------------------------------------------------------------------------
(***************************************************************************)
(* Every listed value finds its books.                                     *)
(***************************************************************************)

ListsTo(values, field, k) ==
    /\ values \in Seq(Seq(Word)) /\ Once(values)
    /\ \A id \in 1 .. k : ~lib[id].hasOrigId => Contains(values, lib[id][field])

LEMMA ListOneMore ==
    ASSUME NEW field, NEW k \in 1 .. Len(lib), lib[k][field] \in Seq(Word),
           NEW values, ListsTo(values, field, k - 1)
    PROVE  ListsTo(IF Contains(values, lib[k][field]) \/ lib[k].hasOrigId THEN values
                   ELSE Append(values, lib[k][field]), field, k)
<1> DEFINE value == lib[k][field]
           more == Append(values, value)
<1>1. /\ values \in Seq(Seq(Word)) /\ Once(values) /\ value \in Seq(Word)
      /\ \A id \in 1 .. k - 1 : ~lib[id].hasOrigId => Contains(values, lib[id][field])
    BY DEF ListsTo
<1>2. \A id \in 1 .. k : id = k \/ id \in 1 .. k - 1
    OBVIOUS
<1>3. CASE Contains(values, value) \/ lib[k].hasOrigId
    BY <1>1, <1>2, <1>3 DEF ListsTo
<1>4. CASE ~(Contains(values, value) \/ lib[k].hasOrigId)
  <2>1. /\ more \in Seq(Seq(Word)) /\ Len(more) = Len(values) + 1 /\ Len(values) \in Nat
        /\ \A i \in 1 .. Len(values) : more[i] = values[i]
        /\ more[Len(values) + 1] = value
      BY <1>1, AppendProperties, LenProperties
  <2>2. \A i \in 1 .. Len(values) : values[i] # value
      BY <1>4 DEF Contains
  <2> HIDE DEF value, more
  <2>3. Once(more)
    <3>1. \A i \in 1 .. Len(more) : i \in 1 .. Len(values) \/ i = Len(values) + 1
        BY <2>1
    <3> QED BY <1>1, <2>1, <2>2, <3>1 DEF Once
  <2>4. Contains(more, value)
    <3>1. Len(values) + 1 \in 1 .. Len(more)
        BY <2>1
    <3> QED BY <2>1, <3>1 DEF Contains
  <2>5. ASSUME NEW x, Contains(values, x) PROVE Contains(more, x)
    <3>1. \A i \in 1 .. Len(values) : i \in 1 .. Len(more)
        BY <2>1
    <3> QED BY <2>1, <2>5, <3>1 DEF Contains
  <2>6. ListsTo(more, field, k)
      BY <1>1, <1>2, <2>1, <2>3, <2>4, <2>5 DEF ListsTo, value
  <2> QED BY <1>4, <2>6 DEF value, more
<1> QED BY <1>3, <1>4

LEMMA ValuesAre ==
    ASSUME lib \in Libraries, NEW field \in TextField PROVE ListsTo(ValuesOf(field), field, Len(lib))
<1> DEFINE N == Len(lib)
           Op(values, book) == IF Contains(values, book[field]) \/ book.hasOrigId THEN values
                               ELSE Append(values, book[field])
           Eqn(iter) == iter = [t \in SUBSET (DOMAIN lib) |->
                           IF t = {} THEN <<>> ELSE Op(iter[t \ {Max(t)}], lib[Max(t)])]
           it == CHOOSE iter : Eqn(iter)
           Lists == Seq(Seq(Word))
           step == [i \in 1 .. N |-> [values \in Lists |-> Op(values, lib[i])]]
<1>1. ValuesOf(field) = it[DOMAIN lib]
    BY DEF ValuesOf, FoldLeft, MapThenFoldSet
<1>2. N \in Nat /\ DOMAIN lib = 1 .. N /\ \A i \in 1 .. N : lib[i][field] \in Seq(Word)
    BY LibraryIs DEF FeedIds
<1>3. ASSUME NEW values \in Lists, NEW i \in 1 .. N PROVE Op(values, lib[i]) \in Lists
    BY <1>2, <1>3, AppendProperties
<1>4. ASSUME NEW k \in 1 .. N, NEW values, ListsTo(values, field, k - 1)
      PROVE  ListsTo(Op(values, lib[k]), field, k)
    BY <1>2, <1>4, ListOneMore
<1> HIDE DEF Op
<1>5. step \in [1 .. N -> [Lists -> Lists]]
    BY <1>3
<1>6. \A values \in Lists, i \in 1 .. N : step[i][values] = Op(values, lib[i])
    OBVIOUS
<1>7. <<>> \in Lists /\ ListsTo(<<>>, field, 0)
  <2>1. <<>> \in Seq(Seq(Word)) /\ Len(<<>>) = 0
      BY EmptySeq
  <2> QED BY <2>1 DEF ListsTo, Once
<1> HIDE DEF step, N
<1>8. PICK iter \in [SUBSET (1 .. N) -> Lists] : Iterates(iter, N, <<>>, step)
    BY <1>2, <1>5, <1>7, IterationExists
<1>9. Eqn(iter)
  <2>1. ASSUME NEW t \in SUBSET (1 .. N), t # {}
        PROVE  step[Max(t)][iter[t \ {Max(t)}]] = Op(iter[t \ {Max(t)}], lib[Max(t)])
    <3>1. Max(t) \in 1 .. N
        BY <1>2, <2>1, LargestNumber
    <3> QED BY <1>6, <1>8, <3>1
  <2> QED BY <1>2, <1>8, <2>1 DEF Iterates
<1>10. Eqn(it)
    BY <1>9
<1> HIDE DEF it
<1>11. it[{}] = <<>>
    BY <1>10
<1> DEFINE Good == [k \in 0 .. N |-> {values \in Lists : ListsTo(values, field, k)}]
<1>12. ASSUME NEW k \in 1 .. N, it[1 .. k - 1] \in Good[k - 1] PROVE it[1 .. k] \in Good[k]
  <2>1. k \in Nat \ {0} /\ k - 1 \in 0 .. N /\ k \in 0 .. N /\ 1 .. k \in SUBSET (1 .. N)
      BY <1>2
  <2>2. 1 .. k # {} /\ Max(1 .. k) = k /\ (1 .. k) \ {k} = 1 .. k - 1
      BY <2>1, NumbersUpTo
  <2>3. it[1 .. k] = Op(it[1 .. k - 1], lib[k])
      BY <1>2, <1>10, <2>1, <2>2
  <2>4. ListsTo(it[1 .. k - 1], field, k - 1)
      BY <1>12, <2>1
  <2>5. ListsTo(it[1 .. k], field, k)
      BY <1>4, <2>3, <2>4
  <2>6. it[1 .. k] \in Lists
      BY <2>5 DEF ListsTo
  <2> QED BY <2>1, <2>5, <2>6
<1>13. it[{}] \in Good[0]
    BY <1>2, <1>7, <1>11
<1> HIDE DEF Good
<1>14. it[1 .. N] \in Good[N]
    BY <1>2, <1>12, <1>13, IterationStays
<1>15. ListsTo(it[1 .. N], field, N)
    BY <1>2, <1>14 DEF Good
<1> QED BY <1>1, <1>2, <1>15 DEF N

LEMMA ItselfOccurs ==
    ASSUME NEW text \in Seq(Word), text # <<>> PROVE Occurs(text, text)
<1>1. 0 \in 0 .. Len(text) /\ Len(text) \in 0 .. Len(text)
    BY LenProperties
<1>2. SubSeq(text, 0 + 1, Len(text)) = text
    BY SubSeqFull
<1> QED BY <1>1, <1>2 DEF Occurs, SubSeqs

LEMMA ValueFindsBooks ==
    ASSUME lib \in Libraries, NEW field \in {"lang", "creator", "publisher"},
           NEW value \in Seq(Word), value # <<>>, field = "lang" => Len(value) = 1,
           NEW id \in FeedIds, lib[id][field] = value
    PROVE  id \in ToSet(FilterBooks(TextFilter(NewFilter, field, value)))
<1> DEFINE f == TextFilter(NewFilter, field, value)
           asked == [NoCalls EXCEPT ![field] = value]
<1>1. field \in TextField /\ field \in Criterion /\ value \in Argument(field)
    BY Arguments DEF TextField, Criterion
<1>2. value # NotGiven
    BY <1>1, FeedsAssumption
<1>3. /\ IsAsked(asked)
      /\ \A d \in Criterion : asked[d] = IF d = field THEN value ELSE NoCalls[d]
    BY <1>1, NothingSaid, OneMoreIsAsked
<1> HIDE DEF asked
<1>4. Says(f, asked)
    BY <1>1, <1>2, <1>3, NothingSaid, TextCallSays
<1>5. \A d \in Criterion : asked[d] = IF d = field THEN value ELSE NotGiven
    BY <1>3 DEF NoCalls
<1>6. /\ asked["local"] = NotGiven /\ asked["remote"] = NotGiven /\ asked["valid"] = NotGiven
      /\ asked["query"] = NotGiven /\ asked["accept"] = NotGiven /\ asked["reject"] = NotGiven
      /\ asked["maxSize"] = NotGiven
      /\ \A d \in TextField : asked[d] = IF d = field THEN value ELSE NotGiven
    BY <1>5 DEF Criterion, TextField
<1> HIDE DEF f
<1>7. OneTerm(asked)
  <2>1. /\ asked["name"] = NotGiven /\ asked["category"] = NotGiven
        /\ asked["lang"] = IF field = "lang" THEN value ELSE NotGiven
      BY <1>6 DEF TextField
  <2>2. 1 <= 1
      OBVIOUS
  <2>3. asked["lang"] # NotGiven => Len(asked["lang"]) <= 1
      BY <2>1, <2>2, Zenon
  <2> QED BY <2>1, <2>3 DEF OneTerm
<1>8. id \in Meant(asked)
  <2>1. Occurs(value, value)
      BY ItselfOccurs
  <2> QED BY <1>6, <2>1 DEF Meant
<1>9. ToSet(FilterBooks(f)) = Meant(asked)
    BY <1>3, <1>4, <1>7, FilterFinds, MeantIs
<1> QED BY <1>8, <1>9 DEF f

LEMMA ListedValuesDo == ASSUME lib \in Libraries PROVE ListedValuesFindBooks
<1> SUFFICES ASSUME NEW field \in {"lang", "creator", "publisher"}
             PROVE  LET values == ValuesOf(field) IN
                    /\ Cardinality(ToSet(values)) = Len(values)
                    /\ \A id \in FeedIds : ~lib[id].hasOrigId => Contains(values, lib[id][field])
                    /\ \A value \in ToSet(values) \ {<<>>} :
                          (field = "lang" => Len(value) = 1)
                          => {id \in FeedIds : lib[id][field] = value}
                                \subseteq ToSet(FilterBooks(TextFilter(NewFilter, field, value)))
    BY DEF ListedValuesFindBooks
<1> DEFINE values == ValuesOf(field)
<1>1. ListsTo(values, field, Len(lib)) /\ FeedIds = 1 .. Len(lib)
    BY ValuesAre, LibraryIs DEF TextField
<1> HIDE DEF values
<1>2. values \in Seq(Seq(Word)) /\ Once(values)
    BY <1>1 DEF ListsTo
<1>3. Cardinality(ToSet(values)) = Len(values)
    BY <1>2, OnceHasAsMany
<1>4. \A id \in FeedIds : ~lib[id].hasOrigId => Contains(values, lib[id][field])
    BY <1>1 DEF ListsTo
<1>5. ASSUME NEW value \in ToSet(values) \ {<<>>}, field = "lang" => Len(value) = 1
      PROVE  {id \in FeedIds : lib[id][field] = value}
                \subseteq ToSet(FilterBooks(TextFilter(NewFilter, field, value)))
  <2>1. value \in Seq(Word) /\ value # <<>>
      BY <1>2, LenProperties, ElementOfSeq DEF ToSet
  <2> QED BY <1>5, <2>1, ValueFindsBooks
<1> QED BY <1>3, <1>4, <1>5 DEF values

-----------------------------------------------------------------------------
(***************************************************************************)
(* Lists and pages.                                                        *)
(***************************************************************************)

LEMMA SortedIs ==
    ASSUME NEW ids \in Seq(FeedIds), Once(ids), NEW order, NEW s \in Sorted(ids, order, TRUE)
    PROVE  /\ ToSet(s) = ToSet(ids) /\ Len(s) = Len(ids)
           /\ order # "UNSORTED" =>
                \A n \in 2 .. Len(s) : SortKey(order, s[n - 1]) <= SortKey(order, s[n])
<1>1. IsFiniteSet(ToSet(ids)) /\ Cardinality(ToSet(ids)) = Len(ids)
    BY OnceHasAsMany
<1>2. CASE order = "UNSORTED"
    BY <1>2 DEF Sorted
<1>3. CASE order # "UNSORTED"
  <2>1. /\ s \in SetToSeqs(ToSet(ids))
        /\ \A m, n \in DOMAIN s : m < n => SortKey(order, s[m]) <= SortKey(order, s[n])
      BY <1>3 DEF Sorted
  <2>2. s \in Seq(ToSet(ids)) /\ Len(s) = Len(ids) /\ ToSet(s) = ToSet(ids)
      BY <1>1, <2>1, EnoughForAll
  <2>3. DOMAIN s = 1 .. Len(s) /\ Len(s) \in Nat
      BY <2>2, LenProperties
  <2>4. \A n \in 2 .. Len(s) : n - 1 \in DOMAIN s /\ n \in DOMAIN s /\ n - 1 < n
      BY <2>3
  <2> QED BY <2>1, <2>2, <2>4
<1> QED BY <1>2, <1>3

LEMMA SmallRemainder ==
    ASSUME NEW m \in Nat, NEW n \in Nat, n < m PROVE n % m = n
OBVIOUS

LEMMA LargeRemainder ==
    ASSUME NEW m \in Nat, NEW n \in Nat, n < m PROVE (n + m) % m = n
OBVIOUS

LEMMA SumIs ==
    ASSUME NEW s \in 0 .. MaxSizeT, NEW n \in 0 .. MaxSizeT
    PROVE  (s + n) % (MaxSizeT + 1) = IF s + n <= MaxSizeT THEN s + n ELSE s + n - (MaxSizeT + 1)
<1> DEFINE M == MaxSizeT + 1
<1>1. M \in Nat /\ M > 0 /\ s \in Int /\ n \in Int /\ s + n \in 0 .. 2 * MaxSizeT
    BY FeedsAssumption
<1>2. ASSUME NEW x \in 0 .. MaxSizeT PROVE x % M = x
    BY <1>1, <1>2, SmallRemainder, FeedsAssumption
<1>3. ASSUME NEW x \in 0 .. MaxSizeT PROVE (x + M) % M = x
    BY <1>1, <1>3, LargeRemainder, FeedsAssumption
<1> HIDE DEF M
<1>4. CASE s + n <= MaxSizeT
    BY <1>1, <1>2, <1>4, FeedsAssumption DEF M
<1>5. CASE ~(s + n <= MaxSizeT)
  <2> DEFINE x == s + n - M
  <2>1. x \in 0 .. MaxSizeT /\ x + M = s + n
      BY <1>1, <1>5, FeedsAssumption DEF M
  <2> HIDE DEF x
  <2>2. (s + n) % M = x
      BY <1>3, <2>1
  <2> QED BY <1>5, <2>2 DEF M, x
<1> QED BY <1>4, <1>5

IsPage(page, v, s, n) ==
    \E from, to \in 0 .. Len(v) :
        /\ from = (IF s < Len(v) THEN s ELSE Len(v)) /\ from <= to
        /\ page = SubSeq(v, from + 1, to) /\ Len(page) = to - from
        /\ from = to => from = Len(v) \/ n = 0

(* A page is all it can be, and fails only by more than a size_t holds.    *)
LEMMA PageIs ==
    ASSUME NEW v \in Seq(Nat), Len(v) <= MaxSizeT,
           NEW s \in 0 .. MaxSizeT, NEW n \in 0 .. MaxSizeT
    PROVE  \/ Subrange(v, s, n) = NotGiven /\ s + n > MaxSizeT
           \/ Subrange(v, s, n) # NotGiven /\ IsPage(Subrange(v, s, n), v, s, n)
<1> DEFINE end == (s + n) % (MaxSizeT + 1)
           from == IF s < Len(v) THEN s ELSE Len(v)
           to == IF end < Len(v) THEN end ELSE Len(v)
           page == SubSeq(v, from + 1, to)
<1>1. Subrange(v, s, n) = IF to < from THEN NotGiven ELSE page
    BY DEF Subrange
<1>2. end = IF s + n <= MaxSizeT THEN s + n ELSE s + n - (MaxSizeT + 1)
    BY SumIs
<1>3. /\ Len(v) \in Nat /\ MaxSizeT \in Nat /\ s \in Nat /\ n \in Nat
      /\ s <= MaxSizeT /\ n <= MaxSizeT
    BY LenProperties, FeedsAssumption
<1> HIDE DEF end
<1>4. end \in Nat /\ (end < s => s + n > MaxSizeT) /\ (end = s => n = 0)
    BY <1>2, <1>3
<1>5. from \in 0 .. Len(v) /\ to \in 0 .. Len(v)
    BY <1>3, <1>4
<1>6. CASE to < from
  <2>1. end < s
      BY <1>3, <1>4, <1>6
  <2> QED BY <1>1, <1>4, <1>6, <2>1
<1>7. CASE from <= to
  <2>1. /\ page \in Seq(Nat)
        /\ Len(page) = IF from + 1 <= to THEN to - (from + 1) + 1 ELSE 0
    <3>1. \A i \in from + 1 .. to : v[i] \in Nat
        BY <1>3, <1>5, ElementOfSeq
    <3>2. from + 1 \in Int /\ to \in Int
        BY <1>3, <1>5
    <3> HIDE DEF from, to
    <3> QED BY <3>1, <3>2, SubSeqProperties
  <2>2. page # NotGiven
      BY <2>1, FeedsAssumption
  <2>3. from = to => from = Len(v) \/ n = 0
      BY <1>3, <1>4
  <2> HIDE DEF page
  <2>4. Subrange(v, s, n) = page /\ Len(page) = to - from
    <3> HIDE DEF from, to
    <3> QED BY <1>1, <1>3, <1>5, <1>7, <2>1
  <2>5. from = (IF s < Len(v) THEN s ELSE Len(v)) /\ page = SubSeq(v, from + 1, to)
      BY DEF page
  <2> HIDE DEF from, to
  <2>6. IsPage(page, v, s, n)
      BY <1>5, <1>7, <2>3, <2>4, <2>5 DEF IsPage
  <2> QED BY <2>2, <2>4, <2>6
<1> QED BY <1>3, <1>5, <1>6, <1>7

LEMMA SameLibrary ==
    ASSUME lib' = lib
    PROVE  /\ \A f : FilterBooks(f)' = FilterBooks(f)
           /\ \A ids, order : Sorted(ids, order, TRUE)' = Sorted(ids, order, TRUE)
<1>1. FeedIds' = FeedIds
    BY DEF FeedIds
<1>2. ASSUME NEW f PROVE FilterBooks(f)' = FilterBooks(f)
  <2>1. \A words : WordHits(words)' = WordHits(words)
      BY <1>1 DEF WordHits, Terms
  <2>2. \A accept, reject : TagHits(accept, reject)' = TagHits(accept, reject)
      BY <1>1 DEF TagHits
  <2>3. \A field : FieldHits(f, field)' = FieldHits(f, field)
      BY <1>1 DEF FieldHits, PhraseHits, TermHits, Terms
  <2>4. XapianHits(f)' = XapianHits(f)
      BY <2>1, <2>2, <2>3 DEF XapianHits
  <2>5. ListViaBookDB(f)' = ListViaBookDB(f)
      BY <1>1, <2>4 DEF ListViaBookDB
  <2> QED BY <1>1, <2>5 DEF FilterBooks
<1>3. ASSUME NEW ids, NEW order PROVE Sorted(ids, order, TRUE)' = Sorted(ids, order, TRUE)
    BY DEF Sorted, SortKey
<1> QED BY <1>2, <1>3

Found(request) == FilterBooks(GetSearchFilter(request))

AsReader(request) == [request EXCEPT !.local = TRUE, !.valid = TRUE]

LEMMA AsReaderIs ==
    ASSUME NEW request, IsAsked(request)
    PROVE  IsAsked(AsReader(request)) /\ (OneTerm(request) => OneTerm(AsReader(request)))
<1> DEFINE with(asked, c) == [asked EXCEPT ![c] = TRUE]
           once == with(request, "local")
           twice == with(once, "valid")
<1>1. ASSUME NEW asked, IsAsked(asked), NEW c \in {"local", "valid"}
      PROVE  /\ IsAsked(with(asked, c))
             /\ \A d \in Criterion : with(asked, c)[d] = IF d = c THEN TRUE ELSE asked[d]
  <2>1. PICK value : value = TRUE
      OBVIOUS
  <2>2. c \in Criterion /\ value \in Argument(c) \cup {NotGiven}
      BY <2>1, Arguments DEF Criterion
  <2>3. /\ IsAsked([asked EXCEPT ![c] = value])
        /\ \A d \in Criterion : [asked EXCEPT ![c] = value][d] = IF d = c THEN value ELSE asked[d]
      BY <1>1, <2>2, OneMoreIsAsked
  <2>4. with(asked, c) = [asked EXCEPT ![c] = value]
      BY <2>1
  <2> HIDE DEF with
  <2> QED BY <2>1, <2>3, <2>4
<1> HIDE DEF with
<1>2. IsAsked(once) /\ \A d \in Criterion : once[d] = IF d = "local" THEN TRUE ELSE request[d]
    BY <1>1
<1> HIDE DEF once
<1>3. IsAsked(twice) /\ \A d \in Criterion : twice[d] = IF d = "valid" THEN TRUE ELSE once[d]
    BY <1>1, <1>2
<1> HIDE DEF twice
<1>4. AsReader(request) = twice
    BY DEF AsReader, twice, once, with
<1>5. \A c \in {"name", "category", "lang"} : twice[c] = request[c]
    BY <1>2, <1>3 DEF Criterion, TextField
<1> QED BY <1>3, <1>4, <1>5 DEF OneTerm

LEMMA FoundIs ==
    ASSUME lib \in Libraries, NEW request, IsAsked(request)
    PROVE  /\ Found(request) \in Seq(FeedIds) /\ Found(request) \in Seq(Nat)
           /\ Once(Found(request)) /\ Len(Found(request)) \in 0 .. MaxSizeT
           /\ OneTerm(request) => ToSet(Found(request)) = Meant(AsReader(request))
<1> DEFINE f == FilterOf(AsReader(request))
           found == FilterBooks(f)
<1>1. Found(request) = found
    BY DEF Found, GetSearchFilter, AsReader
<1>2. f \in Filters /\ Says(f, AsReader(request))
    BY AsReaderIs, FilterOfSays
<1>3. found \in Seq(FeedIds) /\ Once(found) /\ ToSet(found) = Accepted(f)
    BY FilterFinds
<1>4. FeedIds = 1 .. Len(lib) /\ Len(lib) \in Nat /\ Len(lib) <= MaxSizeT
    BY LibraryIs
<1>5. OneTerm(request) => Accepted(f) = Meant(AsReader(request))
    BY <1>2, AsReaderIs, MeantIs
<1> HIDE DEF f, found
<1>6. Len(found) \in Nat /\ Len(found) <= MaxSizeT
    BY <1>3, <1>4, OnceIsNoLonger, LenProperties, FeedsAssumption
<1>7. found \in Seq(Nat)
  <2>1. DOMAIN found = 1 .. Len(found) /\ \A i \in 1 .. Len(found) : found[i] \in Nat
      BY <1>3, <1>4, LenProperties, ElementOfSeq
  <2>2. found \in [1 .. Len(found) -> Nat]
      BY <1>3, <2>1, LenProperties
  <2> QED BY <1>6, <2>2, SeqDef
<1> QED BY <1>1, <1>3, <1>5, <1>6, <1>7, FeedsAssumption

-----------------------------------------------------------------------------
(***************************************************************************)
(* The steps.                                                              *)
(***************************************************************************)

Orders == {"UNSORTED", "SIZE", "DATE"}

FilterInv ==
    /\ filter \in Filters /\ IsAsked(calls) /\ Says(filter, calls) /\ called \in 0 .. MaxCalls

(* What has been listed is of the filter as it is: no call comes after.    *)
ListingInv ==
    listing # NotGiven =>
        /\ called = MaxCalls /\ listing.ids \in Sorted(FilterBooks(filter), listing.order, TRUE)

TurnedAre(found) ==
    turned # NotGiven /\ feed.status = 200 =>
        NextStart <= Len(found) /\ turned = SubSeq(found, 1, NextStart)

(* A feed is the answer to its own request, and the pages up to it are the *)
(* first so many of all that there are.                                    *)
FeedInv ==
    feed # NotGiven =>
        /\ IsAsked(feed.request) /\ feed.start \in 0 .. MaxSizeT /\ feed.count \in 0 .. MaxSizeT
        /\ feed = SearchCatalog(feed.request, feed.start, feed.count)
        /\ TurnedAre(Found(feed.request))

FeedsInv == lib \in Libraries /\ FilterInv /\ ListingInv /\ FeedInv

LEMMA FeedsStart == ASSUME FeedsInit PROVE FeedsInv
<1>1. /\ lib \in Libraries /\ listing = NotGiven /\ feed = NotGiven /\ called = 0
      /\ filter = NewFilter /\ calls = NoCalls
    BY DEF FeedsInit
<1>2. FilterInv
    BY <1>1, NothingSaid, FeedsAssumption DEF FilterInv
<1> QED BY <1>1, <1>2 DEF FeedsInv, ListingInv, FeedInv

LEMMA FeedStays ==
    ASSUME FeedInv, UNCHANGED <<lib, feed, turned>> PROVE FeedInv'
<1> SUFFICES ASSUME feed # NotGiven
             PROVE  /\ feed = SearchCatalog(feed.request, feed.start, feed.count)'
                    /\ TurnedAre(Found(feed.request))'
    BY DEF FeedInv
<1>1. PICK request, s, n : request = feed.request /\ s = feed.start /\ n = feed.count
    OBVIOUS
<1>2. Found(request)' = Found(request)
    BY SameLibrary DEF Found
<1>3. SearchCatalog(request, s, n)' = SearchCatalog(request, s, n)
    BY <1>2 DEF SearchCatalog, Found
<1>4. TurnedAre(Found(feed.request))'
  <2>1. TurnedAre(Found(request))
      BY <1>1 DEF FeedInv
  <2>2. PICK found : found = Found(request)
      OBVIOUS
  <2>3. Found(feed.request)' = found
      BY <1>1, <1>2, <2>2
  <2>4. TurnedAre(found)'
      BY <2>1, <2>2 DEF TurnedAre, NextStart
  <2> QED BY <2>3, <2>4
<1>5. /\ Found(feed.request)' = Found(request)'
      /\ SearchCatalog(feed.request, feed.start, feed.count)' = SearchCatalog(request, s, n)'
    BY <1>1
<1> QED BY <1>1, <1>2, <1>3, <1>4, <1>5 DEF FeedInv

LEMMA ListingStays ==
    ASSUME ListingInv, UNCHANGED <<lib, filter, called, listing>> PROVE ListingInv'
<1> SUFFICES ASSUME listing # NotGiven
             PROVE  listing.ids \in Sorted(FilterBooks(filter), listing.order, TRUE)'
    BY DEF ListingInv
<1>1. PICK f, ids, order : f = filter /\ ids = FilterBooks(f) /\ order = listing.order
    OBVIOUS
<1>2. FilterBooks(filter)' = ids
    BY <1>1, SameLibrary
<1>3. Sorted(FilterBooks(filter), listing.order, TRUE)' = Sorted(ids, order, TRUE)'
    BY <1>1, <1>2
<1>4. Sorted(ids, order, TRUE)' = Sorted(ids, order, TRUE)
    BY SameLibrary
<1> QED BY <1>1, <1>3, <1>4 DEF ListingInv

LEMMA AnswerIs ==
    ASSUME lib \in Libraries, NEW request, IsAsked(request),
           NEW s \in 0 .. MaxSizeT, NEW n \in 0 .. MaxSizeT,
           NEW answer, answer = SearchCatalog(request, s, n),
           NEW found, found = Found(request)
    PROVE  /\ answer.request = request /\ answer.start = s /\ answer.count = n
           /\ answer.total = Len(found)
           /\ answer.status = 500 => s + n > MaxSizeT
           /\ answer.status = 200 => IsPage(answer.entries, found, s, n)
<1> DEFINE page == Subrange(found, s, n)
<1>1. answer = [status |-> IF page = NotGiven THEN 500 ELSE 200,
                request |-> request, start |-> s, count |-> n, total |-> Len(found),
                entries |-> IF page = NotGiven THEN <<>> ELSE page]
    BY DEF SearchCatalog, Found
<1>2. found \in Seq(Nat) /\ Len(found) <= MaxSizeT
    BY FoundIs, FeedsAssumption
<1>3. \/ page = NotGiven /\ s + n > MaxSizeT
      \/ page # NotGiven /\ IsPage(page, found, s, n)
    BY <1>2, PageIs
<1> HIDE DEF page
<1>4. /\ answer.request = request /\ answer.start = s /\ answer.count = n
      /\ answer.total = Len(found)
      /\ answer.status = IF page = NotGiven THEN 500 ELSE 200
      /\ answer.entries = IF page = NotGiven THEN <<>> ELSE page
    BY <1>1
<1>5. CASE page = NotGiven
    BY <1>3, <1>4, <1>5
<1>6. CASE page # NotGiven
  <2>1. answer.status = 200 /\ answer.entries = page
      BY <1>4, <1>6
  <2> QED BY <1>3, <1>4, <1>6, <2>1
<1> QED BY <1>5, <1>6

LEMMA BeginningIs ==
    ASSUME NEW V, NEW v \in Seq(V), NEW n \in 0 .. Len(v)
    PROVE  /\ SubSeq(v, 1, n) \in Seq(V) /\ Len(SubSeq(v, 1, n)) = n
           /\ \A i \in 1 .. n : SubSeq(v, 1, n)[i] = v[i]
<1> DEFINE w == SubSeq(v, 1, n)
<1>1. Len(v) \in Nat /\ n \in Int /\ 1 \in Int /\ \A i \in 1 .. n : v[i] \in V
    BY LenProperties, ElementOfSeq
<1>2. /\ w \in Seq(V) /\ Len(w) = IF 1 <= n THEN n - 1 + 1 ELSE 0
      /\ \A i \in 1 .. n - 1 + 1 : w[i] = v[1 + i - 1]
    BY <1>1, SubSeqProperties
<1> HIDE DEF w
<1>3. Len(w) = n /\ n - 1 + 1 = n
    BY <1>1, <1>2
<1>4. \A i \in 1 .. n : w[i] = v[i]
    BY <1>1, <1>2
<1> QED BY <1>2, <1>3, <1>4 DEF w

(* What is to be shown of an answer that has been given.                   *)
LEMMA Answered ==
    ASSUME lib \in Libraries, lib' = lib, NEW request, IsAsked(request),
           NEW s \in 0 .. MaxSizeT, NEW n \in 0 .. MaxSizeT,
           feed' = SearchCatalog(request, s, n),
           NEW found, found = Found(request), TurnedAre(found)'
    PROVE  FeedInv'
<1>1. PICK answer : answer = SearchCatalog(request, s, n)
    OBVIOUS
<1>2. answer.request = request /\ answer.start = s /\ answer.count = n
    BY <1>1, AnswerIs
<1>3. Found(request)' = Found(request)
    BY SameLibrary DEF Found
<1>4. SearchCatalog(request, s, n)' = SearchCatalog(request, s, n)
    BY <1>3 DEF SearchCatalog, Found
<1>5. feed'.request = request /\ feed'.start = s /\ feed'.count = n
    BY <1>1, <1>2
<1>6. /\ Found(feed.request)' = found
      /\ SearchCatalog(feed.request, feed.start, feed.count)' = feed'
    BY <1>3, <1>4, <1>5
<1> QED BY <1>5, <1>6 DEF FeedInv

LEMMA FirstPageFits ==
    ASSUME lib \in Libraries, lib' = lib, NEW request, IsAsked(request),
           NEW s \in 0 .. MaxSizeT, NEW n \in 0 .. MaxSizeT,
           feed' = SearchCatalog(request, s, n),
           turned' = IF feed'.start = 0 THEN feed'.entries ELSE NotGiven
    PROVE  FeedInv'
<1>1. PICK answer : answer = SearchCatalog(request, s, n)
    OBVIOUS
<1>2. PICK found : found = Found(request)
    OBVIOUS
<1>3. /\ answer.start = s
      /\ answer.status = 200 => IsPage(answer.entries, found, s, n)
    BY <1>1, <1>2, AnswerIs
<1>4. Len(found) \in Nat
    BY <1>2, FoundIs
<1>5. NextStart' = answer.start + Len(answer.entries)
    BY <1>1 DEF NextStart
<1>6. ASSUME turned' # NotGiven, feed'.status = 200
      PROVE  NextStart' <= Len(found) /\ turned' = SubSeq(found, 1, NextStart')
  <2>1. s = 0 /\ turned' = answer.entries /\ answer.status = 200
      BY <1>1, <1>3, <1>6
  <2>2. PICK from \in 0 .. Len(found), to \in 0 .. Len(found) :
               /\ from = (IF s < Len(found) THEN s ELSE Len(found)) /\ from <= to
               /\ answer.entries = SubSeq(found, from + 1, to)
               /\ Len(answer.entries) = to - from
      BY <1>3, <2>1 DEF IsPage
  <2>3. from = 0
      BY <1>4, <2>1, <2>2
  <2>4. NextStart' = to
      BY <1>3, <1>4, <1>5, <2>1, <2>2, <2>3
  <2>5. from + 1 = 1 /\ to <= Len(found)
      BY <1>4, <2>3
  <2> QED BY <2>1, <2>2, <2>4, <2>5, Zenon
<1>7. TurnedAre(found)'
    BY <1>6 DEF TurnedAre
<1> QED BY <1>2, <1>7, Answered

LEMMA NextPageFits == ASSUME lib \in Libraries, FeedInv, TurnPage PROVE FeedInv'
<1>1. /\ feed # NotGiven /\ feed.status = 200 /\ feed.entries # <<>> /\ NextStart < feed.total
      /\ feed' = SearchCatalog(feed.request, NextStart, feed.count)
      /\ turned' = (IF turned = NotGiven THEN NotGiven ELSE turned \o feed'.entries)
      /\ lib' = lib
    BY DEF TurnPage, HasNext
<1>2. /\ IsAsked(feed.request) /\ feed.start \in 0 .. MaxSizeT /\ feed.count \in 0 .. MaxSizeT
      /\ feed = SearchCatalog(feed.request, feed.start, feed.count)
      /\ turned # NotGiven =>
            /\ NextStart <= Len(Found(feed.request))
            /\ turned = SubSeq(Found(feed.request), 1, NextStart)
    BY <1>1 DEF FeedInv, TurnedAre
<1>3. PICK request, now, s, n :
          request = feed.request /\ now = feed /\ s = NextStart /\ n = feed.count
    OBVIOUS
<1>4. PICK found : found = Found(request)
    OBVIOUS
<1>5. IsAsked(request) /\ found \in Seq(Nat) /\ Len(found) \in 0 .. MaxSizeT
    BY <1>2, <1>3, <1>4, FoundIs
<1>6. /\ now.total = Len(found)
      /\ now.status = 200 => IsPage(now.entries, found, now.start, n)
  <2>1. PICK start \in 0 .. MaxSizeT : start = feed.start
      BY <1>2
  <2>2. n \in 0 .. MaxSizeT /\ now = SearchCatalog(request, start, n)
      BY <1>2, <1>3, <2>1
  <2> QED BY <1>4, <1>5, <2>1, <2>2, AnswerIs
<1>7. Len(now.entries) \in Nat
  <2>1. PICK from \in 0 .. Len(found), to \in 0 .. Len(found) :
            from <= to /\ Len(now.entries) = to - from
      BY <1>1, <1>3, <1>6 DEF IsPage
  <2> QED BY <1>5, <2>1
<1>8. s \in 0 .. MaxSizeT /\ s < Len(found)
  <2>1. s = feed.start + Len(now.entries) /\ s < Len(found)
      BY <1>1, <1>3, <1>6 DEF NextStart
  <2> QED BY <1>2, <1>5, <1>7, <2>1, FeedsAssumption
<1>9. PICK answer : answer = SearchCatalog(request, s, n)
    OBVIOUS
<1>10. n \in 0 .. MaxSizeT /\ feed' = answer
    BY <1>1, <1>2, <1>3, <1>9
<1>11. /\ answer.start = s
       /\ answer.status = 200 => IsPage(answer.entries, found, s, n)
    BY <1>4, <1>5, <1>8, <1>9, <1>10, AnswerIs
<1>12. ASSUME turned' # NotGiven, feed'.status = 200
       PROVE  NextStart' <= Len(found) /\ turned' = SubSeq(found, 1, NextStart')
  <2>1. PICK to \in 0 .. Len(found) :
               /\ s <= to
               /\ answer.entries = SubSeq(found, s + 1, to)
               /\ Len(answer.entries) = to - s
      BY <1>8, <1>10, <1>11, <1>12 DEF IsPage
  <2>2. turned = SubSeq(found, 1, s) /\ turned' = turned \o answer.entries
      BY <1>1, <1>2, <1>3, <1>4, <1>10, <1>12
  <2>3. SubSeq(found, 1, s) \o SubSeq(found, s + 1, to) = SubSeq(found, 1, to)
    <3>1. 1 \in 1 .. Len(found) + 1 /\ s \in 1 - 1 .. Len(found) /\ to \in s .. Len(found)
        BY <1>5, <1>8, <2>1
    <3> QED BY <1>5, <3>1, ConcatAdjacentSubSeq
  <2>4. NextStart' = to
    <3>1. NextStart' = s + Len(answer.entries)
        BY <1>10, <1>11 DEF NextStart
    <3> QED BY <1>5, <1>8, <2>1, <3>1
  <2>5. to <= Len(found)
      BY <1>5, <2>1
  <2> QED BY <2>1, <2>2, <2>3, <2>4, <2>5, Zenon
<1>13. feed' = SearchCatalog(request, s, n)
    BY <1>9, <1>10
<1>14. TurnedAre(found)'
    BY <1>12 DEF TurnedAre
<1>15. lib' = lib /\ IsAsked(request) /\ s \in 0 .. MaxSizeT /\ n \in 0 .. MaxSizeT
    BY <1>1, <1>5, <1>8, <1>10
<1> QED BY <1>4, <1>13, <1>14, <1>15, Answered

LEMMA CallStays ==
    ASSUME FeedsInv, NEW c \in Criterion, NEW argument \in Argument(c), SetFilter(c, argument)
    PROVE  FeedsInv'
<1>1. /\ called < MaxCalls /\ called' = called + 1
      /\ filter' = Call(filter, c, argument) /\ calls' = [calls EXCEPT ![c] = argument]
      /\ lib' = lib /\ listing' = listing /\ feed' = feed /\ turned' = turned
    BY DEF SetFilter
<1>2. FilterInv'
  <2>1. filter \in Filters /\ IsAsked(calls) /\ Says(filter, calls) /\ called \in 0 .. MaxCalls
      BY DEF FeedsInv, FilterInv
  <2>2. PICK f, asked : f = filter /\ asked = calls
      OBVIOUS
  <2> DEFINE to == [asked EXCEPT ![c] = argument]
  <2>3. IsAsked(to) /\ \A d \in Criterion : to[d] = IF d = c THEN argument ELSE asked[d]
      BY <2>1, <2>2, OneMoreIsAsked
  <2>4. calls' = to
      BY <1>1, <2>2
  <2> HIDE DEF to
  <2>5. Call(f, c, argument) \in Filters /\ Says(Call(f, c, argument), to)
      BY <2>1, <2>2, <2>3, CallSays
  <2>6. called' \in 0 .. MaxCalls
      BY <1>1, <2>1, FeedsAssumption
  <2>7. filter' = Call(f, c, argument)
      BY <1>1, <2>2
  <2> QED BY <2>3, <2>4, <2>5, <2>6, <2>7 DEF FilterInv
<1>3. ListingInv'
  <2>1. called # MaxCalls
      BY <1>1, FeedsAssumption DEF FeedsInv, FilterInv
  <2>2. listing' = NotGiven
      BY <1>1, <2>1 DEF FeedsInv, ListingInv
  <2> QED BY <2>2 DEF ListingInv
<1>4. FeedInv'
    BY <1>1, FeedStays DEF FeedsInv
<1> QED BY <1>1, <1>2, <1>3, <1>4 DEF FeedsInv

LEMMA ListStays ==
    ASSUME FeedsInv, NEW given, IsAsked(given), NEW order, ListBooksIds(given, order)
    PROVE  FeedsInv'
<1>1. /\ called' = MaxCalls /\ filter' = FilterOf(given) /\ calls' = given
      /\ lib' = lib /\ feed' = feed /\ turned' = turned
    BY DEF ListBooksIds
<1>2. FilterInv'
  <2>1. FilterOf(given) \in Filters /\ Says(FilterOf(given), given)
      BY FilterOfSays
  <2>2. MaxCalls \in 0 .. MaxCalls
      BY FeedsAssumption
  <2> QED BY <1>1, <2>1, <2>2 DEF FilterInv
<1>3. ListingInv'
  <2>1. PICK f : f = filter'
      OBVIOUS
  <2>2. PICK ids \in Sorted(FilterBooks(f), order, TRUE) : listing' = [order |-> order, ids |-> ids]
      BY <2>1 DEF ListBooksIds
  <2>3. PICK found : found = FilterBooks(f)
      OBVIOUS
  <2>4. FilterBooks(filter)' = found
      BY <1>1, <2>1, <2>3, SameLibrary
  <2>5. Sorted(found, order, TRUE)' = Sorted(found, order, TRUE)
      BY <1>1, SameLibrary
  <2>6. listing'.ids = ids /\ listing'.order = order
      BY <2>2
  <2>7. Sorted(FilterBooks(filter), listing.order, TRUE)' = Sorted(found, order, TRUE)
      BY <2>4, <2>5, <2>6
  <2> QED BY <1>1, <2>2, <2>3, <2>6, <2>7 DEF ListingInv
<1>4. FeedInv'
    BY <1>1, FeedStays DEF FeedsInv
<1> QED BY <1>1, <1>2, <1>3, <1>4 DEF FeedsInv

(* A reader does not touch what the application asks for.                  *)
LEMMA OthersStay ==
    ASSUME FeedsInv, UNCHANGED <<lib, filter, calls, called, listing>>, FeedInv' PROVE FeedsInv'
<1>1. FilterInv'
    BY DEF FeedsInv, FilterInv
<1>2. ListingInv'
    BY ListingStays DEF FeedsInv
<1> QED BY <1>1, <1>2 DEF FeedsInv

LEMMA OpenStays ==
    ASSUME FeedsInv, NEW request, IsAsked(request),
           NEW start \in Number \cup {NotGiven}, NEW count \in Number \cup {NotGiven},
           OpenFeed(request, start, count)
    PROVE  FeedsInv'
<1> DEFINE s == IF start = NotGiven THEN 0 ELSE start
           n == IF count = NotGiven THEN DefaultCount ELSE count
<1>1. /\ feed' = SearchCatalog(request, s, n)
      /\ turned' = IF feed'.start = 0 THEN feed'.entries ELSE NotGiven
      /\ UNCHANGED <<lib, filter, calls, called, listing>>
    BY DEF OpenFeed
<1>2. s \in 0 .. MaxSizeT /\ n \in 0 .. MaxSizeT
    BY FeedsAssumption
<1> HIDE DEF s, n
<1>3. FeedInv'
    BY <1>1, <1>2, FirstPageFits DEF FeedsInv
<1> QED BY <1>1, <1>3, OthersStay

LEMMA RootStays == ASSUME FeedsInv, OpenRoot PROVE FeedsInv'
<1> DEFINE request == [NoCalls EXCEPT !["remote"] = TRUE]
<1>1. IsAsked(request)
  <2>1. "remote" \in Criterion /\ TRUE \in Argument("remote") \cup {NotGiven}
      BY Arguments DEF Criterion
  <2> QED BY <2>1, NothingSaid, OneMoreIsAsked
<1>2. /\ feed' = [status |-> 200, request |-> request, start |-> 0,
                   count |-> Len(Found(request)), total |-> Len(Found(request)),
                   entries |-> Found(request)]
      /\ turned' = feed'.entries
      /\ UNCHANGED <<lib, filter, calls, called, listing>>
    BY DEF OpenRoot, Found
<1> HIDE DEF request
<1>3. PICK found : found = Found(request)
    OBVIOUS
<1>4. found \in Seq(Nat) /\ Len(found) \in 0 .. MaxSizeT
    BY <1>1, <1>3, FoundIs DEF FeedsInv
<1>5. Subrange(found, 0, Len(found)) = found
  <2>1. PICK n \in 0 .. MaxSizeT : n = Len(found)
      BY <1>4
  <2>2. (0 + Len(found)) % (MaxSizeT + 1) = Len(found)
    <3>1. n \in Nat /\ MaxSizeT + 1 \in Nat /\ n < MaxSizeT + 1 /\ 0 + n = n
        BY FeedsAssumption
    <3>2. n % (MaxSizeT + 1) = n
        BY <3>1, SmallRemainder
    <3> QED BY <2>1, <3>1, <3>2
  <2>3. (IF 0 < n THEN 0 ELSE n) = 0 /\ (IF n < n THEN n ELSE n) = n /\ ~(n < 0) /\ 0 + 1 = 1
      BY <2>1, FeedsAssumption
  <2>4. Subrange(found, 0, Len(found)) = SubSeq(found, 1, Len(found))
      BY <2>1, <2>2, <2>3 DEF Subrange
  <2> QED BY <1>4, <2>4, SubSeqFull
<1>6. found # NotGiven
    BY <1>4, FeedsAssumption
<1>7. SearchCatalog(request, 0, Len(found))
          = [status |-> 200, request |-> request, start |-> 0,
             count |-> Len(found), total |-> Len(found), entries |-> found]
    BY <1>3, <1>5, <1>6 DEF SearchCatalog, Found
<1>8. feed' = SearchCatalog(request, 0, Len(found))
    BY <1>2, <1>3, <1>7
<1>9. feed'.start = 0
    BY <1>2
<1>10. 0 \in 0 .. MaxSizeT
    BY FeedsAssumption
<1>11. turned' = IF feed'.start = 0 THEN feed'.entries ELSE NotGiven
    BY <1>2, <1>9
<1>12. FeedInv'
    BY <1>1, <1>2, <1>4, <1>8, <1>10, <1>11, FirstPageFits DEF FeedsInv
<1> QED BY <1>2, <1>12, OthersStay

LEMMA CategoryStays ==
    ASSUME FeedsInv, NEW category \in GetBooksCategories, FollowCategory(category) PROVE FeedsInv'
<1> DEFINE request == [NoCalls EXCEPT !["category"] = category]
<1>1. IsAsked(request)
  <2>1. category \in Seq(Word)
      BY LibraryIs DEF GetBooksCategories, FeedsInv, TextField
  <2>2. "category" \in Criterion /\ category \in Argument("category") \cup {NotGiven}
      BY <2>1, Arguments DEF Criterion, TextField
  <2> QED BY <2>2, NothingSaid, OneMoreIsAsked
<1>2. OpenFeed(request, NotGiven, NotGiven)
    BY DEF FollowCategory
<1> HIDE DEF request
<1> QED BY <1>1, <1>2, OpenStays

LEMMA FeedsStep == ASSUME FeedsInv, [FeedsNext]_feedVars PROVE FeedsInv'
<1>1. CASE ApplicationLists
  <2>1. ASSUME NEW c \in {"local", "remote", "valid"}, NEW accept \in BOOLEAN, SetFilter(c, accept)
        PROVE  FeedsInv'
    <3>1. c \in Criterion /\ accept \in Argument(c)
        BY Arguments DEF Criterion
    <3> QED BY <2>1, <3>1, CallStays
  <2>2. ASSUME NEW c \in TextField \cup {"query"}, NEW text \in Text, SetFilter(c, text)
        PROVE  FeedsInv'
    <3>1. c \in Criterion /\ text \in Argument(c)
        BY Arguments, FeedsAssumption DEF Criterion
    <3> QED BY <2>2, <3>1, CallStays
  <2>3. ASSUME NEW c \in {"accept", "reject"}, NEW tags \in Tags, SetFilter(c, tags)
        PROVE  FeedsInv'
    <3>1. c \in Criterion /\ tags \in Argument(c)
        BY Arguments DEF Criterion
    <3> QED BY <2>3, <3>1, CallStays
  <2>4. ASSUME NEW size \in Bytes, SetFilter("maxSize", size) PROVE FeedsInv'
    <3>1. "maxSize" \in Criterion /\ size \in Argument("maxSize")
        BY Arguments DEF Criterion
    <3> QED BY <2>4, <3>1, CallStays
  <2>5. ASSUME NEW given \in Listed, NEW order \in Orders, ListBooksIds(given, order)
        PROVE  FeedsInv'
    <3>1. IsAsked(given)
        BY FeedsAssumption
    <3> QED BY <2>5, <3>1, ListStays
  <2> QED BY <1>1, <2>1, <2>2, <2>3, <2>4, <2>5 DEF ApplicationLists, Orders
<1>2. CASE ReaderBrowses
  <2>1. ASSUME NEW request \in Requested, NEW start \in Number \cup {NotGiven},
               NEW count \in Number \cup {NotGiven}, OpenFeed(request, start, count)
        PROVE  FeedsInv'
    <3>1. IsAsked(request)
        BY FeedsAssumption
    <3> QED BY <2>1, <3>1, OpenStays
  <2>2. CASE OpenRoot
      BY <2>2, RootStays
  <2>3. ASSUME NEW category \in GetBooksCategories, FollowCategory(category) PROVE FeedsInv'
      BY <2>3, CategoryStays
  <2>4. CASE TurnPage
    <3>1. FeedInv'
        BY <2>4, NextPageFits DEF FeedsInv
    <3>2. UNCHANGED <<lib, filter, calls, called, listing>>
        BY <2>4 DEF TurnPage
    <3> QED BY <3>1, <3>2, OthersStay
  <2> QED BY <1>2, <2>1, <2>2, <2>3, <2>4 DEF ReaderBrowses
<1>3. CASE UNCHANGED feedVars
  <2>1. UNCHANGED <<lib, filter, calls, called, listing>> /\ UNCHANGED <<lib, feed, turned>>
      BY <1>3 DEF feedVars
  <2>2. FeedInv'
      BY <2>1, FeedStays DEF FeedsInv
  <2> QED BY <2>1, <2>2, OthersStay
<1> QED BY <1>1, <1>2, <1>3 DEF FeedsNext

-----------------------------------------------------------------------------
(* The filter says what its calls, or the arguments of listBooksIds, ask   *)
(* for; a list is a sorting of what the filter finds; a feed answers its   *)
(* own request, and the pages turned so far are the first so many entries. *)
THEOREM FeedsInvariant == FeedsSpec => []FeedsInv
<1>1. FeedsInit => FeedsInv
    BY FeedsStart
<1>2. FeedsInv /\ [FeedsNext]_feedVars => FeedsInv'
    BY FeedsStep
<1> QED BY <1>1, <1>2, PTL DEF FeedsSpec

LEMMA FiltersFollow == ASSUME FeedsInv PROVE FiltersListTheRightBooks
<1>1. lib \in Libraries /\ IsAsked(calls) /\ Says(filter, calls)
    BY DEF FeedsInv, FilterInv
<1> DEFINE found == FilterBooks(filter)
<1>2. PICK f, asked : f = filter /\ asked = calls
    OBVIOUS
<1>3. /\ found \in Seq(FeedIds) /\ Once(found) /\ ToSet(found) = Accepted(filter)
      /\ OneTerm(calls) => Accepted(filter) = Meant(calls)
    BY <1>1, <1>2, FilterFinds, MeantIs
<1> HIDE DEF found
<1>4. OneTerm(calls) => ToSet(found) = Meant(calls) /\ Len(found) = Cardinality(ToSet(found))
    BY <1>3, OnceHasAsMany
<1>5. ASSUME listing # NotGiven
      PROVE  /\ ToSet(listing.ids) = ToSet(found) /\ Len(listing.ids) = Len(found)
             /\ listing.order # "UNSORTED" =>
                   \A n \in 2 .. Len(listing.ids) :
                       SortKey(listing.order, listing.ids[n - 1])
                           <= SortKey(listing.order, listing.ids[n])
  <2>1. listing.ids \in Sorted(found, listing.order, TRUE)
      BY <1>5 DEF FeedsInv, ListingInv, found
  <2> QED BY <1>3, <2>1, SortedIs
<1>6. FilterMeansItsCalls
    BY <1>4, <1>5 DEF FilterMeansItsCalls, found
<1> QED BY <1>1, <1>6, ListedValuesDo DEF FiltersListTheRightBooks

(* A filter lists exactly the books that satisfy the last call of each of  *)
(* its setters, sorted as asked, and every listed language, creator and    *)
(* publisher leads to all its books, in every library, after any calls.    *)
THEOREM FiltersCorrect == FeedsSpec => []FiltersListTheRightBooks
<1>1. FeedsInv => FiltersListTheRightBooks
    BY FiltersFollow
<1> QED BY <1>1, FeedsInvariant, PTL

LEMMA PagesFollow == ASSUME FeedsInv PROVE FeedPagesFitTogether
<1> SUFFICES ASSUME feed # NotGiven
             PROVE  LET all == Meant(AsReader(feed.request)) IN
                    /\ feed.status = 500 => feed.start + feed.count > MaxSizeT
                    /\ OneTerm(feed.request) => feed.total = Cardinality(all)
                    /\ OneTerm(feed.request) /\ turned # NotGiven /\ feed.status = 200 =>
                          /\ ToSet(turned) \subseteq all /\ Len(turned) = Cardinality(ToSet(turned))
                          /\ HasNext \/ feed.count = 0 \/ ToSet(turned) = all
    BY DEF FeedPagesFitTogether, AsReader
<1>1. /\ lib \in Libraries
      /\ IsAsked(feed.request) /\ feed.start \in 0 .. MaxSizeT /\ feed.count \in 0 .. MaxSizeT
      /\ feed = SearchCatalog(feed.request, feed.start, feed.count)
      /\ turned # NotGiven /\ feed.status = 200 =>
            /\ NextStart <= Len(Found(feed.request))
            /\ turned = SubSeq(Found(feed.request), 1, NextStart)
    BY DEF FeedsInv, FeedInv, TurnedAre
<1>2. PICK request, found, s, n :
          /\ request = feed.request /\ found = Found(feed.request)
          /\ s = feed.start /\ n = feed.count
    OBVIOUS
<1>3. /\ s \in 0 .. MaxSizeT /\ n \in 0 .. MaxSizeT
      /\ found \in Seq(FeedIds) /\ Once(found) /\ Len(found) \in 0 .. MaxSizeT
      /\ OneTerm(request) => ToSet(found) = Meant(AsReader(request))
    BY <1>1, <1>2, FoundIs
<1>4. PICK answer : answer = feed
    OBVIOUS
<1>5. /\ answer.total = Len(found)
      /\ answer.status = 500 => s + n > MaxSizeT
      /\ answer.status = 200 => IsPage(answer.entries, found, s, n)
    BY <1>1, <1>2, <1>3, <1>4, AnswerIs
<1>6. Cardinality(ToSet(found)) = Len(found)
    BY <1>3, OnceHasAsMany
<1>7. ASSUME turned # NotGiven, feed.status = 200
      PROVE  /\ ToSet(turned) \subseteq ToSet(found) /\ Len(turned) = Cardinality(ToSet(turned))
             /\ HasNext \/ feed.count = 0 \/ ToSet(turned) = ToSet(found)
  <2>1. PICK from \in 0 .. Len(found), to \in 0 .. Len(found) :
            /\ from = (IF s < Len(found) THEN s ELSE Len(found)) /\ from <= to
            /\ Len(feed.entries) = to - from
            /\ from = to => from = Len(found) \/ n = 0
      BY <1>4, <1>5, <1>7 DEF IsPage
  <2>2. NextStart = s + (to - from) /\ NextStart <= Len(found) /\ turned = SubSeq(found, 1, NextStart)
      BY <1>1, <1>2, <1>7, <2>1 DEF NextStart
  <2>3. PICK end : end = NextStart
      OBVIOUS
  <2>4. end \in 0 .. Len(found)
      BY <1>3, <2>1, <2>2, <2>3
  <2>5. PICK v : v = turned
      OBVIOUS
  <2>6. /\ v \in Seq(FeedIds) /\ Len(v) = end
        /\ \A i \in 1 .. end : v[i] = found[i]
      BY <1>3, <2>2, <2>3, <2>4, <2>5, BeginningIs
  <2>7. Once(v)
      BY <1>3, <2>4, <2>6 DEF Once
  <2>8. ToSet(v) \subseteq ToSet(found)
      BY <1>3, <2>4, <2>6, LenProperties DEF ToSet
  <2>9. Len(v) = Cardinality(ToSet(v))
      BY <2>6, <2>7, OnceHasAsMany
  <2>10. CASE end = Len(found)
    <3>1. v = found
        BY <1>3, <2>6, <2>10, SeqEqual
    <3> QED BY <2>5, <2>8, <2>9, <3>1
  <2>11. CASE end # Len(found)
    <3>1. end < Len(found)
        BY <1>3, <2>4, <2>11
    <3>2. CASE feed.entries # <<>>
      <4>1. HasNext
        <5>1. feed.total = Len(found)
            BY <1>4, <1>5
        <5>2. NextStart < feed.total
            BY <2>3, <3>1, <5>1
        <5> QED BY <1>7, <3>2, <5>2 DEF HasNext
      <4> QED BY <2>5, <2>8, <2>9, <4>1
    <3>3. CASE feed.entries = <<>>
      <4>1. to - from = 0
          BY <2>1, <3>3, EmptySeq
      <4>2. from = to /\ end = s
          BY <1>3, <2>1, <2>2, <2>3, <4>1
      <4>3. from # Len(found)
          BY <1>3, <2>1, <3>1, <4>2
      <4>4. n = 0
          BY <2>1, <4>2, <4>3
      <4> QED BY <1>2, <2>5, <2>8, <2>9, <4>4
    <3> QED BY <3>2, <3>3
  <2> QED BY <2>10, <2>11
<1>8. /\ feed.status = 500 => feed.start + feed.count > MaxSizeT
      /\ feed.total = Cardinality(ToSet(found))
    BY <1>2, <1>4, <1>5, <1>6
<1>9. OneTerm(feed.request) => ToSet(found) = Meant(AsReader(feed.request))
    BY <1>2, <1>3
<1> QED BY <1>7, <1>8, <1>9

(* Who turns the pages of a feed from the first one on gets every local    *)
(* and valid book that the request asks for, once, in every library, for   *)
(* pages of every length, and the total is their number.                   *)
THEOREM FeedsCorrect == FeedsSpec => []FeedPagesFitTogether
<1>1. FeedsInv => FeedPagesFitTogether
    BY PagesFollow
<1> QED BY <1>1, FeedsInvariant, PTL
=============================================================================
