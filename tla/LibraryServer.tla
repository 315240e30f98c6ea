---------------------------- MODULE LibraryServer ----------------------------
(***************************************************************************)
(* The library behind the HTTP server: the threads of the pool run the     *)
(* request handlers (src/src/server/internalServer.cpp) on one Library     *)
(* that has no lock, while the application that owns the library may add   *)
(* to it and remove from it.  A thread is interrupted between any two uses *)
(* of a container of the library.                                          *)
(*                                                                         *)
(* Two unordered uses of one container, one of them a change, are a data   *)
(* race: the process may crash, or go on as if they came one by one.       *)
(***************************************************************************)
EXTENDS Library, SequencesExt, Sublists

CONSTANTS
    Worker,     \* threads of the pool
    Served,     \* Served[id]: the records id may have when the server starts
    AppIds,     \* the books the application adds and removes meanwhile
    AppBooks,   \* the records it adds
    IdOrder,    \* the ids in the order of m_books
    Name,       \* the names that requests have
    HumanReadable,  \* HumanReadable[path]: the file without folder and ending
    Alias,          \* Alias[name]: the name without its date, or the name
    WithAlias

ASSUME ServerAssumption ==
    /\ Served \in [Id -> SUBSET (BookRecord \cup {NoBook})]
    /\ AppIds \subseteq Id
    /\ AppBooks \subseteq BookRecord
    /\ IdOrder \in Seq(Id) /\ \A id \in Id : \E n \in DOMAIN IdOrder : IdOrder[n] = id
    /\ HumanReadable \in [Path -> Name] /\ Alias \in [Name -> Name]
    /\ WithAlias \in BOOLEAN

VARIABLES
    mapper,     \* the name mapper, made when the server starts
    worker,     \* worker[w]: the request a thread is at, with its locals
    app,        \* the call the application is in
    crashed     \* "no", "null" (a null searcher was used) or "race"

serverVars == <<books, bookDB, readers, archives, bookmarks, disk,
                mapper, worker, app, crashed>>

library == <<books, bookDB, readers, archives, bookmarks>>

-----------------------------------------------------------------------------
(* kiwix::HumanReadableNameMapper (src/src/name_mapper.cpp): the names by  *)
(* which URLs refer to books.  The two maps are made once, from the local  *)
(* and valid books, one after the other.                                   *)

(* map[key] = value of a std::map. *)
Put(map, key, value) ==
    [k \in DOMAIN map \cup {key} |-> IF k = key THEN value ELSE map[k]]

(* One turn of the loop: a name replaces what was there, an alias does not. *)
AddName(maps, id, name) ==
    LET named == Put(maps.nameToId, name, id) IN
    [idToName |-> Put(maps.idToName, id, name),
     nameToId |-> IF WithAlias /\ Alias[name] \notin DOMAIN named
                  THEN Put(named, Alias[name], id) ELSE named]

(* The maps for books in the order of the filter, with their paths. *)
HumanReadableNameMapper(ids, pathOf) ==
    FoldLeft(LAMBDA maps, id : AddName(maps, id, HumanReadable[pathOf[id]]),
             [idToName |-> <<>>, nameToId |-> <<>>], ids)

(* What a file can be called in a URL. *)
Called(path, name) ==
    \/ name = HumanReadable[path]
    \/ WithAlias /\ name = Alias[HumanReadable[path]]

-----------------------------------------------------------------------------
(* A request is for one book (content, meta, suggest, random, or search    *)
(* with a content argument), for a search in the whole library, or for the *)
(* catalog.  "from" is the path of the archive that the answer was made    *)
(* with, "listed" the books that were searched or listed.                  *)
NoAnswer == [kind |-> "none", name |-> None, query |-> "everything",
             status |-> 0, from |-> None, listed |-> {}, cut |-> FALSE]

Idle == [pc |-> "idle", kind |-> "none", name |-> None, id |-> None, path |-> None,
         query |-> "everything", todo |-> {}, listed |-> {}, cut |-> FALSE, answer |-> NoAnswer]

Stable == Id \ AppIds

(* The handlers ask for books that are local and valid. *)
LocalAndValid == [query |-> "everything", maxSize |-> 0,
                  local |-> "yes", valid |-> "yes", remote |-> "any"]

Servable(id) == books[id] # NoBook /\ Accept(LocalAndValid, books[id])

(* Library::filter for these, in the order of m_books. *)
Filtered == OnlyIn(IdOrder, {id \in BooksIds : Servable(id)})

ServerInit ==
    /\ books \in [Id -> BookRecord \cup {NoBook}]
    /\ \A id \in Id : books[id] \in Served[id]
    /\ bookDB = [id \in Id |-> IF books[id] = NoBook THEN NoDoc ELSE books[id].meta]
    /\ readers = [id \in Id |-> None]
    /\ archives = [id \in Id |-> None]
    /\ bookmarks = <<>>
    /\ disk = {books[id].path : id \in {i \in BooksIds : books[i].pathValid}}
    /\ mapper = HumanReadableNameMapper(Filtered, [id \in BooksIds |-> books[id].path])
    /\ worker = [w \in Worker |-> Idle]
    /\ app = [pc |-> "idle", id |-> None, book |-> NoBook]
    /\ crashed = "no"

-----------------------------------------------------------------------------
(* Steps of a thread of the pool.                                          *)

At(w, pc) == crashed = "no" /\ worker[w].pc = pc

(* The thread goes on with the locals changed as "local" says. *)
Goto(w, pc, local) ==
    worker' = [worker EXCEPT ![w] =
                  [f \in DOMAIN @ |-> IF f = "pc" THEN pc
                                      ELSE IF f \in DOMAIN local THEN local[f]
                                      ELSE @[f]]]

(* The handler returns; its locals are gone and the thread waits for the   *)
(* next request.                                                           *)
Reply(w, status, from, listed) ==
    worker' = [worker EXCEPT ![w] =
                  [Idle EXCEPT !.answer =
                      [kind |-> worker[w].kind, name |-> worker[w].name, query |-> worker[w].query,
                       status |-> status, from |-> from, listed |-> listed, cut |-> worker[w].cut]]]

Fail(w, status) == Reply(w, status, None, {})

(* A request arrives.  A name that the mapper does not know is answered    *)
(* with 404 at once.                                                       *)
RequestBook(w, name) ==
    /\ At(w, "idle")
    /\ worker' = [worker EXCEPT ![w] =
                     IF name \in DOMAIN mapper.nameToId
                     THEN [Idle EXCEPT !.pc = "lookup", !.kind = "book", !.name = name,
                                       !.id = mapper.nameToId[name]]
                     ELSE [Idle EXCEPT !.answer = [NoAnswer EXCEPT
                               !.kind = "book", !.name = name, !.status = 404]]]
    /\ UNCHANGED <<library, disk, app, crashed, mapper>>

RequestSearch(w) ==
    /\ At(w, "idle")
    /\ worker' = [worker EXCEPT ![w] = [Idle EXCEPT !.pc = "list", !.kind = "search"]]
    /\ UNCHANGED <<library, disk, app, crashed, mapper>>

RequestCatalog(w, query) ==
    /\ At(w, "idle")
    /\ worker' = [worker EXCEPT ![w] =
                     [Idle EXCEPT !.pc = "list", !.kind = "catalog", !.query = query]]
    /\ UNCHANGED <<library, disk, app, crashed, mapper>>

(* What the caller of getArchiveById does with the archive: a library-wide *)
(* search adds it to the searcher and takes the next book.                 *)
UseArchive(w, path) ==
    IF worker[w].kind = "search"
    THEN Goto(w, "next", [listed |-> worker[w].listed \cup {worker[w].id}])
    ELSE Reply(w, 200, path, {})

(* Mutant: the loop ends at the first book without an archive. *)
WithoutArchiveStops(w) ==
    IF worker[w].kind = "search" THEN Goto(w, "query", <<>>) ELSE Fail(w, 404)

(* ... and without one: a handler of one book answers 404, the search      *)
(* skips the book.                                                         *)
WithoutArchive(w) ==
    IF worker[w].kind = "search" THEN Goto(w, "next", <<>>) ELSE Fail(w, 404)

(* out_of_range is caught by the handlers of one book only. *)
NoSuchBook(w) == Fail(w, IF worker[w].kind = "book" THEN 404 ELSE 500)

(* getArchiveById, one use of a container or of the disk at a time. *)
Lookup(w) ==
    /\ At(w, "lookup")
    /\ LET id == worker[w].id IN
       IF archives[id] # None THEN UseArchive(w, archives[id]) ELSE Goto(w, "copy", <<>>)
    /\ UNCHANGED <<library, disk, app, crashed, mapper>>

CopyBook(w) ==
    /\ At(w, "copy")
    /\ LET book == books[worker[w].id] IN
       \/ book = NoBook /\ NoSuchBook(w)
       \/ book # NoBook /\ ~book.pathValid /\ WithoutArchive(w)
       \/ book # NoBook /\ book.pathValid /\ Goto(w, "open", [path |-> book.path])
    /\ UNCHANGED <<library, disk, app, crashed, mapper>>

(* Mutant: every exception is taken for a missing book. *)
OpenFileOr404(w) ==
    /\ At(w, "open")
    /\ IF worker[w].path \in disk THEN Goto(w, "store", <<>>) ELSE Fail(w, 404)
    /\ UNCHANGED <<library, disk, app, crashed, mapper>>

(* zim::Archive throws on a file it cannot open, and no handler catches. *)
OpenFile(w) ==
    /\ At(w, "open")
    /\ IF worker[w].path \in disk THEN Goto(w, "store", <<>>) ELSE Fail(w, 500)
    /\ UNCHANGED <<library, disk, app, crashed, mapper>>

Store(w) ==
    /\ At(w, "store")
    /\ archives' = [archives EXCEPT ![worker[w].id] = worker[w].path]
    /\ UseArchive(w, worker[w].path)
    /\ UNCHANGED <<books, bookDB, readers, bookmarks, disk, app, crashed, mapper>>

(* The limit is the size of the map: while the application has written the *)
(* document of a new book and not yet its record, it is too small.         *)
LimitCuts(query) ==
    query # "everything" /\ Cardinality(Hits(query)) > Cardinality(BooksIds)

(* Library::filter: the ids first, from the index or from the map.  "cut"  *)
(* is history: the limit has left one out.                                 *)
ListIds(w) ==
    /\ At(w, "list")
    /\ \E found \in FilterViaBookDB(worker[w].query) :
          Goto(w, "accept", [todo |-> found, cut |-> LimitCuts(worker[w].query)])
    /\ UNCHANGED <<library, disk, app, crashed, mapper>>

(* Mutant: the loop does not step past a book that is not accepted. *)
AcceptBookAgain(w) ==
    /\ At(w, "accept")
    /\ \/ \E id \in worker[w].todo :
             \/ books[id] = NoBook /\ NoSuchBook(w)
             \/ /\ books[id] # NoBook
                /\ IF Accept(LocalAndValid, books[id])
                   THEN Goto(w, "accept", [todo |-> worker[w].todo \ {id},
                                           listed |-> worker[w].listed \cup {id}])
                   ELSE Goto(w, "accept", <<>>)
       \/ /\ worker[w].todo = {}
          /\ Goto(w, IF worker[w].kind = "search" THEN "next" ELSE "dump",
                  [todo |-> worker[w].listed, listed |-> {}])
    /\ UNCHANGED <<library, disk, app, crashed, mapper>>

(* ... then the record of each of them, as it is by now. *)
AcceptBook(w) ==
    /\ At(w, "accept")
    /\ \/ \E id \in worker[w].todo :
             \/ books[id] = NoBook /\ NoSuchBook(w)
             \/ /\ books[id] # NoBook
                /\ Goto(w, "accept",
                        [todo |-> worker[w].todo \ {id},
                         listed |-> IF Accept(LocalAndValid, books[id])
                                    THEN worker[w].listed \cup {id}
                                    ELSE worker[w].listed])
       \/ /\ worker[w].todo = {}
          /\ Goto(w, IF worker[w].kind = "search" THEN "next" ELSE "dump",
                  [todo |-> worker[w].listed, listed |-> {}])
    /\ UNCHANGED <<library, disk, app, crashed, mapper>>

(* The loop of handle_search over the accepted books. *)
NextBook(w) ==
    /\ At(w, "next")
    /\ \/ \E id \in worker[w].todo :
             Goto(w, "lookup", [id |-> id, todo |-> worker[w].todo \ {id}])
       \/ worker[w].todo = {} /\ Goto(w, "query", <<>>)
    /\ UNCHANGED <<library, disk, app, crashed, mapper>>

(* Without an archive there is no searcher, and it is used nevertheless.   *)
(* The results may come from any of the archives, and the renderer asks    *)
(* the mapper for the name of each, which throws on a book it has not.     *)
RunSearch(w) ==
    /\ At(w, "query")
    /\ \/ /\ worker[w].listed = {}
          /\ crashed' = "null"
          /\ UNCHANGED worker
       \/ /\ worker[w].listed # {}
          /\ \E hits \in SUBSET worker[w].listed :
                IF hits \subseteq DOMAIN mapper.idToName
                THEN Reply(w, 200, None, worker[w].listed)
                ELSE Fail(w, 500)
          /\ UNCHANGED crashed
    /\ UNCHANGED <<library, disk, app, mapper>>

(* The OPDS feed: getBookById of each listed id, not under a try. *)
DumpBook(w) ==
    /\ At(w, "dump")
    /\ \/ \E id \in worker[w].todo :
             IF books[id] = NoBook THEN NoSuchBook(w)
             ELSE Goto(w, "dump", [todo |-> worker[w].todo \ {id},
                                   listed |-> worker[w].listed \cup {id}])
       \/ worker[w].todo = {} /\ Reply(w, 200, None, worker[w].listed)
    /\ UNCHANGED <<library, disk, app, crashed, mapper>>

-----------------------------------------------------------------------------
(* Steps of the application, the owner of the library, which is not        *)
(* stopped while it is served.                                             *)

AppAt(pc) == crashed = "no" /\ app.pc = pc

(* addBook: the index, then the map. *)
AppAddIndex(id, book) ==
    /\ AppAt("idle")
    /\ bookDB' = [bookDB EXCEPT ![id] = book.meta]
    /\ app' = [pc |-> "add", id |-> id, book |-> book]
    /\ UNCHANGED <<books, readers, archives, bookmarks, disk, worker, crashed, mapper>>

AppAddRecord ==
    /\ AppAt("add")
    /\ books' = [books EXCEPT ![app.id] =
                    IF @ = NoBook THEN app.book ELSE Update(@, app.book)]
    /\ app' = [pc |-> "idle", id |-> None, book |-> NoBook]
    /\ UNCHANGED <<bookDB, readers, archives, bookmarks, disk, worker, crashed, mapper>>

(* removeBookById: the document, the handles (no handler makes a reader),  *)
(* then the record.                                                        *)
AppRemoveDocument(id) ==
    /\ AppAt("idle")
    /\ bookDB' = [bookDB EXCEPT ![id] = NoDoc]
    /\ app' = [pc |-> "handles", id |-> id, book |-> NoBook]
    /\ UNCHANGED <<books, readers, archives, bookmarks, disk, worker, crashed, mapper>>

AppRemoveHandles ==
    /\ AppAt("handles")
    /\ readers' = [readers EXCEPT ![app.id] = None]
    /\ archives' = [archives EXCEPT ![app.id] = None]
    /\ app' = [app EXCEPT !.pc = "erase"]
    /\ UNCHANGED <<books, bookDB, bookmarks, disk, worker, crashed, mapper>>

AppRemoveRecord ==
    /\ AppAt("erase")
    /\ books' = [books EXCEPT ![app.id] = NoBook]
    /\ app' = [pc |-> "idle", id |-> None, book |-> NoBook]
    /\ UNCHANGED <<bookDB, readers, archives, bookmarks, disk, worker, crashed, mapper>>

(* A ZIM file is deleted or comes back. *)
FileChanges(path) ==
    /\ crashed = "no"
    /\ DiskChanges(path)
    /\ UNCHANGED <<worker, app, crashed, mapper>>

-----------------------------------------------------------------------------
(* Data races: the containers that the next step of a thread uses.         *)

WorkerReads(w) ==
    CASE worker[w].pc = "lookup" -> {"m_archives"}
      [] worker[w].pc \in {"copy", "accept", "dump"} -> {"m_books"}
      [] worker[w].pc = "list" -> {"m_bookDB", "m_books"}
      [] OTHER -> {}

WorkerWrites(w) == IF worker[w].pc = "store" THEN {"m_archives"} ELSE {}

AppWrites ==
    CASE app.pc = "idle" -> IF AppIds = {} THEN {} ELSE {"m_bookDB"}
      [] app.pc = "handles" -> {"m_archives"}
      [] OTHER -> {"m_books"}

Conflict ==
    \/ \E w, v \in Worker :
          w # v /\ WorkerWrites(w) \cap (WorkerReads(v) \cup WorkerWrites(v)) # {}
    \/ \E w \in Worker :
          AppWrites \cap (WorkerReads(w) \cup WorkerWrites(w)) # {}

Race ==
    /\ crashed = "no"
    /\ Conflict
    /\ crashed' = "race"
    /\ UNCHANGED <<library, disk, worker, app, mapper>>

-----------------------------------------------------------------------------
Handle(w) ==
    \/ Lookup(w) \/ CopyBook(w) \/ OpenFile(w) \/ Store(w)
    \/ ListIds(w) \/ AcceptBook(w) \/ NextBook(w) \/ RunSearch(w) \/ DumpBook(w)

Request(w) ==
    \/ \E name \in Name : RequestBook(w, name)
    \/ RequestSearch(w)
    \/ \E query \in Query \cup {"everything"} : RequestCatalog(w, query)

Application ==
    \/ \E id \in AppIds, book \in AppBooks : AppAddIndex(id, book)
    \/ \E id \in AppIds : AppRemoveDocument(id)
    \/ AppAddRecord \/ AppRemoveHandles \/ AppRemoveRecord

ServerNext ==
    \/ \E w \in Worker : Request(w) \/ Handle(w)
    \/ Application
    \/ \E path \in Path : FileChanges(path)
    \/ Race

(* A thread of the pool runs its handler to the end; nobody has to send a  *)
(* request, change the library or touch a file, and no race has to crash.  *)
ServerSpec ==
    /\ ServerInit
    /\ [][ServerNext]_serverVars
    /\ \A w \in Worker : WF_serverVars(Handle(w))

-----------------------------------------------------------------------------
(* Properties.                                                             *)

(* For a name of a book that the application leaves alone, an answer of a  *)
(* handler of one book tells the truth, whatever the other threads opened, *)
(* stored or failed to open meanwhile: 200 comes from the file that the    *)
(* library records, which is called by the name and no mere alias where    *)
(* another book has it in full; 404 is only given for a name that no       *)
(* served book has, and 500 only for a book that the library should serve. *)
BookAnswersAreRight ==
    \A w \in Worker :
        LET a == worker[w].answer
            known == a.name \in DOMAIN mapper.nameToId
            id == mapper.nameToId[a.name]
            Left == {b \in Stable : Servable(b)}
        IN a.kind = "book" /\ (known => id \in Stable) =>
            /\ a.status = 200 =>
                  /\ id \in Left /\ a.from = books[id].path
                  /\ Called(a.from, a.name)
                  /\ (\E b \in Left : HumanReadable[books[b].path] = a.name)
                        => HumanReadable[a.from] = a.name
            /\ a.status = 404 => \A b \in Left : ~Called(books[b].path, a.name)
            /\ a.status = 500 => id \in Left

(* A library-wide search that succeeds looked in every local valid book    *)
(* that was there all the time: the ids are listed at one moment, their    *)
(* records read at others and their files opened at yet others, while the  *)
(* application adds and removes other books.                               *)
SearchCoversLibrary ==
    \A w \in Worker : LET a == worker[w].answer IN
        a.kind = "search" /\ a.status = 200 =>
            a.listed \cap Stable = {id \in Stable : Servable(id)}

(* A feed that succeeds lists the local valid books that match and that    *)
(* were there all the time, and of those no others.  Only the limit on the *)
(* number of documents, taken while the application was in the middle of   *)
(* addBook, can leave one of them out.                                     *)
CatalogListsTheLibrary ==
    \A w \in Worker : LET a == worker[w].answer
                          right == {id \in Stable :
                                       /\ Servable(id)
                                       /\ a.query \in Query =>
                                             books[id].meta \in Matches[a.query]}
    IN a.kind = "catalog" /\ a.status = 200 =>
           /\ a.listed \cap Stable \subseteq right
           /\ a.listed \cap Stable # right => a.cut

(* What is listed one after the other is complete, and nothing else.       *)
ListsCoverTheLibrary == SearchCoversLibrary /\ CatalogListsTheLibrary

(* Every request that a thread takes up is answered, unless the process    *)
(* crashes: the loops over the ids end, also when books go and come.       *)
EveryRequestEnds ==
    \A w \in Worker :
        worker[w].pc # "idle" ~> worker[w].pc = "idle" \/ crashed # "no"
=============================================================================
