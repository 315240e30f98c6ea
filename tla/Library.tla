------------------------------- MODULE Library -------------------------------
(***************************************************************************)
(* kiwix::Library (src/src/library.cpp): a map of book records, an index   *)
(* of their metadata kept in a Xapian in-memory database, and two caches   *)
(* of opened ZIM files, called by one thread.  The containers have no lock *)
(* and are kept in step by hand, one statement after the other.            *)
(*                                                                         *)
(* A ZIM handle is represented by the path it was opened from.             *)
(***************************************************************************)
EXTENDS FiniteSetsExt, Integers, Sequences

CONSTANTS
    Id,          \* book ids
    Path,        \* file names books and handles refer to
    Meta,        \* metadata of a book: title, language, creator, url, size, ...
    Query,       \* what a filter can ask of the index (query, name, tags, ...)
    Matches,     \* Matches[q] is the set of metadata that satisfies q
    HasUrl,      \* the metadata with a non-empty url
    Size,        \* Size[m] is the size recorded in m
    Url,         \* entries a bookmark points at
    MaxBookmarks,\* bound on the length of m_bookmarks
    NoBook, NoPath, NoDoc, None

ASSUME ConstantsAssumption ==
    /\ IsFiniteSet(Id)
    /\ "everything" \notin Query
    /\ Matches \in [Query -> SUBSET Meta]
    /\ HasUrl \subseteq Meta
    /\ Size \in [Meta -> Nat]
    /\ MaxBookmarks \in Nat
    /\ NoPath \notin Path
    /\ None \notin Path
    /\ NoDoc \notin Meta

VARIABLES
    books,      \* m_books
    bookDB,     \* m_bookDB: the metadata indexed under the term "Q" + id
    readers,    \* m_readers
    archives,   \* m_archives
    bookmarks,  \* m_bookmarks
    disk        \* the paths where a ZIM file can be opened; not the library's

vars == <<books, bookDB, readers, archives, bookmarks, disk>>

(* kiwix::Book.  m_pathValid is what fileExists() answered when the record *)
(* was made, so it is only ever set on a record that has a path.           *)
BookRecord ==
    {b \in [path : Path \cup {NoPath}, pathValid : BOOLEAN,
            meta : Meta, readOnly : BOOLEAN] :
        b.path = NoPath => ~b.pathValid}

ASSUME NoBookAssumption == NoBook \notin BookRecord

Bookmark == [book : Id, url : Url]

TypeOK ==
    /\ books \in [Id -> BookRecord \cup {NoBook}]
    /\ bookDB \in [Id -> Meta \cup {NoDoc}]
    /\ readers \in [Id -> Path \cup {None}]
    /\ archives \in [Id -> Path \cup {None}]
    /\ bookmarks \in Seq(Bookmark)
    /\ disk \in SUBSET Path

Init ==
    /\ books = [id \in Id |-> NoBook]
    /\ bookDB = [id \in Id |-> NoDoc]
    /\ readers = [id \in Id |-> None]
    /\ archives = [id \in Id |-> None]
    /\ bookmarks = <<>>
    /\ disk \in SUBSET Path

-----------------------------------------------------------------------------
(* Operations that change the library.                                     *)

(* Book::update refuses when the stored record is read-only. *)
Update(old, new) == IF old.readOnly THEN old ELSE new

(* Mutants of addBook: one that indexes new books only, and one that drops *)
(* the handle of the book it updates.                                      *)
AddBookIndexesNewOnly(id, book) ==
    /\ bookDB' = [bookDB EXCEPT ![id] = IF books[id] = NoBook THEN book.meta ELSE @]
    /\ books' = [books EXCEPT ![id] = IF @ = NoBook THEN book ELSE Update(@, book)]
    /\ UNCHANGED <<readers, archives, bookmarks, disk>>

AddBookDropsHandles(id, book) ==
    /\ bookDB' = [bookDB EXCEPT ![id] = book.meta]
    /\ books' = [books EXCEPT ![id] = IF @ = NoBook THEN book ELSE Update(@, book)]
    /\ readers' = [readers EXCEPT ![id] = None]
    /\ archives' = [archives EXCEPT ![id] = None]
    /\ UNCHANGED <<bookmarks, disk>>

(* addBook indexes the new record before it looks for the old one. *)
AddBook(id, book) ==
    /\ bookDB' = [bookDB EXCEPT ![id] = book.meta]
    /\ books' = [books EXCEPT ![id] = IF @ = NoBook THEN book ELSE Update(@, book)]
    /\ UNCHANGED <<readers, archives, bookmarks, disk>>

(* Mutant: removeBookById without m_archives.erase. *)
RemoveBookKeepsArchive(id) ==
    /\ bookDB' = [bookDB EXCEPT ![id] = NoDoc]
    /\ readers' = [readers EXCEPT ![id] = None]
    /\ books' = [books EXCEPT ![id] = NoBook]
    /\ UNCHANGED <<archives, bookmarks, disk>>

RemoveBookById(id) ==
    /\ bookDB' = [bookDB EXCEPT ![id] = NoDoc]
    /\ readers' = [readers EXCEPT ![id] = None]
    /\ archives' = [archives EXCEPT ![id] = None]
    /\ books' = [books EXCEPT ![id] = NoBook]
    /\ UNCHANGED <<bookmarks, disk>>

(* getBookById(id).setPath(path), through the reference the library gives. *)
SetPath(id, path) ==
    /\ books[id] # NoBook
    /\ books' = [books EXCEPT ![id].path = path]
    /\ UNCHANGED <<bookDB, readers, archives, bookmarks, disk>>

(* The book can be opened: otherwise the call returns null (the path was   *)
(* recorded as not valid) or throws (no such book, or nothing to open).    *)
Openable(id) ==
    /\ books[id] # NoBook
    /\ books[id].pathValid
    /\ books[id].path \in disk

GetArchiveById(id) ==
    /\ archives' = [archives EXCEPT ![id] =
                       IF @ = None /\ Openable(id) THEN books[id].path ELSE @]
    /\ UNCHANGED <<books, bookDB, readers, bookmarks, disk>>

(* Mutant: getReaderById does not look in m_archives, and its file takes   *)
(* the place of the one there.                                             *)
GetReaderReopens(id) ==
    /\ readers[id] = None
    /\ Openable(id)
    /\ archives' = [archives EXCEPT ![id] = books[id].path]
    /\ readers' = [readers EXCEPT ![id] = books[id].path]
    /\ UNCHANGED <<books, bookDB, bookmarks, disk>>

(* A reader is made from the archive the library holds, if it holds one. *)
GetReaderById(id) ==
    /\ \/ /\ readers[id] # None
          /\ UNCHANGED <<readers, archives>>
       \/ /\ readers[id] = None
          /\ archives[id] # None
          /\ readers' = [readers EXCEPT ![id] = archives[id]]
          /\ UNCHANGED archives
       \/ /\ readers[id] = None
          /\ archives[id] = None
          /\ Openable(id)
          /\ archives' = [archives EXCEPT ![id] = books[id].path]
          /\ readers' = [readers EXCEPT ![id] = books[id].path]
       \/ /\ readers[id] = None
          /\ archives[id] = None
          /\ ~Openable(id)
          /\ UNCHANGED <<readers, archives>>
    /\ UNCHANGED <<books, bookDB, bookmarks, disk>>

AddBookmark(mark) ==
    /\ Len(bookmarks) < MaxBookmarks
    /\ bookmarks' = Append(bookmarks, mark)
    /\ UNCHANGED <<books, bookDB, readers, archives, disk>>

(* The first bookmark with this book and url goes; equal ones stay. *)
RemoveBookmark(mark) ==
    /\ \E i \in DOMAIN bookmarks :
          /\ bookmarks[i] = mark
          /\ \A j \in 1 .. (i - 1) : bookmarks[j] # mark
          /\ bookmarks' = SubSeq(bookmarks, 1, i - 1)
                            \o SubSeq(bookmarks, i + 1, Len(bookmarks))
    /\ UNCHANGED <<books, bookDB, readers, archives, disk>>

(* Files come and go without the library being told. *)
DiskChanges(path) ==
    /\ disk' = IF path \in disk THEN disk \ {path} ELSE disk \cup {path}
    /\ UNCHANGED <<books, bookDB, readers, archives, bookmarks>>

Next ==
    \/ \E id \in Id :
          \/ \E book \in BookRecord : AddBook(id, book)
          \/ RemoveBookById(id)
          \/ \E path \in Path : SetPath(id, path)
          \/ GetArchiveById(id)
          \/ GetReaderById(id)
    \/ \E mark \in Bookmark : AddBookmark(mark) \/ RemoveBookmark(mark)
    \/ \E path \in Path : DiskChanges(path)

Spec == Init /\ [][Next]_vars

-----------------------------------------------------------------------------
(* Questions asked of the library.                                         *)

BooksIds == {id \in Id : books[id] # NoBook}

(* kiwix::Filter.  A setter and its opposite exclude each other, so each   *)
(* pair of flags is one field, "any", "yes" or "no"; a size of 0 stands    *)
(* for a filter without a maximal size, as in listBooksIds.                *)
Allows(choice, fact) == choice = "any" \/ (choice = "yes") = fact

Accept(f, book) ==
    /\ Allows(f.local, book.path # NoPath)
    /\ Allows(f.valid, book.pathValid)
    /\ Allows(f.remote, book.meta \in HasUrl)
    /\ f.maxSize # 0 => Size[book.meta] <= f.maxSize

Hits(query) == {id \in Id : bookDB[id] # NoDoc /\ bookDB[id] \in Matches[query]}

(* The index answers with at most m_books.size() documents.  Which ones it *)
(* keeps when there are more is its own choice, so this is the set of the  *)
(* answers it may give.                                                    *)
FilterViaBookDB(query) ==
    IF query = "everything"
    THEN {BooksIds}
    ELSE kSubset(Min({Cardinality(Hits(query)), Cardinality(BooksIds)}), Hits(query))

(* getBookmarks(onlyValidBookmarks) *)
GetBookmarks(onlyValid) ==
    IF onlyValid THEN SelectSeq(bookmarks, LAMBDA mark : mark.book \in BooksIds)
    ELSE bookmarks

-----------------------------------------------------------------------------
(* Properties.                                                             *)

(* The map and the index hold the same ids: addBook and removeBookById     *)
(* write both, each at a line of its own.                                  *)
IndexCoversBooks == \A id \in Id : bookDB[id] # NoDoc <=> books[id] # NoBook

(* A book whose record may still be updated is indexed by that record.     *)
WritableBooksIndexed ==
    \A id \in BooksIds : ~books[id].readOnly => bookDB[id] = books[id].meta

(* Whatever is asked, filter() looks only ids up that the map has, so it   *)
(* never throws out_of_range (and, with operator[], would never add an     *)
(* empty book, as the comment in test/library.cpp:688 fears).              *)
FilterNeverThrows ==
    \A query \in Query \cup {"everything"} :
        \A found \in FilterViaBookDB(query) : found \subseteq BooksIds

(* For the books that may be updated, the index answers exactly as a scan  *)
(* of the records would: no addBook, update or removal leaves a book       *)
(* unfindable or findable by what it no longer is, and the limit of        *)
(* m_books.size() answers cuts none off.                                   *)
FilterFindsWritableBooks ==
    \A query \in Query : \A found \in FilterViaBookDB(query) :
        \A id \in BooksIds :
            ~books[id].readOnly =>
                (id \in found <=> books[id].meta \in Matches[query])

(* What filter() promises: no exception, and the right writable books.     *)
FilterIsRight == FilterNeverThrows /\ FilterFindsWritableBooks

(* removeBookById drops both handles, and none can be made without a book. *)
HandlesBelongToBooks ==
    \A id \in Id : readers[id] # None \/ archives[id] # None => id \in BooksIds

(* The two caches of one book are over the same opened file, in whichever  *)
(* order getReaderById and getArchiveById were called.                     *)
ReaderSharesArchive ==
    \A id \in Id : readers[id] # None => readers[id] = archives[id]

(* Of a removed book no handle is left that would serve its file when a    *)
(* book with its id comes back, and a book has one opened file.            *)
HandlesAreRight == HandlesBelongToBooks /\ ReaderSharesArchive

(* A file is opened once per book: the handle that callers share is not    *)
(* replaced or dropped while the book stays in the library.                *)
HandleKept ==
    \A id \in Id :
        archives[id] # None => archives'[id] = archives[id] \/ books'[id] = NoBook

HandlesAreKept == [][HandleKept]_vars

(* The library is a catalog: the index and the map move together, a handle *)
(* goes with its book and is opened once, and the readers are invisible.   *)
Catalog == INSTANCE BookCatalog WITH
               found <- bookDB, handle <- archives,
               NoMeta <- NoDoc, NoHandle <- None

ImplementsCatalog == Catalog!Spec

(* What the repository says: "List only books with search in the title,    *)
(* description." (include/library.h:323)                                   *)
SearchListsOnlyMatchingBooks ==
    \A query \in Query : \A found \in FilterViaBookDB(query) :
        \A id \in found \cap BooksIds : books[id].meta \in Matches[query]

=============================================================================
