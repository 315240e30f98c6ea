----------------------------- MODULE LibraryFiles -----------------------------
(***************************************************************************)
(* kiwix::Manager (src/src/manager.cpp) and LibXMLDumper: how books get    *)
(* into a library from library files, OPDS feeds and ZIM files, how the    *)
(* library is written to a file, and what a new process finds there.       *)
(*                                                                         *)
(* One process at a time, which may end anywhere.  Readers and index are   *)
(* those of module Library; the way a path is written into a file is that  *)
(* of module Paths.                                                        *)
(***************************************************************************)
EXTENDS Integers, SequencesExt

CONSTANTS
    Id,         \* book ids
    Title,      \* the metadata that a ZIM file, a feed and a file may have
    Url,        \* the urls books may have
    Path,       \* where ZIM files lie
    File,       \* library files
    Zim,        \* Zim[path]: the ZIM files that may lie there
    Feed,       \* the OPDS feeds that may be read
    Foreign,    \* the library files that others have made
    PathToSave, \* what a caller may want to be stored as the path of a book
    Relative,   \* a relative path among them
    InDirOf,    \* InDirOf[file]: what it is in the directory of that file
    NoBook, NoPath, NoFile, NoUrl, Untitled, Junk, Absent,
    NotOurs     \* a file that has not been saved by the program

(* An element "book" of a library file or "entry" of a feed.  A book with  *)
(* an origId is a variant of another one; ownCategory: it has a category   *)
(* that its tags do not give.                                              *)
Entry == [id : Id, path : Path \cup {NoPath}, title : Title \cup {Untitled},
          orig : BOOLEAN, ownCategory : BOOLEAN, url : Url \cup {NoUrl}]

ZimFile == [id : Id, title : Title \cup {Untitled}, orig : BOOLEAN]

ASSUME FilesAssumption ==
    /\ Zim \in [Path -> SUBSET ZimFile]
    /\ Feed \subseteq Seq({e \in Entry : e.path = NoPath /\ ~e.orig})
    /\ Foreign \subseteq Seq(Entry)
    /\ InDirOf \in [File \cup {NoFile} -> Path]
    /\ PathToSave \subseteq Path \cup {NoPath, Relative}
    /\ Relative \notin Path /\ NoPath \notin Path \cup {Relative}
    /\ NoFile \notin File /\ Untitled \notin Title
    /\ IsFiniteSet(Id)
    /\ {Junk, Absent} \cap ZimFile = {} /\ {"nothing", "more"} \cap File = {}

VARIABLES
    books,                \* Library::m_books
    writableLibraryPath,  \* Manager::writableLibraryPath
    job,                  \* the file that is being read or written
    files,                \* the library files
    disk,                 \* what lies at the paths of ZIM files
    stored,               \* history: the library that was saved in a file
    only                  \* history: the only file that the library is from

filesVars == <<books, writableLibraryPath, job, files, disk, stored, only>>

BookRecord == [path : Path \cup {NoPath}, pathValid : BOOLEAN,
               title : Title \cup {Untitled}, orig : BOOLEAN, ownCategory : BOOLEAN,
               url : Url \cup {NoUrl}, readOnly : BOOLEAN]

ASSUME BookAssumption ==
    /\ NoBook \notin BookRecord
    /\ NotOurs \notin [Id -> BookRecord \cup {NoBook}]

NoBooks == [id \in Id |-> NoBook]

(* A file that does not parse has some entries or none, and is not complete.*)
Content(entries, complete) == [entries |-> entries, complete |-> complete]

NoJob == [kind |-> "none", file |-> NoFile, entries |-> <<>>,
          readOnly |-> FALSE, trust |-> TRUE]

FilesInit ==
    /\ books = NoBooks
    /\ writableLibraryPath = NoFile
    /\ job = NoJob
    /\ files \in [File -> {Content(entries, TRUE) : entries \in Foreign}
                          \cup {Content(<<>>, FALSE)}]
    /\ disk \in [Path -> (UNION {Zim[path] : path \in Path}) \cup {Junk, Absent}]
    /\ \A path \in Path : disk[path] \in Zim[path] \cup {Junk, Absent}
    /\ stored = [file \in File |-> NotOurs]
    /\ only = "nothing"

-----------------------------------------------------------------------------
(* Records.                                                                *)

FileExists(path) == path # NoPath /\ disk[path] # Absent

IsZim(path) == path # NoPath /\ disk[path] \notin {Junk, Absent}

(* Book::update(reader): the url and readOnly stay as they are. *)
UpdateFromZim(book, path) ==
    [book EXCEPT !.path = path, !.pathValid = TRUE, !.title = disk[path].title,
        !.orig = disk[path].orig, !.ownCategory = FALSE]

(* Book::updateFromXml and updateFromOpds; a feed has no paths.            *)
FromEntry(e, readOnly) ==
    [path |-> e.path, pathValid |-> FileExists(e.path), title |-> e.title,
     orig |-> e.orig, ownCategory |-> e.ownCategory, url |-> e.url,
     readOnly |-> readOnly]

(* LibXMLDumper::handleBook: a variant leaves its metadata to the original,*)
(* and the category is left to the tags.                                   *)
ToEntry(id, book) ==
    [id |-> id, path |-> book.path, title |-> IF book.orig THEN Untitled ELSE book.title,
     orig |-> book.orig, ownCategory |-> FALSE, url |-> book.url]

(* Mutant of Book::update: the new record is asked whether it is read-only.*)
UpdateIfNewIsWritable(old, new) == IF new.readOnly THEN old ELSE new

Update(old, new) == IF old.readOnly THEN old ELSE new

AddBook(id, book) ==
    books' = [books EXCEPT ![id] = IF @ = NoBook THEN book ELSE Update(@, book)]

-----------------------------------------------------------------------------
(* Reading.                                                                *)

(* Mutant: parseXmlDom is given what was parsed before the error. *)
ParsedIgnoringResult(file) == files[file].entries

(* The document is parsed as a whole before any book is added. *)
Parsed(file) == IF files[file].complete THEN files[file].entries ELSE <<>>

ReadFile(file, readOnly, trust) ==
    /\ job.kind = "none"
    /\ job' = [kind |-> "load", file |-> file, entries |-> Parsed(file),
               readOnly |-> readOnly, trust |-> trust]
    /\ only' = IF only \in {"nothing", file} THEN file ELSE "more"
    /\ UNCHANGED <<books, writableLibraryPath, files, disk, stored>>

ReadOpds(feed) ==
    /\ job.kind = "none"
    /\ job' = [NoJob EXCEPT !.kind = "load", !.entries = feed]
    /\ only' = "more"
    /\ UNCHANGED <<books, writableLibraryPath, files, disk, stored>>

(* What an entry says and what the ZIM file at its path is. *)
Agree(e, zim) ==
    e.id = zim.id /\ e.orig = zim.orig /\ (e.orig \/ e.title = zim.title) /\ ~e.ownCategory

(* parseXmlDom, parseOpdsDom: one book.  If the library is not trusted, a  *)
(* book becomes what the ZIM file at its path is, the id included.         *)
LoadEntry ==
    /\ job.kind = "load" /\ job.entries # <<>>
    /\ LET e == Head(job.entries)
           book == FromEntry(e, job.readOnly)
       IN \/ /\ job.trust \/ e.path = NoPath
             /\ AddBook(e.id, book)
             /\ UNCHANGED only
          \/ /\ ~job.trust /\ IsZim(e.path)
             /\ AddBook(disk[e.path].id, UpdateFromZim(book, e.path))
             /\ only' = IF Agree(e, disk[e.path]) THEN only ELSE "more"
          \/ /\ ~job.trust /\ e.path # NoPath /\ ~IsZim(e.path)
             /\ AddBook(e.id, [book EXCEPT !.pathValid = FALSE])
             /\ UNCHANGED only
    /\ job' = [job EXCEPT !.entries = Tail(@)]
    /\ UNCHANGED <<writableLibraryPath, files, disk, stored>>

(* readFile remembers the file even if it could not be read. *)
FinishLoading ==
    /\ job.kind = "load" /\ job.entries = <<>>
    /\ writableLibraryPath' = IF job.file = NoFile \/ job.readOnly THEN writableLibraryPath
                              ELSE job.file
    /\ job' = NoJob
    /\ UNCHANGED <<books, files, disk, stored, only>>

(* addBookFromPathAndGetId(pathToOpen, pathToSave, url, checkMetaData) *)
AddBookFromPath(open, save, url, checkMetaData) ==
    /\ job.kind = "none"
    /\ IsZim(open)
    /\ checkMetaData => disk[open].title # Untitled
    /\ LET path == IF save = NoPath THEN open
                   ELSE IF save = Relative THEN InDirOf[writableLibraryPath]
                   ELSE save
           read == UpdateFromZim([path |-> NoPath, pathValid |-> FALSE, title |-> Untitled,
                                  orig |-> FALSE, ownCategory |-> FALSE, url |-> NoUrl,
                                  readOnly |-> FALSE], open)
       IN AddBook(disk[open].id, [read EXCEPT !.path = path, !.url = url])
    /\ only' = "more"
    /\ UNCHANGED <<writableLibraryPath, job, files, disk, stored>>

RemoveBook(id) ==
    /\ job.kind = "none"
    /\ books[id] # NoBook
    /\ books' = [books EXCEPT ![id] = NoBook]
    /\ only' = "more"
    /\ UNCHANGED <<writableLibraryPath, job, files, disk, stored>>

-----------------------------------------------------------------------------
(* Writing.                                                                *)

(* The books of dumpLibXMLContent. *)
Dumped == {id \in Id : books[id] # NoBook /\ ~books[id].readOnly}

(* Library::writeToFile: the text is made first, then the file truncated.  *)
WriteToFile(file) ==
    /\ job.kind = "none"
    /\ LET ids == SetToSeq(Dumped) IN
       job' = [NoJob EXCEPT !.kind = "save", !.file = file,
                  !.entries = [i \in DOMAIN ids |-> ToEntry(ids[i], books[ids[i]])]]
    /\ files' = [files EXCEPT ![file] = Content(<<>>, FALSE)]
    /\ stored' = [stored EXCEPT ![file] = NoBooks]
    /\ only' = "more"
    /\ UNCHANGED <<books, writableLibraryPath, disk>>

FinishWriting ==
    /\ job.kind = "save"
    /\ files' = [files EXCEPT ![job.file] = Content(job.entries, TRUE)]
    /\ stored' = [stored EXCEPT ![job.file] = books]
    /\ only' = job.file
    /\ job' = NoJob
    /\ UNCHANGED <<books, writableLibraryPath, disk>>

(* Some of the text gets into the file that is being written. *)
PartlyWritten ==
    \E n \in 0 .. Len(job.entries) :
        files' = [files EXCEPT ![job.file] = Content(SubSeq(job.entries, 1, n), FALSE)]

(* write() writes less than it should: the caller is told. *)
WriteFails ==
    /\ job.kind = "save"
    /\ PartlyWritten
    /\ job' = NoJob
    /\ UNCHANGED <<books, writableLibraryPath, disk, stored, only>>

-----------------------------------------------------------------------------
(* The process ends, by itself or by a crash, and a new one starts. *)
Restart ==
    /\ IF job.kind = "save" THEN PartlyWritten ELSE UNCHANGED files
    /\ books' = NoBooks
    /\ writableLibraryPath' = NoFile
    /\ job' = NoJob
    /\ only' = "nothing"
    /\ UNCHANGED <<disk, stored>>

(* A ZIM file is downloaded, damaged or deleted. *)
DiskChanges(path) ==
    /\ disk' \in {[disk EXCEPT ![path] = it] : it \in Zim[path] \cup {Junk, Absent}}
    /\ UNCHANGED <<books, writableLibraryPath, job, files, stored, only>>

FilesNext ==
    \/ \E file \in File :
          \/ \E readOnly, trust \in BOOLEAN : ReadFile(file, readOnly, trust)
          \/ WriteToFile(file)
    \/ \E feed \in Feed : ReadOpds(feed)
    \/ LoadEntry \/ FinishLoading
    \/ \E open \in Path, save \in PathToSave, url \in Url \cup {NoUrl},
          checkMetaData \in BOOLEAN : AddBookFromPath(open, save, url, checkMetaData)
    \/ \E id \in Id : RemoveBook(id)
    \/ FinishWriting \/ WriteFails
    \/ Restart
    \/ \E path \in Path : DiskChanges(path)

FilesSpec == FilesInit /\ [][FilesNext]_filesVars

-----------------------------------------------------------------------------
(* Properties.                                                             *)

(* The book that a library has under an id, and what it had when saved.    *)
Restored(now, was) ==
    \/ was = NoBook /\ now = NoBook
    \/ was # NoBook /\ was.readOnly /\ now \in {was, NoBook}
    \/ /\ was # NoBook /\ ~was.readOnly
       /\ now # NoBook
       /\ now.path = was.path /\ now.url = was.url /\ now.orig = was.orig
       /\ was.orig \/ now.title = was.title
       /\ now.ownCategory => was.ownCategory

(* Whoever has nothing but a library file in his library has what was      *)
(* saved there: all writable books with path, url and metadata (but for a  *)
(* category that is not in the tags), and no book that was read-only.      *)
(* This holds in the process that saved it and in a later one, read once   *)
(* or again, trusted or not, whatever crashed, and a file that is only     *)
(* partly written gives no books, never some of them.                      *)
RestoredAsSaved ==
    \A file \in File :
        only = file /\ job.kind = "none" /\ stored[file] # NotOurs =>
            \A id \in Id : Restored(books[id], stored[file][id])

(* A read-only book is what it is until it is removed or the process ends: *)
(* neither a feed nor another file nor the ZIM file itself changes it.     *)
ReadOnlyBookStays(id) ==
    books[id] # NoBook /\ books[id].readOnly => books'[id] \in {books[id], NoBook}

ReadOnlyBooksStay == [][\A id \in Id : ReadOnlyBookStays(id)]_filesVars

=============================================================================
