-------------------------- MODULE LibraryFilesProofs --------------------------
(***************************************************************************)
(* Library files, for any number of files, books and ZIM files: what was   *)
(* saved is what a process finds, and read-only books stay.                *)
(***************************************************************************)
EXTENDS LibraryFiles, FiniteSetTheorems, SequenceTheorems, TLAPS

-----------------------------------------------------------------------------
(***************************************************************************)
(* The invariant.                                                          *)
(***************************************************************************)

(* Types.                                                                  *)
TypeOK ==
    /\ books \in [Id -> BookRecord \cup {NoBook}]
    /\ writableLibraryPath \in File \cup {NoFile}
    /\ job \in [kind : {"none", "load", "save"}, file : File \cup {NoFile},
                entries : Seq(Entry), readOnly : BOOLEAN, trust : BOOLEAN]
    /\ files \in [File -> [entries : Seq(Entry), complete : BOOLEAN]]
    /\ disk \in [Path -> ZimFile \cup {Junk, Absent}]
    /\ stored \in [File -> [Id -> BookRecord \cup {NoBook}] \cup {NotOurs}]
    /\ only \in File \cup {"nothing", "more"}

IsWritten(id, lib) == lib[id] # NoBook /\ ~lib[id].readOnly

(* Some of what is written for a library, and all of it.                   *)
FromLibrary(entries, lib) ==
    \A i \in 1 .. Len(entries) :
        \E id \in Id : IsWritten(id, lib) /\ entries[i] = ToEntry(id, lib[id])

IsIn(entries, id, lib) == \E i \in 1 .. Len(entries) : entries[i] = ToEntry(id, lib[id])

Saved(entries, lib) ==
    /\ FromLibrary(entries, lib)
    /\ \A id \in Id : IsWritten(id, lib) => IsIn(entries, id, lib)

(* A file that the program has saved has all of a library, or is broken    *)
(* and stands for no library at all.                                       *)
FilesAreAsSaved ==
    \A file \in File : stored[file] # NotOurs =>
        IF files[file].complete THEN Saved(files[file].entries, stored[file])
        ELSE stored[file] = NoBooks

NothingMeansNothing == only = "nothing" => books = NoBooks /\ job.kind = "none"

SavingIsExact ==
    job.kind = "save" =>
        /\ only = "more" /\ job.file \in File
        /\ ~files[job.file].complete /\ stored[job.file] = NoBooks
        /\ Saved(job.entries, books)

(* While a file is read: what it had is there again or still to come.      *)
StillToCome(id, lib) == books[id] = NoBook /\ IsWritten(id, lib) /\ IsIn(job.entries, id, lib)

LoadingRestores ==
    job.kind = "load" /\ only # "more" =>
        /\ job.file = only
        /\ stored[only] # NotOurs =>
              /\ FromLibrary(job.entries, stored[only])
              /\ \A id \in Id : \/ Restored(books[id], stored[only][id])
                                \/ StillToCome(id, stored[only])

FilesInv ==
    /\ TypeOK
    /\ FilesAreAsSaved /\ NothingMeansNothing /\ SavingIsExact /\ LoadingRestores
    /\ RestoredAsSaved

-----------------------------------------------------------------------------
(***************************************************************************)
(* Records, entries and sequences of them.                                 *)
(***************************************************************************)

LEMMA EntryOfBook ==
    ASSUME NEW id \in Id, NEW book \in BookRecord PROVE ToEntry(id, book) \in Entry
BY DEF ToEntry, Entry, BookRecord

LEMMA BookOfEntry ==
    ASSUME NEW e \in Entry, NEW readOnly \in BOOLEAN
    PROVE  FromEntry(e, readOnly) \in BookRecord
<1>1. FileExists(e.path) \in BOOLEAN
    BY DEF FileExists
<1> QED BY <1>1 DEF FromEntry, Entry, BookRecord

LEMMA BookOfZim ==
    ASSUME TypeOK, NEW path \in Path \cup {NoPath}, IsZim(path), NEW book \in BookRecord
    PROVE  /\ path \in Path /\ disk[path] \in ZimFile
           /\ UpdateFromZim(book, path) \in BookRecord
<1>1. path \in Path /\ disk[path] \in ZimFile
    BY DEF TypeOK, IsZim
<1>2. disk[path].title \in Title \cup {Untitled} /\ disk[path].orig \in BOOLEAN
    BY <1>1 DEF ZimFile
<1> QED BY <1>1, <1>2 DEF UpdateFromZim, BookRecord

LEMMA SelectedPart ==
    ASSUME NEW entries \in Seq(Entry), NEW n \in 0 .. Len(entries)
    PROVE  SubSeq(entries, 1, n) \in Seq(Entry)
<1>1. \A i \in 1 .. n : entries[i] \in Entry
    BY LenProperties, ElementOfSeq
<1> QED BY <1>1, SubSeqProperties

(* The text that dumpLibXMLContent makes has every writable book.          *)
LEMMA DumpIsSaved ==
    ASSUME TypeOK
    PROVE  LET ids == SetToSeq(Dumped)
               entries == [i \in DOMAIN ids |-> ToEntry(ids[i], books[ids[i]])]
           IN entries \in Seq(Entry) /\ Saved(entries, books)
<1> DEFINE n == Cardinality(Dumped)
           ids == SetToSeq(Dumped)
           entries == [i \in DOMAIN ids |-> ToEntry(ids[i], books[ids[i]])]
<1>1. IsFiniteSet(Dumped)
    BY FilesAssumption, FS_Subset DEF Dumped
<1>2. n \in Nat /\ ExistsBijection(1 .. n, Dumped)
    BY <1>1, FS_CardinalityType
<1>3. \E f \in [1 .. n -> Dumped] : IsInjective(f)
    BY <1>2 DEF ExistsBijection, Bijection, Injection
<1>4. ids \in [1 .. n -> Dumped] /\ IsInjective(ids)
    BY <1>3 DEF SetToSeq
<1>5. ids \in Surjection(1 .. n, Dumped)
  <2>1. IsFiniteSet(1 .. n) /\ Cardinality(1 .. n) = n
      BY <1>2, FS_Interval
  <2>2. ids \in Injection(1 .. n, Dumped)
      BY <1>4 DEF Injection
  <2> QED BY <1>1, <2>1, <2>2, FS_Injection
<1>6. \A id \in Dumped : \E i \in 1 .. n : ids[i] = id
    BY <1>5 DEF Surjection
<1> HIDE DEF ids, n
<1>7. \A id \in Dumped : id \in Id /\ IsWritten(id, books) /\ books[id] \in BookRecord
    BY DEF Dumped, IsWritten, TypeOK
<1>8. entries = [i \in 1 .. n |-> ToEntry(ids[i], books[ids[i]])]
    BY <1>4
<1>9. \A i \in 1 .. n : /\ entries[i] \in Entry
                        /\ ids[i] \in Dumped /\ entries[i] = ToEntry(ids[i], books[ids[i]])
    BY <1>4, <1>7, <1>8, EntryOfBook
<1> HIDE DEF entries
<1>10. entries \in [1 .. n -> Entry]
    BY <1>8, <1>9
<1>11. entries \in Seq(Entry) /\ Len(entries) = n
    BY <1>2, <1>10, SeqDef, LenProperties
<1>12. FromLibrary(entries, books)
    BY <1>7, <1>9, <1>11 DEF FromLibrary
<1>13. \A id \in Id : IsWritten(id, books) => IsIn(entries, id, books)
    BY <1>6, <1>9, <1>11 DEF IsIn, IsWritten, Dumped
<1> QED BY <1>11, <1>12, <1>13 DEF Saved, entries, ids

-----------------------------------------------------------------------------
(***************************************************************************)
(* What loading one entry does.                                            *)
(***************************************************************************)

(* The book that an entry becomes has what the entry says.                 *)
Matches(book, e) ==
    /\ book.path = e.path /\ book.url = e.url /\ book.orig = e.orig
    /\ e.orig \/ book.title = e.title
    /\ book.ownCategory => e.ownCategory

LEMMA LoadEntryAdds ==
    ASSUME TypeOK, LoadEntry
    PROVE  \E id \in Id, book \in BookRecord :
              /\ AddBook(id, book)
              /\ only' \in {only, "more"}
              /\ only' # "more" => id = Head(job.entries).id
                                   /\ Matches(book, Head(job.entries))
<1> DEFINE e == Head(job.entries)
           read == FromEntry(e, job.readOnly)
<1>1. e \in Entry /\ job.readOnly \in BOOLEAN
    BY HeadTailProperties DEF LoadEntry, TypeOK
<1>2. read \in BookRecord /\ e.path \in Path \cup {NoPath} /\ e.id \in Id
    BY <1>1, BookOfEntry DEF Entry
<1>3. Matches(read, e)
    BY DEF Matches, FromEntry
<1> HIDE DEF e
<1>4. CASE /\ job.trust \/ e.path = NoPath
           /\ AddBook(e.id, read) /\ UNCHANGED only
    BY <1>2, <1>3, <1>4 DEF e
<1>5. CASE /\ ~job.trust /\ IsZim(e.path)
           /\ AddBook(disk[e.path].id, UpdateFromZim(read, e.path))
           /\ only' = IF Agree(e, disk[e.path]) THEN only ELSE "more"
  <2>1. /\ disk[e.path] \in ZimFile /\ UpdateFromZim(read, e.path) \in BookRecord
      BY <1>2, <1>5, BookOfZim
  <2>2. disk[e.path].id \in Id
      BY <2>1 DEF ZimFile
  <2>3. Agree(e, disk[e.path]) => /\ disk[e.path].id = e.id
                                  /\ Matches(UpdateFromZim(read, e.path), e)
    <3>1. /\ UpdateFromZim(read, e.path).path = e.path
          /\ UpdateFromZim(read, e.path).url = read.url
          /\ UpdateFromZim(read, e.path).orig = disk[e.path].orig
          /\ UpdateFromZim(read, e.path).title = disk[e.path].title
          /\ ~UpdateFromZim(read, e.path).ownCategory
        BY <1>2 DEF UpdateFromZim, BookRecord
    <3> QED BY <1>3, <3>1 DEF Agree, Matches
  <2> QED BY <1>5, <2>1, <2>2, <2>3 DEF e
<1>6. CASE /\ ~job.trust /\ e.path # NoPath /\ ~IsZim(e.path)
           /\ AddBook(e.id, [read EXCEPT !.pathValid = FALSE]) /\ UNCHANGED only
  <2>1. [read EXCEPT !.pathValid = FALSE] \in BookRecord
      BY <1>2 DEF BookRecord
  <2>2. Matches([read EXCEPT !.pathValid = FALSE], e)
      BY <1>2, <1>3 DEF Matches, BookRecord
  <2> QED BY <1>2, <1>6, <2>1, <2>2 DEF e
<1> QED BY <1>4, <1>5, <1>6 DEF LoadEntry, e

LEMMA AddBookIs ==
    ASSUME NEW id \in Id, NEW book \in BookRecord, TypeOK, AddBook(id, book)
    PROVE  /\ books' \in [Id -> BookRecord \cup {NoBook}]
           /\ books'[id] = IF books[id] = NoBook THEN book ELSE Update(books[id], book)
           /\ \A other \in Id : other # id => books'[other] = books[other]
BY DEF TypeOK, AddBook, Update

(* Adding what was saved again, to nothing or to what it is already.       *)
LEMMA RestoredByAdding ==
    ASSUME NEW id \in Id, NEW was \in BookRecord, ~was.readOnly,
           NEW book \in BookRecord, Matches(book, ToEntry(id, was)),
           NEW now \in BookRecord \cup {NoBook}, now = NoBook \/ Restored(now, was)
    PROVE  Restored(IF now = NoBook THEN book ELSE Update(now, book), was)
<1>1. was # NoBook /\ book # NoBook
    BY BookAssumption
<1>2. Restored(book, was)
    BY <1>1 DEF Matches, ToEntry, Restored, BookRecord
<1> QED BY <1>2 DEF Update

-----------------------------------------------------------------------------
(***************************************************************************)
(* Types.                                                                  *)
(***************************************************************************)

JobType == [kind : {"none", "load", "save"}, file : File \cup {NoFile},
            entries : Seq(Entry), readOnly : BOOLEAN, trust : BOOLEAN]

LEMMA NoJobType == NoJob \in JobType
BY EmptySeq DEF NoJob, JobType

LEMMA NoBooksType == NoBooks \in [Id -> BookRecord \cup {NoBook}]
BY DEF NoBooks

LEMMA PartlyWrittenType ==
    ASSUME TypeOK, job.kind = "save", job.file \in File, PartlyWritten
    PROVE  /\ files' \in [File -> [entries : Seq(Entry), complete : BOOLEAN]]
           /\ ~files'[job.file].complete
           /\ \A file \in File : file # job.file => files'[file] = files[file]
<1>1. job.entries \in Seq(Entry)
    BY DEF TypeOK
<1>2. PICK n \in 0 .. Len(job.entries) :
          files' = [files EXCEPT ![job.file] = Content(SubSeq(job.entries, 1, n), FALSE)]
    BY DEF PartlyWritten
<1>3. SubSeq(job.entries, 1, n) \in Seq(Entry)
    BY <1>1, SelectedPart
<1>4. files \in [File -> [entries : Seq(Entry), complete : BOOLEAN]]
    BY DEF TypeOK
<1>5. Content(SubSeq(job.entries, 1, n), FALSE) \in [entries : Seq(Entry), complete : BOOLEAN]
    BY <1>3 DEF Content
<1> QED BY <1>2, <1>4, <1>5 DEF Content

LEMMA InitType == FilesInit => TypeOK
<1> SUFFICES ASSUME FilesInit PROVE TypeOK
    OBVIOUS
<1>1. files \in [File -> [entries : Seq(Entry), complete : BOOLEAN]]
  <2>1. \A entries \in Foreign : entries \in Seq(Entry)
      BY FilesAssumption
  <2>2. <<>> \in Seq(Entry)
      BY EmptySeq
  <2>3. \A entries \in Seq(Entry), complete \in BOOLEAN :
            Content(entries, complete) \in [entries : Seq(Entry), complete : BOOLEAN]
      BY DEF Content
  <2>4. {Content(entries, TRUE) : entries \in Foreign} \cup {Content(<<>>, FALSE)}
            \subseteq [entries : Seq(Entry), complete : BOOLEAN]
      BY <2>1, <2>2, <2>3
  <2> QED BY <2>4 DEF FilesInit
<1>2. disk \in [Path -> ZimFile \cup {Junk, Absent}]
  <2>1. \A path \in Path : disk[path] \in ZimFile \cup {Junk, Absent}
      BY FilesAssumption DEF FilesInit
  <2>2. disk = [path \in Path |-> disk[path]]
      BY DEF FilesInit
  <2> QED BY <2>1, <2>2
<1>3. job \in JobType /\ books \in [Id -> BookRecord \cup {NoBook}]
    BY NoJobType, NoBooksType DEF FilesInit
<1> QED BY <1>1, <1>2, <1>3 DEF FilesInit, TypeOK, JobType

LEMMA NextKeepsType ==
    ASSUME TypeOK, SavingIsExact, [FilesNext]_filesVars PROVE TypeOK'
<1> USE DEF JobType
<1>1. ASSUME NEW file \in File, NEW readOnly \in BOOLEAN, NEW trust \in BOOLEAN,
             ReadFile(file, readOnly, trust)
      PROVE  TypeOK'
  <2>1. Parsed(file) \in Seq(Entry)
      BY EmptySeq DEF Parsed, TypeOK
  <2>2. job' \in JobType
      BY <1>1, <2>1 DEF ReadFile
  <2> QED BY <1>1, <2>2 DEF ReadFile, TypeOK
<1>2. ASSUME NEW file \in File, WriteToFile(file)
      PROVE  TypeOK'
  <2>1. job' \in JobType
      BY <1>2, DumpIsSaved, NoJobType DEF WriteToFile
  <2>2. files' \in [File -> [entries : Seq(Entry), complete : BOOLEAN]]
      BY <1>2, EmptySeq DEF WriteToFile, Content, TypeOK
  <2>3. stored' \in [File -> [Id -> BookRecord \cup {NoBook}] \cup {NotOurs}]
      BY <1>2, NoBooksType DEF WriteToFile, TypeOK
  <2> QED BY <1>2, <2>1, <2>2, <2>3 DEF WriteToFile, TypeOK
<1>3. ASSUME NEW feed \in Feed, ReadOpds(feed)
      PROVE  TypeOK'
  <2>1. feed \in Seq(Entry)
    <3>1. feed \in Seq({e \in Entry : e.path = NoPath /\ ~e.orig})
        BY FilesAssumption
    <3> QED BY <3>1, SeqMonotonic
  <2>2. job' \in JobType
      BY <1>3, <2>1, NoJobType DEF ReadOpds
  <2> QED BY <1>3, <2>2 DEF ReadOpds, TypeOK
<1>4. CASE LoadEntry
  <2>1. job' \in JobType
    <3>1. Tail(job.entries) \in Seq(Entry)
        BY <1>4, HeadTailProperties DEF LoadEntry, TypeOK
    <3> QED BY <1>4, <3>1 DEF LoadEntry, TypeOK
  <2>2. books' \in [Id -> BookRecord \cup {NoBook}] /\ only' \in {only, "more"}
      BY <1>4, LoadEntryAdds, AddBookIs
  <2> QED BY <1>4, <2>1, <2>2 DEF LoadEntry, TypeOK
<1>5. CASE FinishLoading
    BY <1>5, NoJobType DEF FinishLoading, TypeOK
<1>6. ASSUME NEW open \in Path, NEW save \in PathToSave, NEW url \in Url \cup {NoUrl},
             NEW checkMetaData \in BOOLEAN, AddBookFromPath(open, save, url, checkMetaData)
      PROVE  TypeOK'
  <2> DEFINE blank == [path |-> NoPath, pathValid |-> FALSE, title |-> Untitled,
                       orig |-> FALSE, ownCategory |-> FALSE, url |-> NoUrl,
                       readOnly |-> FALSE]
             read == UpdateFromZim(blank, open)
             path == IF save = NoPath THEN open
                     ELSE IF save = Relative THEN InDirOf[writableLibraryPath]
                     ELSE save
             book == [read EXCEPT !.path = path, !.url = url]
  <2>1. blank \in BookRecord
      BY DEF BookRecord
  <2> HIDE DEF blank
  <2>2. disk[open] \in ZimFile /\ read \in BookRecord
      BY <1>6, <2>1, BookOfZim DEF AddBookFromPath
  <2>3. path \in Path
      BY FilesAssumption DEF TypeOK
  <2> HIDE DEF read, path
  <2>4. book \in BookRecord /\ disk[open].id \in Id
      BY <2>2, <2>3 DEF BookRecord, ZimFile
  <2>5. AddBook(disk[open].id, book)
      BY <1>6 DEF AddBookFromPath, book, read, path, blank
  <2> HIDE DEF book
  <2>6. books' \in [Id -> BookRecord \cup {NoBook}]
      BY <2>4, <2>5, AddBookIs
  <2> QED BY <1>6, <2>6 DEF AddBookFromPath, TypeOK
<1>7. ASSUME NEW id \in Id, RemoveBook(id)
      PROVE  TypeOK'
    BY <1>7 DEF RemoveBook, TypeOK
<1>8. CASE FinishWriting
  <2>1. job.file \in File /\ job.entries \in Seq(Entry)
      BY <1>8 DEF FinishWriting, SavingIsExact, TypeOK
  <2>2. files' \in [File -> [entries : Seq(Entry), complete : BOOLEAN]]
      BY <1>8, <2>1 DEF FinishWriting, Content, TypeOK
  <2> QED BY <1>8, <2>1, <2>2, NoJobType DEF FinishWriting, TypeOK
<1>9. CASE WriteFails
  <2>1. files' \in [File -> [entries : Seq(Entry), complete : BOOLEAN]]
      BY <1>9, PartlyWrittenType DEF WriteFails, SavingIsExact
  <2> QED BY <1>9, <2>1, NoJobType DEF WriteFails, TypeOK
<1>10. CASE Restart
  <2>1. files' \in [File -> [entries : Seq(Entry), complete : BOOLEAN]]
      BY <1>10, PartlyWrittenType DEF Restart, SavingIsExact, TypeOK
  <2> QED BY <1>10, <2>1, NoJobType, NoBooksType DEF Restart, TypeOK
<1>11. ASSUME NEW path \in Path, DiskChanges(path)
       PROVE  TypeOK'
  <2>1. Zim[path] \subseteq ZimFile
      BY FilesAssumption
  <2> QED BY <1>11, <2>1 DEF DiskChanges, TypeOK
<1>12. CASE UNCHANGED filesVars
    BY <1>12 DEF filesVars, TypeOK
<1> QED BY <1>1, <1>2, <1>3, <1>4, <1>5, <1>6, <1>7, <1>8, <1>9, <1>10, <1>11, <1>12 DEF FilesNext

-----------------------------------------------------------------------------
(***************************************************************************)
(* The files and what a process has read of them.                          *)
(***************************************************************************)

LEMMA InitFiles == FilesInit => FilesInv
<1> SUFFICES ASSUME FilesInit PROVE FilesInv
    OBVIOUS
<1>1. job.kind = "none" /\ only = "nothing" /\ books = NoBooks
    BY DEF FilesInit, NoJob
<1>2. \A file \in File : stored[file] = NotOurs
    BY DEF FilesInit
<1> QED BY <1>1, <1>2, InitType DEF FilesInv, FilesAreAsSaved, NothingMeansNothing,
                                    SavingIsExact, LoadingRestores, RestoredAsSaved

(* What no step of reading, or of the library alone, changes.              *)
LEMMA FilesAlone ==
    ASSUME FilesInv, UNCHANGED <<files, stored>> PROVE FilesAreAsSaved'
BY DEF FilesInv, FilesAreAsSaved

LEMMA ReadFileKeeps ==
    ASSUME FilesInv, NEW file \in File, NEW readOnly \in BOOLEAN, NEW trust \in BOOLEAN,
           ReadFile(file, readOnly, trust)
    PROVE  NothingMeansNothing' /\ SavingIsExact' /\ LoadingRestores' /\ RestoredAsSaved'
<1>1. /\ job.kind = "none" /\ job'.kind = "load" /\ job'.file = file
      /\ job'.entries = Parsed(file)
      /\ only' = IF only \in {"nothing", file} THEN file ELSE "more"
      /\ UNCHANGED <<books, files, stored>>
    BY DEF ReadFile
<1>2. file \notin {"nothing", "more"}
    BY FilesAssumption
<1>3. ASSUME only \in {"nothing", file}, stored[file] # NotOurs
      PROVE  /\ FromLibrary(Parsed(file), stored[file])
             /\ \A id \in Id : \/ Restored(books[id], stored[file][id])
                               \/ /\ books[id] = NoBook /\ IsWritten(id, stored[file])
                                  /\ IsIn(Parsed(file), id, stored[file])
  <2>1. CASE files[file].complete
    <3>1. Saved(Parsed(file), stored[file])
        BY <1>3, <2>1 DEF FilesInv, FilesAreAsSaved, Parsed
    <3>2. CASE only = file
        BY <1>1, <1>3, <3>1, <3>2 DEF FilesInv, RestoredAsSaved, Saved
    <3>3. CASE only = "nothing"
      <4>1. \A id \in Id : books[id] = NoBook
          BY <3>3 DEF FilesInv, NothingMeansNothing, NoBooks
      <4>2. \A id \in Id : ~IsWritten(id, stored[file]) => Restored(NoBook, stored[file][id])
          BY DEF IsWritten, Restored
      <4> QED BY <3>1, <4>1, <4>2 DEF Saved
    <3> QED BY <1>3, <3>2, <3>3
  <2>2. CASE ~files[file].complete
    <3>1. stored[file] = NoBooks
        BY <1>3, <2>2 DEF FilesInv, FilesAreAsSaved
    <3>2. FromLibrary(Parsed(file), stored[file])
        BY <2>2, EmptySeq DEF Parsed, FromLibrary
    <3>3. \A id \in Id : books[id] = NoBook
      <4>1. CASE only = "nothing"
          BY <4>1 DEF FilesInv, NothingMeansNothing, NoBooks
      <4>2. CASE only = file
        <5>1. \A id \in Id : Restored(books[id], NoBooks[id])
            BY <1>1, <1>3, <3>1, <4>2 DEF FilesInv, RestoredAsSaved
        <5>2. \A id \in Id : NoBooks[id] = NoBook
            BY DEF NoBooks
        <5> QED BY <5>1, <5>2 DEF Restored
      <4> QED BY <1>3, <4>1, <4>2
    <3> QED BY <3>1, <3>2, <3>3 DEF Restored, NoBooks
  <2> QED BY <2>1, <2>2
<1>4. LoadingRestores'
  <2>1. SUFFICES ASSUME only' # "more"
                 PROVE  /\ job'.file = only'
                        /\ stored[only'] # NotOurs =>
                              /\ FromLibrary(job'.entries, stored[only'])
                              /\ \A id \in Id : \/ Restored(books[id], stored[only'][id])
                                                \/ /\ books[id] = NoBook
                                                   /\ IsWritten(id, stored[only'])
                                                   /\ IsIn(job'.entries, id, stored[only'])
      BY <1>1 DEF LoadingRestores, FromLibrary, StillToCome, IsIn, IsWritten
  <2>2. only' = file /\ only \in {"nothing", file}
      BY <1>1, <2>1
  <2> QED BY <1>1, <1>3, <2>2
<1> QED BY <1>1, <1>2, <1>4 DEF NothingMeansNothing, SavingIsExact, RestoredAsSaved

LEMMA LoadEntryKeeps ==
    ASSUME FilesInv, LoadEntry
    PROVE  NothingMeansNothing' /\ SavingIsExact' /\ LoadingRestores' /\ RestoredAsSaved'
<1> DEFINE e == Head(job.entries)
<1>1. TypeOK /\ job.kind = "load" /\ job.entries # <<>> /\ job' = [job EXCEPT !.entries = Tail(@)]
      /\ UNCHANGED <<files, stored>>
    BY DEF LoadEntry, FilesInv
<1>2. PICK id \in Id, book \in BookRecord :
          /\ AddBook(id, book)
          /\ only' \in {only, "more"}
          /\ only' # "more" => id = e.id /\ Matches(book, e)
    BY <1>1, LoadEntryAdds
<1>3. job'.kind = "load" /\ job'.file = job.file /\ job'.entries = Tail(job.entries)
    BY <1>1 DEF TypeOK
<1>4. only' # "nothing"
    BY <1>1, <1>2 DEF FilesInv, NothingMeansNothing
<1>5. LoadingRestores'
  <2>1. SUFFICES ASSUME only' # "more", stored[only] # NotOurs
                 PROVE  /\ FromLibrary(Tail(job.entries), stored[only])
                        /\ \A other \in Id :
                              \/ Restored(books'[other], stored[only][other])
                              \/ /\ books'[other] = NoBook /\ IsWritten(other, stored[only])
                                 /\ IsIn(Tail(job.entries), other, stored[only])
    <3>1. only' # "more" => only' = only /\ job.file = only
        BY <1>1, <1>2 DEF FilesInv, LoadingRestores
    <3> QED BY <1>1, <1>3, <3>1 DEF LoadingRestores, FromLibrary, StillToCome, IsIn, IsWritten
  <2> DEFINE lib == stored[only]
             rest == Tail(job.entries)
  <2>2. only \in File /\ lib \in [Id -> BookRecord \cup {NoBook}] /\ only' = only
      BY <1>1, <1>2, <1>4, <2>1 DEF TypeOK
  <2>3. /\ FromLibrary(job.entries, lib)
        /\ \A other \in Id : \/ Restored(books[other], lib[other])
                             \/ /\ books[other] = NoBook /\ IsWritten(other, lib)
                                /\ IsIn(job.entries, other, lib)
      BY <1>1, <2>1, <2>2 DEF FilesInv, LoadingRestores, StillToCome
  <2>4. /\ Len(job.entries) \in Nat \ {0} /\ e = job.entries[1]
        /\ rest \in Seq(Entry) /\ Len(rest) = Len(job.entries) - 1
        /\ \A i \in 1 .. Len(rest) : rest[i] = job.entries[i + 1]
      BY <1>1, HeadTailProperties, EmptySeq DEF TypeOK
  <2> HIDE DEF lib, rest
  <2>5. FromLibrary(rest, lib)
    <3>1. \A i \in 1 .. Len(rest) : i + 1 \in 1 .. Len(job.entries)
        BY <2>4
    <3> QED BY <2>3, <2>4, <3>1 DEF FromLibrary
  <2>6. PICK same \in Id : IsWritten(same, lib) /\ e = ToEntry(same, lib[same])
      BY <2>3, <2>4 DEF FromLibrary
  <2>7. same = id /\ Matches(book, ToEntry(id, lib[id]))
    <3>1. id = e.id /\ Matches(book, e)
        BY <1>2, <2>1
    <3>2. e.id = same
        BY <2>6 DEF ToEntry
    <3> QED BY <2>6, <3>1, <3>2
  <2>8. Restored(books'[id], lib[id])
    <3>1. lib[id] \in BookRecord /\ ~lib[id].readOnly
        BY <2>2, <2>6, <2>7 DEF IsWritten
    <3>2. books[id] = NoBook \/ Restored(books[id], lib[id])
        BY <2>3
    <3>3. books[id] \in BookRecord \cup {NoBook}
        BY <1>1 DEF TypeOK
    <3>4. books'[id] = IF books[id] = NoBook THEN book ELSE Update(books[id], book)
        BY <1>1, <1>2, AddBookIs
    <3> QED BY <2>7, <3>1, <3>2, <3>3, <3>4, RestoredByAdding
  <2>9. ASSUME NEW other \in Id, other # id
        PROVE  \/ Restored(books'[other], lib[other])
               \/ books'[other] = NoBook /\ IsWritten(other, lib) /\ IsIn(rest, other, lib)
    <3>1. books'[other] = books[other]
        BY <1>1, <1>2, <2>9, AddBookIs
    <3>2. SUFFICES ASSUME IsIn(job.entries, other, lib) PROVE IsIn(rest, other, lib)
        BY <2>3, <3>1
    <3>3. PICK i \in 1 .. Len(job.entries) : job.entries[i] = ToEntry(other, lib[other])
        BY <3>2 DEF IsIn
    <3>4. i # 1
        BY <2>4, <2>6, <2>7, <2>9, <3>3 DEF ToEntry
    <3>5. i - 1 \in 1 .. Len(rest) /\ (i - 1) + 1 = i
        BY <2>4, <3>4
    <3>6. rest[i - 1] = ToEntry(other, lib[other])
        BY <2>4, <3>3, <3>5
    <3> QED BY <3>5, <3>6 DEF IsIn
  <2> QED BY <2>5, <2>8, <2>9 DEF lib, rest
<1> QED BY <1>3, <1>4, <1>5 DEF NothingMeansNothing, SavingIsExact, RestoredAsSaved

LEMMA FinishLoadingKeeps ==
    ASSUME FilesInv, FinishLoading
    PROVE  NothingMeansNothing' /\ SavingIsExact' /\ LoadingRestores' /\ RestoredAsSaved'
<1>1. /\ job.kind = "load" /\ job.entries = <<>> /\ job'.kind = "none"
      /\ UNCHANGED <<books, files, stored, only>>
    BY DEF FinishLoading, NoJob
<1>2. RestoredAsSaved'
  <2>1. SUFFICES ASSUME NEW file \in File, only = file, stored[file] # NotOurs, NEW id \in Id
                 PROVE  Restored(books[id], stored[file][id])
      BY <1>1 DEF RestoredAsSaved, Restored
  <2>2. only # "more"
      BY <2>1, FilesAssumption
  <2>3. Restored(books[id], stored[file][id]) \/ StillToCome(id, stored[file])
      BY <1>1, <2>1, <2>2 DEF FilesInv, LoadingRestores
  <2>4. ~IsIn(job.entries, id, stored[file])
      BY <1>1, EmptySeq DEF IsIn
  <2> QED BY <2>3, <2>4 DEF StillToCome
<1>3. only # "nothing"
    BY <1>1 DEF FilesInv, NothingMeansNothing
<1> QED BY <1>1, <1>2, <1>3 DEF NothingMeansNothing, SavingIsExact, LoadingRestores

LEMMA WriteToFileKeeps ==
    ASSUME FilesInv, NEW file \in File, WriteToFile(file)
    PROVE  /\ FilesAreAsSaved' /\ NothingMeansNothing' /\ SavingIsExact'
           /\ LoadingRestores' /\ RestoredAsSaved'
<1>1. TypeOK
    BY DEF FilesInv
<1>2. /\ job'.kind = "save" /\ job'.file = file /\ only' = "more" /\ UNCHANGED books
      /\ Saved(job'.entries, books)
    BY <1>1, DumpIsSaved DEF WriteToFile, NoJob
<1>3. /\ ~files'[file].complete /\ stored'[file] = NoBooks
      /\ \A other \in File : other # file => files'[other] = files[other]
                                             /\ stored'[other] = stored[other]
    BY <1>1 DEF WriteToFile, TypeOK, Content
<1>4. FilesAreAsSaved'
  <2>1. ASSUME NEW other \in File, other # file, stored[other] # NotOurs
        PROVE  IF files[other].complete THEN Saved(files[other].entries, stored[other])
               ELSE stored[other] = NoBooks
      BY <2>1 DEF FilesInv, FilesAreAsSaved
  <2>2. ASSUME NEW other \in File, other # file, stored'[other] # NotOurs
        PROVE  IF files'[other].complete THEN Saved(files'[other].entries, stored'[other])
               ELSE stored'[other] = NoBooks
      BY <1>3, <2>1, <2>2
  <2> QED BY <1>3, <2>2 DEF FilesAreAsSaved
<1>5. SavingIsExact'
    BY <1>2, <1>3 DEF SavingIsExact
<1> QED BY <1>2, <1>4, <1>5, FilesAssumption DEF NothingMeansNothing, LoadingRestores, RestoredAsSaved

LEMMA FinishWritingKeeps ==
    ASSUME FilesInv, FinishWriting
    PROVE  /\ FilesAreAsSaved' /\ NothingMeansNothing' /\ SavingIsExact'
           /\ LoadingRestores' /\ RestoredAsSaved'
<1>1. /\ TypeOK /\ job.kind = "save" /\ job.file \in File /\ Saved(job.entries, books)
      /\ job'.kind = "none" /\ only' = job.file /\ UNCHANGED books
    BY DEF FilesInv, FinishWriting, SavingIsExact, NoJob
<1>2. /\ files'[job.file].complete /\ files'[job.file].entries = job.entries
      /\ stored'[job.file] = books
      /\ \A other \in File : other # job.file => files'[other] = files[other]
                                                 /\ stored'[other] = stored[other]
    BY <1>1 DEF FinishWriting, TypeOK, Content
<1>3. FilesAreAsSaved'
  <2>1. ASSUME NEW other \in File, other # job.file, stored[other] # NotOurs
        PROVE  IF files[other].complete THEN Saved(files[other].entries, stored[other])
               ELSE stored[other] = NoBooks
      BY <2>1 DEF FilesInv, FilesAreAsSaved
  <2>2. ASSUME NEW other \in File, other # job.file, stored'[other] # NotOurs
        PROVE  IF files'[other].complete THEN Saved(files'[other].entries, stored'[other])
               ELSE stored'[other] = NoBooks
      BY <1>2, <2>1, <2>2
  <2>3. files'[job.file].complete /\ Saved(files'[job.file].entries, stored'[job.file])
      BY <1>1, <1>2
  <2> QED BY <2>2, <2>3 DEF FilesAreAsSaved
<1>4. RestoredAsSaved'
  <2>1. \A id \in Id : books[id] \in BookRecord \cup {NoBook}
      BY <1>1 DEF TypeOK
  <2>2. \A id \in Id : Restored(books[id], books[id])
      BY <2>1 DEF Restored, BookRecord
  <2> QED BY <1>1, <1>2, <2>2 DEF RestoredAsSaved, Restored
<1> QED BY <1>1, <1>3, <1>4, FilesAssumption DEF NothingMeansNothing, SavingIsExact, LoadingRestores

(* A write that fails, a crash.                                            *)
LEMMA BrokenFileKeeps ==
    ASSUME FilesInv, job.kind = "save", PartlyWritten, UNCHANGED stored
    PROVE  FilesAreAsSaved'
<1>1. TypeOK /\ job.file \in File /\ stored[job.file] = NoBooks
    BY DEF FilesInv, SavingIsExact
<1>2. /\ ~files'[job.file].complete
      /\ \A file \in File : file # job.file => files'[file] = files[file]
    BY <1>1, PartlyWrittenType
<1>3. ASSUME NEW file \in File, file # job.file, stored[file] # NotOurs
      PROVE  IF files[file].complete THEN Saved(files[file].entries, stored[file])
             ELSE stored[file] = NoBooks
    BY <1>3 DEF FilesInv, FilesAreAsSaved
<1>4. ASSUME NEW file \in File, file # job.file, stored'[file] # NotOurs
      PROVE  IF files'[file].complete THEN Saved(files'[file].entries, stored'[file])
             ELSE stored'[file] = NoBooks
    BY <1>2, <1>3, <1>4
<1>5. ~files'[job.file].complete /\ stored'[job.file] = NoBooks
    BY <1>1, <1>2
<1> QED BY <1>4, <1>5 DEF FilesAreAsSaved

LEMMA NextKeepsFiles ==
    ASSUME FilesInv, [FilesNext]_filesVars PROVE FilesInv'
<1>1. TypeOK'
    BY NextKeepsType DEF FilesInv
<1> DEFINE Rest == /\ FilesAreAsSaved' /\ NothingMeansNothing' /\ SavingIsExact'
                   /\ LoadingRestores' /\ RestoredAsSaved'
<1> SUFFICES Rest
    BY <1>1 DEF FilesInv
<1>2. ASSUME NEW file \in File, NEW readOnly \in BOOLEAN, NEW trust \in BOOLEAN,
             ReadFile(file, readOnly, trust)
      PROVE  Rest
    BY <1>2, ReadFileKeeps, FilesAlone DEF ReadFile
<1>3. ASSUME NEW file \in File, WriteToFile(file)
      PROVE  Rest
    BY <1>3, WriteToFileKeeps
<1>4. ASSUME NEW feed \in Feed, ReadOpds(feed)
      PROVE  Rest
  <2>1. only' = "more" /\ job'.kind = "load" /\ UNCHANGED <<files, stored>>
      BY <1>4 DEF ReadOpds, NoJob
  <2> QED BY <2>1, FilesAlone, FilesAssumption
          DEF NothingMeansNothing, SavingIsExact, LoadingRestores, RestoredAsSaved
<1>5. CASE LoadEntry
    BY <1>5, LoadEntryKeeps, FilesAlone DEF LoadEntry
<1>6. CASE FinishLoading
    BY <1>6, FinishLoadingKeeps, FilesAlone DEF FinishLoading
<1>7. CASE \/ \E open \in Path, save \in PathToSave, url \in Url \cup {NoUrl},
                 checkMetaData \in BOOLEAN : AddBookFromPath(open, save, url, checkMetaData)
           \/ \E id \in Id : RemoveBook(id)
  <2>1. only' = "more" /\ job.kind = "none" /\ UNCHANGED <<job, files, stored>>
      BY <1>7 DEF AddBookFromPath, RemoveBook
  <2> QED BY <2>1, FilesAlone, FilesAssumption
          DEF NothingMeansNothing, SavingIsExact, LoadingRestores, RestoredAsSaved
<1>8. CASE FinishWriting
    BY <1>8, FinishWritingKeeps
<1>9. CASE WriteFails
  <2>1. /\ job.kind = "save" /\ job'.kind = "none" /\ only = "more" /\ only' = only
        /\ PartlyWritten /\ UNCHANGED stored
      BY <1>9 DEF WriteFails, NoJob, FilesInv, SavingIsExact
  <2> QED BY <2>1, BrokenFileKeeps, FilesAssumption
          DEF NothingMeansNothing, SavingIsExact, LoadingRestores, RestoredAsSaved
<1>10. CASE Restart
  <2>1. only' = "nothing" /\ books' = NoBooks /\ job'.kind = "none" /\ UNCHANGED stored
      BY <1>10 DEF Restart, NoJob
  <2>2. FilesAreAsSaved'
      BY <1>10, <2>1, BrokenFileKeeps, FilesAlone DEF Restart
  <2> QED BY <2>1, <2>2, FilesAssumption
          DEF NothingMeansNothing, SavingIsExact, LoadingRestores, RestoredAsSaved, NoBooks
<1>11. CASE (\E path \in Path : DiskChanges(path)) \/ UNCHANGED filesVars
  <2>1. UNCHANGED <<books, job, files, stored, only>>
      BY <1>11 DEF DiskChanges, filesVars
  <2> QED BY <2>1, FilesAlone
          DEF FilesInv, NothingMeansNothing, SavingIsExact, LoadingRestores, RestoredAsSaved,
              StillToCome, IsIn
<1> HIDE DEF Rest
<1> QED BY <1>2, <1>3, <1>4, <1>5, <1>6, <1>7, <1>8, <1>9, <1>10, <1>11 DEF FilesNext

-----------------------------------------------------------------------------
(***************************************************************************)
(* The theorems.                                                           *)
(***************************************************************************)

THEOREM FilesInvariant == FilesSpec => []FilesInv
<1> QED BY InitFiles, NextKeepsFiles, PTL DEF FilesSpec

(* The books, the files and what is under way are what the model says.     *)
THEOREM TypeCorrect == FilesSpec => []TypeOK
<1>1. FilesInv => TypeOK
    BY DEF FilesInv
<1> QED BY <1>1, FilesInvariant, PTL

(* Whoever has read nothing but one file has what was saved there, however *)
(* often the program ended, whatever it was doing, and however many files  *)
(* there are: a file is complete and has every writable book, or is broken *)
(* and gives none.                                                         *)
THEOREM SavedCorrect == FilesSpec => []RestoredAsSaved
<1>1. FilesInv => RestoredAsSaved
    BY DEF FilesInv
<1> QED BY <1>1, FilesInvariant, PTL

LEMMA ReadOnlyStep ==
    ASSUME TypeOK, [FilesNext]_filesVars, NEW id \in Id
    PROVE  ReadOnlyBookStays(id)
<1>1. CASE UNCHANGED books
    BY <1>1 DEF ReadOnlyBookStays
<1>2. ASSUME NEW other \in Id, NEW book, AddBook(other, book)
      PROVE  ReadOnlyBookStays(id)
    BY <1>2 DEF AddBook, Update, ReadOnlyBookStays, TypeOK
<1>3. CASE LoadEntry
    BY <1>2, <1>3, LoadEntryAdds
<1>4. ASSUME NEW open \in Path, NEW save \in PathToSave, NEW url \in Url \cup {NoUrl},
             NEW checkMetaData \in BOOLEAN, AddBookFromPath(open, save, url, checkMetaData)
      PROVE  ReadOnlyBookStays(id)
  <2>1. disk[open].id \in Id
      BY <1>4 DEF AddBookFromPath, IsZim, TypeOK, ZimFile
  <2> QED BY <1>2, <1>4, <2>1 DEF AddBookFromPath
<1>5. ASSUME NEW other \in Id, RemoveBook(other)
      PROVE  ReadOnlyBookStays(id)
    BY <1>5 DEF RemoveBook, ReadOnlyBookStays, TypeOK
<1>6. CASE Restart
    BY <1>6 DEF Restart, NoBooks, ReadOnlyBookStays
<1> QED BY <1>1, <1>3, <1>4, <1>5, <1>6 DEF FilesNext, filesVars, ReadFile, ReadOpds, FinishLoading,
           WriteToFile, FinishWriting, WriteFails, DiskChanges

(* A read-only book is what it is until it is gone, for every step and     *)
(* every book: nothing that is read or added later changes it.             *)
THEOREM ReadOnlyCorrect == FilesSpec => ReadOnlyBooksStay
<1>1. TypeOK /\ [FilesNext]_filesVars => [\A id \in Id : ReadOnlyBookStays(id)]_filesVars
    BY ReadOnlyStep
<1> QED BY <1>1, TypeCorrect, PTL DEF FilesSpec, ReadOnlyBooksStay

=============================================================================
