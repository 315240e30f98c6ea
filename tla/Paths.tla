--------------------------------- MODULE Paths ---------------------------------
(***************************************************************************)
(* The path algebra of src/src/tools/pathTools.cpp, as the library file    *)
(* uses it: Library::writeToFile writes the path of each book relative to  *)
(* the directory of the file, Manager::readFile makes it absolute again.   *)
(* In between, the directory tree may be moved.  POSIX only.               *)
(*                                                                         *)
(* A path is represented by the parts split(path, "/") gives: "/a/b" is    *)
(* <<"", "a", "b">>, the empty string is <<"">>.                           *)
(***************************************************************************)
EXTENDS Integers, SequencesExt

CONSTANTS
    Name,      \* names of files and directories
    FileName,  \* what writeToFile and readFile may be given
    Book,      \* the paths books may have
    Cwd        \* the current directory of the process

VARIABLES
    file,   \* the path that writeToFile and readFile are given
    book,   \* the path of the book
    entry,  \* the path attribute in the file
    found,  \* the path of the book after readFile
    stage   \* "loaded", "written" or "read"

pathVars == <<file, book, entry, found, stage>>

Empty == <<"">>

(* What split() makes of what join() made of the parts. *)
Joined(parts) == IF parts = <<>> THEN Empty ELSE parts

IsAbsolute(path) == Len(path) > 1 /\ path[1] = ""

IsRelativePath(path) == path # Empty /\ ~IsAbsolute(path)

-----------------------------------------------------------------------------
(* A mutant: ".." is dropped where there is nothing to go up from.         *)
UpIfPossible(ret, absolute) ==
    IF Len(ret) > (IF absolute THEN 1 ELSE 0) THEN Front(ret) ELSE ret

Up(ret, absolute) ==
    IF absolute THEN IF Len(ret) > 1 THEN Front(ret) ELSE ret
    ELSE IF ret # <<>> /\ Last(ret) # ".." THEN Front(ret) ELSE Append(ret, "..")

Put(ret, parts, i, absolute) ==
    IF parts[i] = ".." THEN Up(ret, absolute)
    ELSE IF parts[i] = ""
    THEN IF ret = <<>> /\ (absolute \/ i < Len(parts)) THEN Empty ELSE ret
    ELSE IF parts[i] = "." THEN ret ELSE Append(ret, parts[i])

NormalizeParts(parts, absolute) ==
    LET ret[n \in 0 .. Len(parts)] ==
            IF n = 0 THEN <<>> ELSE Put(ret[n - 1], parts, n, absolute)
        kept == ret[Len(parts)]
    IN IF absolute /\ kept = Empty THEN <<"", "">> ELSE kept

ComputeRelativePath(path, absolutePath) ==
    LET from == NormalizeParts(path, FALSE)
        to == NormalizeParts(absolutePath, TRUE)
        common == Len(LongestCommonPrefix({from, to}))
        up == [i \in 1 .. Len(from) - common |-> ".."]
    IN Joined(NormalizeParts(up \o SubSeq(to, common + 1, Len(to)), FALSE))

ComputeAbsolutePath(path, relativePath) ==
    LET base == NormalizeParts(IF path = Empty THEN Cwd ELSE path, TRUE)
    IN Joined(NormalizeParts(base \o NormalizeParts(relativePath, FALSE), TRUE))

RemoveLastPathElement(path) ==
    LET parts == NormalizeParts(path, FALSE)
    IN Joined(IF parts = <<>> THEN parts ELSE Front(parts))

-----------------------------------------------------------------------------
(* What a path means: the names from the root down to a file.              *)

Walk(at, part) ==
    IF part \in {"", "."} THEN at
    ELSE IF part = ".." THEN IF at = <<>> THEN at ELSE Front(at)
    ELSE Append(at, part)

Names(path) ==
    LET at[n \in 0 .. Len(path)] == IF n = 0 THEN <<>> ELSE Walk(at[n - 1], path[n])
    IN at[Len(path)]

(* The path an open() in this process goes to. *)
Opened(path) == Names(IF IsAbsolute(path) THEN path ELSE Cwd \o path)

Absolute(names) == IF names = <<>> THEN <<"", "">> ELSE Empty \o names

(* A library file whose path says where it is: it has a bare name, or an   *)
(* absolute path that never goes up from the root, which normalizeParts(_, *)
(* false) takes to be a relative one.  (A relative path with a directory   *)
(* is compared with the absolute one of the book as if it started at the   *)
(* root, and the entries lead elsewhere.)                                  *)
WellPlaced(path) ==
    /\ Last(path) \in Name
    /\ \/ Len(path) = 1
       \/ /\ IsAbsolute(path)
          /\ \A i \in DOMAIN path : path[i] = ".." => Names(SubSeq(path, 1, i - 1)) # <<>>

ASSUME PathsAssumption ==
    /\ Name \cap {"", ".", ".."} = {}
    /\ FileName \subseteq Seq(Name \cup {"", ".", ".."}) \ {<<>>}
    /\ Book \cup {Cwd} \subseteq Seq(Name \cup {"", ".", ".."})
    /\ \A path \in FileName : WellPlaced(path)
    /\ \A path \in Book \cup {Cwd} : IsAbsolute(path)

PathsInit ==
    /\ file \in FileName
    /\ book \in Book
    /\ ~IsPrefix(Opened(book), Opened(file))
    /\ entry = Empty
    /\ found = Empty
    /\ stage = "loaded"

(* Library::writeToFile and LibXMLDumper::handleBook. *)
WritePaths ==
    /\ stage = "loaded"
    /\ entry' = ComputeRelativePath(RemoveLastPathElement(file), book)
    /\ stage' = "written"
    /\ UNCHANGED <<file, book, found>>

(* The directory where the ways to the file and to the book part, or one   *)
(* above it, gets another name.  Not after the library was written under a *)
(* relative path: a bare name makes for absolute entries.                  *)
MoveTree ==
    /\ stage = "written"
    /\ IsAbsolute(file)
    /\ \E n \in 1 .. Len(LongestCommonPrefix({Front(Opened(file)), Opened(book)})), name \in Name :
          /\ file' = Absolute([Opened(file) EXCEPT ![n] = name])
          /\ book' = Absolute([Opened(book) EXCEPT ![n] = name])
    /\ UNCHANGED <<entry, found, stage>>

(* Manager::readFile and Book::updateFromXml. *)
ReadPaths ==
    /\ stage = "written"
    /\ found' = IF IsRelativePath(entry)
                THEN ComputeAbsolutePath(RemoveLastPathElement(file), entry)
                ELSE entry
    /\ stage' = "read"
    /\ UNCHANGED <<file, book, entry>>

PathsNext == WritePaths \/ MoveTree \/ ReadPaths

PathsSpec == PathsInit /\ [][PathsNext]_pathVars

-----------------------------------------------------------------------------
(* Properties.                                                             *)

(* A book is found again where it is, by its normalised path, whatever     *)
(* detours the path of the library file or of the book takes, also when    *)
(* the library file has a bare name, and also after the tree that holds    *)
(* the library file and the book has been moved: the entry does not go up  *)
(* further than where the ways to the file and to the book part.           *)
BookIsFoundAgain ==
    stage = "read" => found = Absolute(Opened(book))

=============================================================================
