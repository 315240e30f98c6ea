------------------------------ MODULE MCExchange ------------------------------
(* What the library gives away and gets back.  Over HTTP: validators that  *)
(* come back in conditional requests, links to the entries of a book, the  *)
(* bytes of an item.  In files: the books of the library, and the paths by *)
(* which it finds them again.  They have nothing to do with each other: a  *)
(* behaviour looks at one of them, and the others stay where they are.     *)
EXTENDS ConditionalRequests, EntryLinks, ItemStream, Paths, LibraryFiles, TLC

(* The resources of test/server.cpp:167.                                   *)
MCResource == {r \in ResourceKind :
    \/ r.needsETag /\ r.cacheable /\ r.item              \* an article or an image
    \/ r.needsETag /\ ~r.cacheable /\ r.compressible /\ ~r.item   \* the home page
    \/ r.needsETag /\ r.cacheable /\ ~r.compressible /\ ~r.item   \* metadata
    \/ ~r.needsETag /\ ~r.cacheable /\ r.compressible /\ ~r.item} \* a feed

-----------------------------------------------------------------------------
(* Library files up to four parts deep, with detours, and books up to      *)
(* three names deep.  The process runs in "/b/a".                          *)
MCCwd == <<"", "b", "a">>

MCFile == {Append(dir, part) :
              dir \in BoundedSeq(Name \cup {"", ".", ".."}, 3), part \in Name}

MCWellPlacedFile == {f \in MCFile : WellPlaced(f)}

(* Normalised absolute paths, and paths that setPath took as they were,    *)
(* with a detour.                                                          *)
MCBook ==
    LET plain == {Absolute(names) : names \in BoundedSeq(Name, 3) \ {<<>>}}
    IN plain \cup {<<"", n, "..">> \o Tail(b) : n \in Name, b \in plain}

-----------------------------------------------------------------------------
(* Items with every character that makers of links treat in another way,   *)
(* and redirects: to an item that is below another one and has an escape   *)
(* in its path, and to one that has "?".                                   *)
MCItem == {<<"x">>, <<"/", "x">>, <<"x", "/", "%20">>, <<"x", " ", "&">>, <<"y", "%26">>,
           <<"y", "#">>, <<"y", "?">>, <<"external">>}

MCEntries ==
    <<"r">> :> <<"x", "/", "%20">> @@ <<"y">> :> <<"y", "?">> @@ [item \in MCItem |-> item]

MCMainEntry == <<"r">>

MCRoot == {<<>>, <<"/", "x">>, <<"/", "x", "/", "y">>}

MCBookName == {<<"x">>, <<"y", " ">>, <<"y", "?">>, <<"x", "%20">>, <<"y", "#">>,
               <<"skin">>, <<"search">>, <<"catch">>}

MCExternal == {<<"x">>, <<"x", "/", "%20", "?", "y", "%26">>, <<"x", "?", "y", "&", "x">>,
               <<"x", "#", "y">>}

-----------------------------------------------------------------------------
(* One library file, two books.  i1  is at p1, or in a feed; p2 holds i2,  *)
(* a variant of another book, or another edition of i1.                    *)
CONSTANTS i1, i2, p1, p2, t1, t2, u1, main

ABook(id, path, title, orig, ownCategory, url) ==
    [id |-> id, path |-> path, title |-> title, orig |-> orig,
     ownCategory |-> ownCategory, url |-> url]

AZim(id, title, orig) == [id |-> id, title |-> title, orig |-> orig]

MCZim == p1 :> {AZim(i1, t1, FALSE)}
         @@ p2 :> {AZim(i2, Untitled, TRUE)}

MCFeed == {<<ABook(i1, NoPath, t2, FALSE, TRUE, u1)>>}

(* A file written by hand: one book twice, and one with a category.        *)
MCForeign == {<<ABook(i1, p1, t1, FALSE, FALSE, NoUrl), ABook(i2, p2, Untitled, TRUE, TRUE, u1),
                ABook(i1, p2, t2, FALSE, FALSE, u1)>>}

MCInDirOf == main :> p2 @@ NoFile :> p2

-----------------------------------------------------------------------------
(* What is not looked at. *)
AnItem == size = 0 /\ compressible = FALSE /\ header = NoRange
APath == file = <<"a">> /\ book = <<"", "a">>
AName == root = <<>> /\ name = <<"x">>
AResource == content = 0 /\ resource \in {CHOOSE r \in Resource : TRUE}
SomeFiles == files = [f \in File |-> Content(<<>>, FALSE)]
             /\ disk = [path \in Path |-> Absent]

(* What a behaviour looks at. *)
VARIABLE looked

MCInit ==
    /\ looked \in {"revalidation", "links", "bodies", "paths", "library files"}
    /\ (looked = "revalidation" \/ AResource) /\ ConditionalInit
    /\ (looked = "links" \/ AName) /\ LinksInit
    /\ (looked = "bodies" \/ AnItem) /\ Init
    /\ (looked = "paths" \/ APath) /\ PathsInit
    /\ (looked = "library files" \/ SomeFiles) /\ FilesInit

MCNext ==
    /\ UNCHANGED looked
    /\ IF looked = "revalidation" THEN ConditionalNext ELSE UNCHANGED conditionalVars
    /\ IF looked = "links" THEN LinksNext ELSE UNCHANGED linkVars
    /\ IF looked = "bodies" THEN Next ELSE UNCHANGED vars
    /\ IF looked = "paths" THEN PathsNext ELSE UNCHANGED pathVars
    /\ IF looked = "library files" THEN FilesNext ELSE UNCHANGED filesVars

MCVars == <<looked, conditionalVars, linkVars, vars, pathVars, filesVars>>

MCFairness ==
    WF_MCVars(/\ looked = "bodies" /\ (BuildResponse \/ ReadBlock)
              /\ UNCHANGED <<looked, conditionalVars, linkVars, pathVars, filesVars>>)

MCSpec == MCInit /\ [][MCNext]_MCVars /\ MCFairness

(* The body of every small item is sent to its end unless the client       *)
(* closes the connection (SmallBodyIsCompleted), where bodies are looked   *)
(* at.                                                                     *)
BodiesAreCompleted == looked = "bodies" => SmallBodyIsCompleted
=============================================================================
