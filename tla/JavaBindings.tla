---------------------------- MODULE JavaBindings -----------------------------
(***************************************************************************)
(* The Java bindings (src/src/wrapper/java): Java objects hold the address *)
(* of a C++ object, and several Java threads call native functions.        *)
(*                                                                         *)
(* Readers, searchers and servers are behind a Handle: a call reads the    *)
(* address, then takes the one globalLock, and the caller has to dispose   *)
(* of the object.  Libraries and managers are plain addresses without a    *)
(* lock, and the garbage collector finalizes them.                         *)
(*                                                                         *)
(* There is one object of each class.  The application disposes of the     *)
(* reader once, when no other thread uses it.                              *)
(***************************************************************************)
EXTENDS Naturals, SequencesExt

-----------------------------------------------------------------------------
(***************************************************************************)
(* The suggestions that a kiwix::Reader keeps (src/src/reader.cpp), which  *)
(* an application of Java gets one by one: a list that a search fills and  *)
(* a cursor in it that getNextSuggestion moves.  The list is a std::vector *)
(* and the cursor an iterator, which an insertion invalidates; a search    *)
(* sets it again at its end, unless it throws.                             *)
(*                                                                         *)
(* An item is the normalised title, a number in the order of titles, and   *)
(* the final path of an entry; the title as it is written tells nothing    *)
(* apart.                                                                  *)
(***************************************************************************)
CONSTANTS
    Item,       \* what an entry of the archive gives
    Prefix,     \* what the user types, the empty prefix NoPrefix among them
    NoPrefix,
    ByTitle,    \* ByTitle[p]: the items whose titles begin with p, by title
    FullText,   \* FullText[p]: what the title index of the archive finds for p
    Variants,   \* Variants[p]: p and its spellings with other capitals
    Count,      \* how many suggestions callers ask for
    Dangling    \* a cursor whose list has moved

ASSUME SuggestionsAssumption ==
    /\ \A item \in Item : item.norm \in Nat
    /\ NoPrefix \in Prefix
    /\ ByTitle \in [Prefix -> Seq(Item)]
    /\ FullText \in [Prefix -> Seq(Item)]
    /\ Variants \in [Prefix -> Seq(Prefix)]
    /\ Count \subseteq Nat
    /\ Dangling \notin Nat

VARIABLES
    suggestions,    \* the list
    offset,         \* how many of it were given out, or Dangling
    byTitle         \* history: the list was made from the titles

suggestionsVars == <<suggestions, offset, byTitle>>

SuggestionsTypeOK ==
    /\ suggestions \in Seq(Item)
    /\ offset \in 0..Len(suggestions) \cup {Dangling}
    /\ byTitle \in BOOLEAN

SuggestionsInit == suggestions = <<>> /\ offset = 0 /\ byTitle = TRUE

-----------------------------------------------------------------------------
(* Mutant: the scan stops at an equal title, before its path is compared.  *)
PlaceAtEqual(list, item) ==
    Min({i \in 1..Len(list) : item.norm <= list[i].norm} \cup {Len(list) + 1})

(* The scan of the list stops at the first larger title.                   *)
Place(list, item) ==
    Min({i \in 1..Len(list) : item.norm < list[i].norm} \cup {Len(list) + 1})

(* An item is skipped when the scan has met its title with its path.       *)
Insert(list, item) ==
    IF \E i \in 1..(Place(list, item) - 1) : list[i] = item THEN list
    ELSE InsertAt(list, Place(list, item), item)

(* The loop over the found entries, until the list is long enough.         *)
AddFound(list, found, count) ==
    FoldLeft(LAMBDA l, item : IF Len(l) >= count THEN l ELSE Insert(l, item),
             list, found)

SearchTitles(prefix, count, list) ==
    IF prefix = NoPrefix THEN list ELSE AddFound(list, ByTitle[prefix], count)

SearchVariants(prefixes, count, list) ==
    FoldLeft(LAMBDA l, p : SearchTitles(p, count, l), list, prefixes)

(* What the list may be when reading an entry of the archive throws: some  *)
(* variants were searched, and a part of what the next one finds.          *)
CutShort(prefix, count) ==
    UNION {{AddFound(SearchVariants(SubSeq(Variants[prefix], 1, n - 1), count, <<>>),
                     SubSeq(ByTitle[Variants[prefix][n]], 1, k), count) :
               k \in 0..Len(ByTitle[Variants[prefix][n]])} :
           n \in {m \in DOMAIN Variants[prefix] : Variants[prefix][m] # NoPrefix}}

-----------------------------------------------------------------------------
(* searchSuggestionsSmart: from the index if it finds something, else from *)
(* the titles, for every variant of the prefix.                            *)
SearchSuggestionsSmart(prefix, count) ==
    /\ byTitle' = (FullText[prefix] = <<>>)
    /\ suggestions' =
           IF FullText[prefix] # <<>>
           THEN SubSeq(FullText[prefix], 1, Min({count, Len(FullText[prefix])}))
           ELSE SearchVariants(Variants[prefix], count, <<>>)
    /\ offset' = 0

(* An exception leaves the loop, wherever it comes; the cursor is where the *)
(* cleared list began.                                                     *)
SearchThrows(prefix, count) ==
    /\ byTitle' = (FullText[prefix] = <<>>)
    /\ suggestions' \in
           IF byTitle' THEN {<<>>} \cup CutShort(prefix, count)
           ELSE {SubSeq(FullText[prefix], 1, k) : k \in 0..Min({count, Len(FullText[prefix])})}
    /\ offset' = IF suggestions' = <<>> THEN 0 ELSE Dangling

GetNextSuggestion ==
    /\ offset # Dangling
    /\ offset' = IF offset < Len(suggestions) THEN offset + 1 ELSE offset
    /\ UNCHANGED <<suggestions, byTitle>>

-----------------------------------------------------------------------------
(***************************************************************************)
(* The objects, the lock and the collector.                                *)
(***************************************************************************)
CONSTANTS
    Thread,
    NoThread,
    Url,        \* the paths of the entries, and some of no entry
    Redirect,   \* the entries that are redirects, with where they lead
    Size,       \* the other ones, with their size
    MaxHops,    \* how many redirects are followed, 42 in the code
    MaxInt      \* bound: the largest offset and length that are asked for

ASSUME BindingsAssumption ==
    /\ NoThread \notin Thread
    /\ Redirect \in [DOMAIN Redirect -> Url]
    /\ Size \in [DOMAIN Size -> Nat]
    /\ DOMAIN Redirect \cap DOMAIN Size = {}
    /\ MaxHops \in Nat \ {0} /\ MaxInt \in Nat

Object == {"reader", "searcher", "server", "library", "manager"}

Call == {"open reader", "dispose reader", "read metadata", "read part",
         "search suggestions", "next suggestion",
         "new searcher", "add reader", "new server", "start server", "stop server",
         "new library", "list books", "new manager", "read books"}

VARIABLES
    globalLock, \* the thread that has it
    native,     \* native[o]: "none", "live" or "freed"
    roots,      \* the Java objects that the application refers to
    thread,     \* thread[t]: the native function that a Java thread is in
    serving,    \* the daemon of the server is running
    part,       \* what getContentPart was asked and answered, until the next call
    crashed     \* "no", or which freed memory was used, or "race"

bindingsVars == <<suggestions, offset, byTitle, globalLock, native, roots,
                  thread, serving, part, crashed>>

Idle == [call |-> "none", locks |-> 0, on |-> {}]

Busy(t) == thread[t].call # "none"

NoPart == [url |-> NoThread, offset |-> 0, len |-> 0, size |-> 0]

(* The lock is with a thread that is in a call, and a call that uses the   *)
(* reader finds it alive.                                                  *)
TypeOK ==
    /\ SuggestionsTypeOK
    /\ globalLock \in {t \in Thread : Busy(t)} \cup {NoThread}
    /\ native \in [Object -> {"none", "live", "freed"}]
    /\ roots \subseteq {o \in Object : native[o] = "live"}
    /\ thread \in [Thread -> [call : Call \cup {"none"}, locks : 0..2, on : SUBSET Object]]
    /\ \A t \in Thread : "reader" \in thread[t].on => native["reader"] = "live"
    /\ serving \in BOOLEAN
    /\ part.url \in Url => part.size \in Nat
    /\ crashed \in {"no", "server", "manager", "iterator", "race"}

Init ==
    /\ SuggestionsInit
    /\ globalLock = NoThread
    /\ native = [o \in Object |-> "none"]
    /\ roots = {}
    /\ thread = [t \in Thread |-> Idle]
    /\ serving = FALSE
    /\ part = NoPart
    /\ crashed = "no"

-----------------------------------------------------------------------------
(* What the application refers to, and what the running calls have on      *)
(* their stacks.                                                           *)
InUse == roots \cup UNION {thread[t].on : t \in Thread}

(* Mutant: the manager does not keep its library. *)
ReachableWithoutFields == InUse

(* What the collector may not take.  Of the fields of the Java classes     *)
(* only Manager._library matters: a server does not refer to its library.  *)
Reachable == InUse \cup IF "manager" \in InUse THEN {"library"} ELSE {}

(* Mutant: dispose() locks before it asks for the handle, which locks.     *)
LocksTwiceToDispose(call) ==
    CASE call \in {"add reader", "dispose reader"} -> 2
      [] call \in {"new searcher", "new library", "list books", "new manager", "read books"} -> 0
      [] OTHER -> 1

(* How often a call takes the lock: once through a Handle, twice where two *)
(* Handles are used at once, not at all without a Handle.                  *)
Locks(call) ==
    CASE call = "add reader" -> 2
      [] call \in {"new searcher", "new library", "list books", "new manager", "read books"} -> 0
      [] OTHER -> 1

(* The objects that the application needs for a call. *)
Needs(call) ==
    CASE call \in {"dispose reader", "read metadata", "read part",
                   "search suggestions", "next suggestion"} -> {"reader"}
      [] call = "add reader" -> {"searcher", "reader"}
      [] call \in {"start server", "stop server"} -> {"server"}
      [] call \in {"new server", "list books", "new manager"} -> {"library"}
      [] call = "read books" -> {"manager"}
      [] OTHER -> {}

(* The object that a constructor makes; there is only one of a class.      *)
Makes(call) ==
    CASE call = "open reader" -> {"reader"}
      [] call = "new searcher" -> {"searcher"}
      [] call = "new server" -> {"server"}
      [] call = "new library" -> {"library"}
      [] call = "new manager" -> {"manager"}
      [] OTHER -> {}

Enter(t, call) ==
    /\ crashed = "no"
    /\ ~Busy(t)
    /\ Needs(call) \subseteq roots
    /\ \A o \in Makes(call) :
          native[o] = "none" /\ \A u \in Thread : o \notin Makes(thread[u].call)
    /\ call = "dispose reader" => \A u \in Thread : "reader" \notin thread[u].on
    /\ thread' = [thread EXCEPT ![t] =
                     [call |-> call, locks |-> Locks(call), on |-> Needs(call)]]
    /\ roots' = IF call = "dispose reader" THEN roots \ {"reader"} ELSE roots
    /\ part' = NoPart
    /\ UNCHANGED <<suggestionsVars, globalLock, native, serving, crashed>>

(* The mutex is not recursive: a thread that has it waits for itself.      *)
TakeLock(t) ==
    /\ crashed = "no"
    /\ thread[t].locks > 0
    /\ globalLock = NoThread
    /\ globalLock' = t
    /\ thread' = [thread EXCEPT ![t].locks = @ - 1]
    /\ UNCHANGED <<suggestionsVars, native, roots, serving, part, crashed>>

(* The body of a native function, once it has its locks ...                *)
Runs(t, call) == crashed = "no" /\ thread[t].call = call /\ thread[t].locks = 0

(* ... and its end, which destroys the lock of the Handle, if that has not  *)
(* gone before.                                                            *)
Return(t) ==
    /\ thread' = [thread EXCEPT ![t] = Idle]
    /\ globalLock' = IF globalLock = t THEN NoThread ELSE globalLock

-----------------------------------------------------------------------------
(* Constructors.  Only the archive of a reader can fail to open.           *)
Construct(t, call) ==
    /\ Runs(t, call)
    /\ Makes(call) # {}
    /\ Return(t)
    /\ native' = [o \in Object |-> IF o \in Makes(call) THEN "live" ELSE native[o]]
    /\ roots' = roots \cup Makes(call)
    /\ UNCHANGED <<suggestionsVars, serving, part, crashed>>

OpenFails(t) ==
    /\ Runs(t, "open reader")
    /\ Return(t)
    /\ UNCHANGED <<suggestionsVars, native, roots, serving, part, crashed>>

DisposeReader(t) ==
    /\ Runs(t, "dispose reader")
    /\ Return(t)
    /\ native' = [native EXCEPT !["reader"] = "freed"]
    /\ suggestions' = <<>> /\ offset' = 0 /\ byTitle' = TRUE
    /\ UNCHANGED <<roots, serving, part, crashed>>

(* READER is a temporary.  Functions that take an entry out of the archive *)
(* with it go on with the entry, but without the lock.                     *)
HandleEnds(t) ==
    /\ \E call \in {"read metadata", "read part"} : Runs(t, call)
    /\ globalLock = t /\ globalLock' = NoThread
    /\ UNCHANGED <<suggestionsVars, native, roots, thread, serving, part, crashed>>

(* Calls that only read, among them those that catch an exception and      *)
(* answer with null.                                                       *)
ReadMetadata(t) ==
    /\ \E call \in {"read metadata", "list books"} : Runs(t, call)
    /\ Return(t)
    /\ UNCHANGED <<suggestionsVars, native, roots, serving, part, crashed>>

(* Entry::getFinalEntry, which throws when the redirects do not end.       *)
FinalEntry(url) ==
    LET at[n \in 0..MaxHops] ==
            IF n = 0 THEN url
            ELSE IF at[n-1] \in DOMAIN Redirect THEN Redirect[at[n-1]] ELSE at[n-1]
    IN at[MaxHops]

(* getContentPart: the size that it reports, which is the size of the      *)
(* entry when no bytes are asked for.                                      *)
ReportedSize(url, from, len) ==
    LET entry == FinalEntry(url) IN
    IF entry \notin DOMAIN Size THEN 0
    ELSE IF len = 0 THEN Size[entry]
    ELSE IF from + len < Size[entry] THEN len
    ELSE 0

ReadPart(t, url, from, len) ==
    /\ Runs(t, "read part") /\ globalLock # t
    /\ Return(t)
    /\ part' = [url |-> url, offset |-> from, len |-> len,
                size |-> ReportedSize(url, from, len)]
    /\ UNCHANGED <<suggestionsVars, native, roots, serving, crashed>>

(* searchSuggestions is the smart search of the reader; an exception is    *)
(* caught and the answer is false.                                         *)
SearchSuggestions(t, prefix, count) ==
    /\ Runs(t, "search suggestions")
    /\ Return(t)
    /\ SearchSuggestionsSmart(prefix, count) \/ SearchThrows(prefix, count)
    /\ UNCHANGED <<native, roots, serving, part, crashed>>

NextSuggestion(t) ==
    /\ Runs(t, "next suggestion")
    /\ \/ /\ GetNextSuggestion
          /\ Return(t)
          /\ UNCHANGED crashed
       \/ /\ offset = Dangling
          /\ crashed' = "iterator"
          /\ UNCHANGED <<suggestionsVars, thread, globalLock>>
    /\ UNCHANGED <<native, roots, serving, part>>

StartServer(t) ==
    /\ Runs(t, "start server")
    /\ Return(t)
    /\ serving' \in BOOLEAN
    /\ UNCHANGED <<suggestionsVars, native, roots, part, crashed>>

StopServer(t) ==
    /\ Runs(t, "stop server")
    /\ Return(t)
    /\ serving' = FALSE
    /\ UNCHANGED <<suggestionsVars, native, roots, part, crashed>>

(* The manager writes into the library it was made with.                   *)
ReadBooks(t) ==
    /\ Runs(t, "read books")
    /\ IF native["library"] = "live" THEN Return(t) /\ UNCHANGED crashed
       ELSE crashed' = "manager" /\ UNCHANGED <<thread, globalLock>>
    /\ UNCHANGED <<suggestionsVars, native, roots, serving, part>>

-----------------------------------------------------------------------------
(* The application lets a library or a manager go, and the collector       *)
(* finalizes what nothing refers to, in any order.  The other classes have *)
(* no finalizer: without dispose() their objects stay for ever.            *)
Finalizable == {"library", "manager"}

Forget(o) ==
    /\ crashed = "no"
    /\ o \in roots
    /\ roots' = roots \ {o}
    /\ UNCHANGED <<suggestionsVars, globalLock, native, thread, serving, part, crashed>>

Finalize(o) ==
    /\ crashed = "no"
    /\ native[o] = "live" /\ o \notin Reachable
    /\ native' = [native EXCEPT ![o] = "freed"]
    /\ UNCHANGED <<suggestionsVars, globalLock, roots, thread, serving, part, crashed>>

(* The daemon goes on with a library that was finalized under it.          *)
ServeFreedLibrary ==
    /\ crashed = "no"
    /\ serving /\ native["library"] = "freed"
    /\ crashed' = "server"
    /\ UNCHANGED <<suggestionsVars, globalLock, native, roots, thread, serving, part>>

(* Nothing keeps two threads apart that use the library.                   *)
Race(t, u) ==
    /\ crashed = "no"
    /\ t # u
    /\ Runs(t, "read books")
    /\ Runs(u, "read books") \/ Runs(u, "list books")
    /\ crashed' = "race"
    /\ UNCHANGED <<suggestionsVars, globalLock, native, roots, thread, serving, part>>

-----------------------------------------------------------------------------
Step(t) ==
    \/ TakeLock(t)
    \/ \E call \in Call : Construct(t, call)
    \/ OpenFails(t) \/ DisposeReader(t) \/ HandleEnds(t) \/ ReadMetadata(t)
    \/ \E url \in Url, from, len \in 0..MaxInt : ReadPart(t, url, from, len)
    \/ \E prefix \in Prefix, count \in Count : SearchSuggestions(t, prefix, count)
    \/ NextSuggestion(t)
    \/ StartServer(t) \/ StopServer(t)
    \/ ReadBooks(t)

Next ==
    \/ \E t \in Thread : Step(t) \/ \E call \in Call : Enter(t, call)
    \/ \E o \in Finalizable : Forget(o) \/ Finalize(o)
    \/ ServeFreedLibrary
    \/ \E t, u \in Thread : Race(t, u)

(* A thread in a native function goes on; nobody has to call one, and the  *)
(* mutex need not be fair to those who wait for it.                        *)
Spec == Init /\ [][Next]_bindingsVars /\ \A t \in Thread : WF_bindingsVars(Step(t))

-----------------------------------------------------------------------------
(* Properties.                                                             *)

(* A list made from the titles is in their order and has no title with the *)
(* same article twice, although an item is compared with the smaller       *)
(* titles only, and although the variants of a prefix find the same        *)
(* entries again.  (An article with two titles is there with both: see     *)
(* ArticleIsListedOnce.)  A list made from the index is what the index     *)
(* finds, from the first on.  None is longer than somebody asked for.  All *)
(* that, although a search may have been left half-way.                    *)
SuggestionsAreInOrder ==
    /\ byTitle =>
          \A i, j \in DOMAIN suggestions :
              i < j => /\ suggestions[i].norm <= suggestions[j].norm
                       /\ suggestions[i] # suggestions[j]
    /\ ~byTitle => \E prefix \in Prefix : IsPrefix(suggestions, FullText[prefix])
    /\ suggestions # <<>> => \E count \in Count : Len(suggestions) <= count

(* However the collector and the calls interleave, a manager that the      *)
(* application can still reach, or is being called on, has its library:    *)
(* the C++ object only has an address, the Java field keeps it valid.      *)
ManagerHasItsLibrary ==
    native["manager"] = "live" /\ "manager" \in InUse => native["library"] = "live"

(* The one lock of the bindings is given back by every call that takes it, *)
(* except by addReader, which takes it for the searcher and then waits for *)
(* it to get at the reader, for ever, and all the other threads with it.   *)
LockIsReleased ==
    globalLock # NoThread ~> \/ globalLock = NoThread
                             \/ thread[globalLock].call = "add reader"
                             \/ crashed # "no"

(* What the repository says.                                               *)

(* "skip if this article is already in the suggestions list (with an other *)
(* title)" (reader.cpp:406).                                               *)
ArticleIsListedOnce ==
    byTitle =>
        \A i, j \in DOMAIN suggestions :
            i # j => suggestions[i].path # suggestions[j].path

(* "Set `size` to the number of bytes read (`len` if everything is ok, 0   *)
(* in case of error)" (JNIKiwixReader.java:73): a part that lies in the    *)
(* entry is read.                                                          *)
PartOfEntryIsRead ==
    part.url \in Url /\ FinalEntry(part.url) \in DOMAIN Size =>
        (part.offset + part.len <= Size[FinalEntry(part.url)] /\ part.len > 0
            => part.size = part.len)
=============================================================================
