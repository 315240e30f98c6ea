---------------------------- MODULE CatalogFeeds ----------------------------
(***************************************************************************)
(* What a library lists: a Filter put together by an application call by   *)
(* call and listBooksIds (src/src/library.cpp), and the feeds of the       *)
(* catalog that a server makes with them, page by page                     *)
(* (src/src/server/internalServer.cpp, internalServer_catalog_v2.cpp), for *)
(* a library that does not change meanwhile.                               *)
(*                                                                         *)
(* A text is the sequence of its words, normalized as the index does it.   *)
(* Xapian is external: a term finds the books whose text has that word.    *)
(***************************************************************************)
EXTENDS Integers, FiniteSets, SequencesExt, Sublists

CONSTANTS
    Libraries,      \* the libraries: sequences of books, in the order of m_books
    Completions,    \* Completions[w]: the words that start with w
    Text,           \* the texts that filters ask for
    Tags,           \* the sets of tags that they, and requests, ask for
    Bytes,          \* the sizes that they ask for
    MaxCalls,       \* bound on the calls that put a filter together
    Listed,         \* the arguments of listBooksIds, as calls of a filter
    Requested,      \* the arguments of requests for a feed
    Number,         \* the starts and counts that they have
    DefaultCount,   \* 10
    MaxSizeT,       \* the greatest size_t
    NotGiven

Word == DOMAIN Completions

TextField == {"name", "category", "lang", "publisher", "creator"}

Criterion == TextField \cup
    {"local", "remote", "valid", "query", "accept", "reject", "maxSize"}

Argument(c) ==
    CASE c \in {"local", "remote", "valid"} -> BOOLEAN
      [] c \in TextField \cup {"query"} -> Seq(Word)
      [] c \in {"accept", "reject"} -> Tags
      [] c = "maxSize" -> Bytes

(* What somebody asks for, and what he leaves open. *)
IsAsked(asked) ==
    /\ asked = [c \in Criterion |-> asked[c]]
    /\ \A c \in Criterion : asked[c] = NotGiven \/ asked[c] \in Argument(c)

IsLibrary(library) ==
    /\ library \in Seq(ToSet(library)) /\ Len(library) <= MaxSizeT
    /\ \A book \in ToSet(library) :
          /\ {book.local, book.remote, book.valid} \subseteq BOOLEAN
          /\ book.valid => book.local
          /\ \A field \in TextField \cup {"title", "description"} : book[field] \in Seq(Word)

ASSUME FeedsAssumption ==
    /\ MaxCalls \in Nat /\ MaxSizeT \in Nat
    /\ Number \cup {DefaultCount} \subseteq 0 .. MaxSizeT
    /\ Text \subseteq Seq(Word)
    /\ \A library \in Libraries : IsLibrary(library)
    /\ \A asked \in Listed \cup Requested : IsAsked(asked)
    /\ \A c \in Criterion : NotGiven \notin Argument(c)
    /\ NotGiven \notin Seq(Nat)

VARIABLES
    lib,        \* the books
    filter,     \* the Filter of the application, or the last of listBooksIds
    calls,      \* history: the last argument of each setter
    called,     \* the number of calls
    listing,    \* [order, ids]: what listBooksIds has returned
    feed,       \* [status, request, start, count, total, entries]
    turned      \* history: the entries of all pages from the first one on

feedVars == <<lib, filter, calls, called, listing, feed, turned>>

FeedIds == DOMAIN lib

-----------------------------------------------------------------------------
(* The Filter.                                                             *)

NewFilter ==
    [active |-> {}, text |-> [field \in TextField |-> <<>>], query |-> <<>>,
     acceptTags |-> {}, rejectTags |-> {}, maxSize |-> 0]

(* Mutant: the opposite flag stays. *)
SetFlagOnly(f, yes, no, accept) ==
    [f EXCEPT !.active = @ \cup {IF accept THEN yes ELSE no}]

SetFlag(f, yes, no, accept) ==
    [f EXCEPT !.active = IF accept THEN (@ \cup {yes}) \ {no} ELSE (@ \cup {no}) \ {yes}]

Local(f, accept) == SetFlag(f, "LOCAL", "NOLOCAL", accept)
Remote(f, accept) == SetFlag(f, "REMOTE", "NOREMOTE", accept)
Valid(f, accept) == SetFlag(f, "VALID", "NOVALID", accept)

(* category, lang, publisher, creator and name. *)
TextFilter(f, field, text) ==
    [f EXCEPT !.active = @ \cup {field}, !.text[field] = text]

QueryFilter(f, text) == [f EXCEPT !.active = @ \cup {"QUERY"}, !.query = text]
AcceptTags(f, tags) == [f EXCEPT !.active = @ \cup {"ACCEPTTAGS"}, !.acceptTags = tags]
RejectTags(f, tags) == [f EXCEPT !.active = @ \cup {"REJECTTAGS"}, !.rejectTags = tags]
MaxSize(f, size) == [f EXCEPT !.active = @ \cup {"MAXSIZE"}, !.maxSize = size]

-----------------------------------------------------------------------------
(* The query to the index.                                                 *)

(* The prefixed terms of a document, from updateBookDB. *)
Terms(id, field) == ToSet(lib[id][field])

(* nameQuery, categoryQuery, langQuery: the whole text is one term. *)
TermHits(field, text) ==
    {id \in FeedIds : Len(text) = 1 /\ text[1] \in Terms(id, field)}

(* publisherQuery, creatorQuery: a phrase, which matches nothing if empty. *)
PhraseHits(field, text) ==
    {id \in FeedIds : text # <<>> /\ text \in SubSeqs(lib[id][field])}

(* tagsQuery starts from the query that matches all. *)
TagHits(accept, reject) ==
    {id \in FeedIds : accept \subseteq lib[id].tags} \
        {id \in FeedIds : reject \cap lib[id].tags # {}}

(* The words of a free query, in title or description; the last one may be *)
(* the start of a word.                                                    *)
WordHits(words) ==
    {id \in FeedIds :
        \A n \in DOMAIN words :
            \E w \in IF n = Len(words) THEN Completions[words[n]]
                     ELSE {words[n]} :
                w \in Terms(id, "title") \cup Terms(id, "description")}

FieldHits(f, field) ==
    IF field \notin f.active THEN FeedIds
    ELSE IF field \in {"publisher", "creator"} THEN PhraseHits(field, f.text[field])
    ELSE TermHits(field, f.text[field])

(* buildXapianQuery; an empty query matches all. *)
XapianHits(f) ==
    {id \in WordHits(f.query) \cap TagHits(f.acceptTags, f.rejectTags) :
        \A field \in TextField : id \in FieldHits(f, field)}

WillSelectEverything(f) ==
    f.query = <<>> /\ f.active \cap TextField = {} /\ f.acceptTags \cup f.rejectTags = {}

(* The order of hits: by relevance, that is in an order the query settles; *)
(* here the reverse of the order of m_books.                               *)
ListViaBookDB(f) ==
    LET all == [n \in FeedIds |-> n]
    IN IF WillSelectEverything(f) THEN all
       ELSE OnlyIn(Reverse(all), XapianHits(f))

(* Filter::accept. *)
AcceptedBy(f, book) ==
    /\ "LOCAL" \in f.active => book.local
    /\ "NOLOCAL" \in f.active => ~book.local
    /\ "VALID" \in f.active => book.valid
    /\ "NOVALID" \in f.active => ~book.valid
    /\ "REMOTE" \in f.active => book.remote
    /\ "NOREMOTE" \in f.active => ~book.remote
    /\ "MAXSIZE" \in f.active => book.size <= f.maxSize

FilterBooks(f) ==
    OnlyIn(ListViaBookDB(f), {id \in FeedIds : AcceptedBy(f, lib[id])})

-----------------------------------------------------------------------------
(* Lists for an application.                                               *)

NoCalls == [c \in Criterion |-> NotGiven]

Call(f, c, argument) ==
    CASE c = "local" -> Local(f, argument)
      [] c = "remote" -> Remote(f, argument)
      [] c = "valid" -> Valid(f, argument)
      [] c = "query" -> QueryFilter(f, argument)
      [] c = "accept" -> AcceptTags(f, argument)
      [] c = "reject" -> RejectTags(f, argument)
      [] c = "maxSize" -> MaxSize(f, argument)
      [] OTHER -> TextFilter(f, c, argument)

SetFilter(c, argument) ==
    /\ called < MaxCalls /\ called' = called + 1
    /\ filter' = Call(filter, c, argument)
    /\ calls' = [calls EXCEPT ![c] = argument]
    /\ UNCHANGED <<lib, listing, feed, turned>>

Setters ==
    <<"local", "valid", "remote", "query", "maxSize", "name", "category",
      "lang", "publisher", "creator", "accept", "reject">>

(* listBooksIds and get_search_filter call the setters for what is given.  *)
FilterOf(given) ==
    FoldLeft(LAMBDA f, c : IF given[c] = NotGiven THEN f ELSE Call(f, c, given[c]),
             NewFilter, Setters)

SortKey(order, id) == IF order = "SIZE" THEN lib[id].size ELSE lib[id].date

(* std::sort puts books with equal keys in any order. *)
Sorted(ids, order, ascending) ==
    IF order = "UNSORTED" THEN {ids}
    ELSE {s \in SetToSeqs(ToSet(ids)) :
             \A m, n \in DOMAIN s : m < n =>
                 IF ascending THEN SortKey(order, s[m]) <= SortKey(order, s[n])
                 ELSE SortKey(order, s[n]) <= SortKey(order, s[m])}

(* It has a filter of its own: no calls come before.                       *)
ListBooksIds(given, order) ==
    /\ called = 0 /\ called' = MaxCalls
    /\ filter' = FilterOf(given) /\ calls' = given
    /\ \E ids \in Sorted(FilterBooks(filter'), order, TRUE) :
          listing' = [order |-> order, ids |-> ids]
    /\ UNCHANGED <<lib, feed, turned>>

(* getBooksLanguages, getBooksCreators, getBooksPublishers: a value of a   *)
(* book with an origId is not listed, unless another book has it.          *)
ValuesOf(field) ==
    FoldLeft(LAMBDA values, book :
                 IF Contains(values, book[field]) \/ book.hasOrigId THEN values
                 ELSE Append(values, book[field]),
             <<>>, lib)

GetBooksCategories == {lib[id].category : id \in FeedIds} \ {<<>>}

-----------------------------------------------------------------------------
(* Feeds for readers.                                                      *)

(* get_search_filter. *)
GetSearchFilter(request) == FilterOf([request EXCEPT !.local = TRUE, !.valid = TRUE])

(* Mutant: the count is taken for the end. *)
SubrangeToCount(v, s, n) ==
    LET first == IF s < Len(v) THEN s ELSE Len(v)
        last == IF n < Len(v) THEN n ELSE Len(v)
    IN IF last < first THEN NotGiven ELSE SubSeq(v, first + 1, last)

(* The sum is a size_t; a vector made of a range with its end before its   *)
(* start throws.                                                           *)
Subrange(v, s, n) ==
    LET end == (s + n) % (MaxSizeT + 1)
        first == IF s < Len(v) THEN s ELSE Len(v)
        last == IF end < Len(v) THEN end ELSE Len(v)
    IN IF last < first THEN NotGiven ELSE SubSeq(v, first + 1, last)

(* search_catalog: the first page for s = 0. *)
SearchCatalog(request, s, n) ==
    LET found == FilterBooks(GetSearchFilter(request))
        page == Subrange(found, s, n)
    IN [status |-> IF page = NotGiven THEN 500 ELSE 200,
        request |-> request, start |-> s, count |-> n, total |-> Len(found),
        entries |-> IF page = NotGiven THEN <<>> ELSE page]

(* /catalog/search and /catalog/v2/entries.  An argument that is empty has *)
(* any value, for it is not read.                                          *)
OpenFeed(request, start, count) ==
    /\ feed' = SearchCatalog(request,
                             IF start = NotGiven THEN 0 ELSE start,
                             IF count = NotGiven THEN DefaultCount ELSE count)
    /\ turned' = IF feed'.start = 0 THEN feed'.entries ELSE NotGiven
    /\ UNCHANGED <<lib, filter, calls, called, listing>>

(* /catalog/root.xml: all books that are local, valid and remote. *)
OpenRoot ==
    /\ LET request == [NoCalls EXCEPT !.remote = TRUE]
           found == FilterBooks(GetSearchFilter(request))
       IN feed' = [status |-> 200, request |-> request, start |-> 0,
                   count |-> Len(found), total |-> Len(found), entries |-> found]
    /\ turned' = feed'.entries
    /\ UNCHANGED <<lib, filter, calls, called, listing>>

(* A link of /catalog/v2/categories. *)
FollowCategory(category) ==
    OpenFeed([NoCalls EXCEPT !.category = category], NotGiven, NotGiven)

(* Where the next page starts, from the numbers in the feed. *)
NextStart == feed.start + Len(feed.entries)

HasNext ==
    feed # NotGiven /\ feed.status = 200 /\ feed.entries # <<>> /\ NextStart < feed.total

TurnPage ==
    /\ HasNext
    /\ feed' = SearchCatalog(feed.request, NextStart, feed.count)
    /\ turned' = IF turned = NotGiven THEN NotGiven ELSE turned \o feed'.entries
    /\ UNCHANGED <<lib, filter, calls, called, listing>>

-----------------------------------------------------------------------------
FeedsInit ==
    /\ lib \in Libraries
    /\ filter = NewFilter /\ calls = NoCalls /\ called = 0
    /\ listing = NotGiven /\ feed = NotGiven /\ turned = NotGiven

ApplicationLists ==
    \/ \E c \in {"local", "remote", "valid"}, accept \in BOOLEAN : SetFilter(c, accept)
    \/ \E c \in TextField \cup {"query"}, text \in Text : SetFilter(c, text)
    \/ \E c \in {"accept", "reject"}, tags \in Tags : SetFilter(c, tags)
    \/ \E size \in Bytes : SetFilter("maxSize", size)
    \/ \E given \in Listed, order \in {"UNSORTED", "SIZE", "DATE"} : ListBooksIds(given, order)

ReaderBrowses ==
    \/ \E request \in Requested, start, count \in Number \cup {NotGiven} :
          OpenFeed(request, start, count)
    \/ OpenRoot
    \/ \E category \in GetBooksCategories : FollowCategory(category)
    \/ TurnPage

FeedsNext == ApplicationLists \/ ReaderBrowses

FeedsSpec == FeedsInit /\ [][FeedsNext]_feedVars

-----------------------------------------------------------------------------
(* Properties.                                                             *)

Occurs(text, in) == text # <<>> /\ text \in SubSeqs(in)

(* What the setters of a filter ask for.  "A local book is a book with a   *)
(* path", "a remote book is a book with a url", "a valid book is a book    *)
(* with a path pointing to a existing zim file" (library.h:76, 85, 94).    *)
Meant(asked) ==
    {id \in FeedIds :
        LET book == lib[id] IN
        /\ asked.local # NotGiven => book.local = asked.local
        /\ asked.remote # NotGiven => book.remote = asked.remote
        /\ asked.valid # NotGiven => (book.local /\ book.valid) = asked.valid
        /\ \A c \in TextField : asked[c] # NotGiven => Occurs(asked[c], book[c])
        /\ asked.accept # NotGiven => asked.accept \subseteq book.tags
        /\ asked.reject # NotGiven => asked.reject \cap book.tags = {}
        /\ asked.maxSize # NotGiven => book.size <= asked.maxSize
        /\ asked.query \notin {NotGiven, <<>>} =>
              LET words == ToSet(book.title) \cup ToSet(book.description) IN
              /\ ToSet(Front(asked.query)) \subseteq words
              /\ Completions[Last(asked.query)] \cap words # {}}

(* Names, categories and languages are found by one term, which is a whole *)
(* text only if that has one word.                                         *)
OneTerm(asked) ==
    \A c \in {"name", "category", "lang"} : asked[c] # NotGiven => Len(asked[c]) <= 1

(* A filter lists exactly the books that satisfy the last call of each of  *)
(* its setters, each once, whichever of them go to the index and which to  *)
(* the records, with setters called again and taken back in any order; and *)
(* listBooksIds lists what the setters that it calls ask for, in the order *)
(* that was asked for.  (Its own comment means something else by VALID,    *)
(* NOVALID and NOLOCAL: see ValidBooksAreListed.)                          *)
FilterMeansItsCalls ==
    LET found == FilterBooks(filter) IN
    /\ OneTerm(calls) => ToSet(found) = Meant(calls) /\ Len(found) = Cardinality(ToSet(found))
    /\ listing # NotGiven =>
          /\ ToSet(listing.ids) = ToSet(found) /\ Len(listing.ids) = Len(found)
          /\ listing.order # "UNSORTED" =>
                \A n \in 2 .. Len(listing.ids) :
                    SortKey(listing.order, listing.ids[n - 1])
                        <= SortKey(listing.order, listing.ids[n])

(* The language, creator and publisher of every book that is no variant of *)
(* another are listed, each once, and every listed value that has words    *)
(* leads to all the books that have it, by a filter.                       *)
ListedValuesFindBooks ==
    \A field \in {"lang", "creator", "publisher"} :
        LET values == ValuesOf(field) IN
        /\ Cardinality(ToSet(values)) = Len(values)
        /\ \A id \in FeedIds : ~lib[id].hasOrigId => Contains(values, lib[id][field])
        /\ \A value \in ToSet(values) \ {<<>>} :
              (field = "lang" => Len(value) = 1)
              => {id \in FeedIds : lib[id][field] = value}
                    \subseteq ToSet(FilterBooks(TextFilter(NewFilter, field, value)))

(* Filters list what they are asked for, and the lists of values that the  *)
(* server offers lead to such filters.                                     *)
FiltersListTheRightBooks == FilterMeansItsCalls /\ ListedValuesFindBooks

(* Who turns the pages of a feed from the first one on, by the numbers in  *)
(* it, gets every local and valid book that the request asks for, once,    *)
(* whatever the length of the pages, and total says how many; only a page  *)
(* of no entries leads nowhere.  A feed fails only if start and count are  *)
(* together more than a size_t holds.                                      *)
FeedPagesFitTogether ==
    feed # NotGiven =>
        LET all == Meant([feed.request EXCEPT !.local = TRUE, !.valid = TRUE]) IN
        /\ feed.status = 500 => feed.start + feed.count > MaxSizeT
        /\ OneTerm(feed.request) => feed.total = Cardinality(all)
        /\ OneTerm(feed.request) /\ turned # NotGiven /\ feed.status = 200 =>
              /\ ToSet(turned) \subseteq all /\ Len(turned) = Cardinality(ToSet(turned))
              /\ HasNext \/ feed.count = 0 \/ ToSet(turned) = all

(* What the repository says.                                               *)

(* "VALID : list only valid books (without a path or with a path pointing  *)
(* to a valid zim file)" (library.h:315): a list of the valid books, and   *)
(* nothing else asked for, has those without a path.                       *)
ValidBooksAreListed ==
    listing # NotGiven /\ calls = [NoCalls EXCEPT !.valid = TRUE] =>
        ToSet(listing.ids) = {id \in FeedIds : ~lib[id].local \/ lib[id].valid}
=============================================================================
