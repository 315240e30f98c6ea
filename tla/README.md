# A TLA+ model of kiwix-lib

kiwix-lib is the C++ library under the Kiwix readers: it keeps a library of
ZIM files (offline copies of web sites), reads and writes the XML files that
list them, searches them, downloads them, and serves them over HTTP with a few
JavaScript pages, on which it puts widgets of jQuery UI. This directory models
the parts of it that keep state, checks them with TLC on small instances and
proves some of the results for all sizes with TLAPS.

    tlc -workers 2 -config Library.cfg MCLibraryFeeds.tla     # a run
    tlapm LibraryProofs.tla                                   # the proofs

Source paths below are relative to the repository (`src/library.cpp` is the
library's `src` directory).

## 1. Inventory

### Components, their state and their operations

| component | state | operations | where |
|---|---|---|---|
| Library | `m_books` (id -> Book), `m_bookDB` (Xapian in-memory index, one document per id), `m_readers`, `m_archives` (opened ZIM files), `m_bookmarks` | addBook, removeBookById, getBookById().setPath, getReaderById, getArchiveById, addBookmark, removeBookmark, filter | `src/library.cpp`, `src/book.cpp`, `src/bookmark.cpp` |
| HTTP server | the daemon of libmicrohttpd with a pool of threads, `m_server_id`, `m_library_id` | start, stop, one handler per kind of URL (skin, catalog, meta, search, suggest, random, external, content) | `src/server.cpp`, `src/server/internalServer*.cpp` |
| ETag | none: id of the server and options `c`, `z` | parse, match, get_etag | `src/server/etag.cpp` |
| ByteRange, ItemResponse | range (kind, first, last); position in the item | parse, resolve, build, callback_reader_from_item | `src/server/byte_range.cpp`, `response.cpp` |
| Manager, LibXMLDumper | `writableLibraryPath`; the library file; the bookmark file | readFile, readXml, readOpds, addBookFromPath, readBookmarkFile, Library::writeToFile, writeBookmarksToFile | `src/manager.cpp`, `src/libxml_dumper.cpp` |
| paths | none | normalizeParts, computeRelativePath, computeAbsolutePath, removeLastPathElement | `src/tools/pathTools.cpp` |
| front page | `params`, `incrementalLoadingParams`, `bookOrderMap`, `isFetching`, `noResultInjected`, `timer`, the items of Isotope | onload, scroll, resize, change of a filter, popstate | `static/skin/index.js` |
| Downloader, Aria2 | `m_knownDownloads`, the status of each; the session of aria2c | startDownload, getDownload, updateStatus, pause, resume, cancel, close | `src/downloader.cpp`, `src/aria2.cpp` |
| Subprocess | pid, `m_running`, `m_shouldQuit`, a waiting thread | run, kill, isRunning, destructor | `src/subprocess_unix.cpp`, `src/kiwixserve.cpp` |
| HumanReadableNameMapper | `m_idToName`, `m_nameToId` | constructor, two look-ups | `src/name_mapper.cpp` |
| Searcher, SearchRenderer | pattern, bounds, estimate, the current results | search, geo_search, suggestions, getNextResult, restart_search, reset; getHtml | `src/searcher.cpp`, `src/search_renderer.cpp` |
| Reader, Entry | an archive, the last suggestions | getters | `src/reader.cpp`, `src/entry.cpp` |
| OPDS catalog, dumper | none | URLs and feeds | `src/opds_catalog.cpp`, `src/opds_dumper.cpp` |
| Java bindings | one global lock, a native handle per object | one function per method, dispose | `src/wrapper/java` |
| tools | none | strings, regular expressions, base64, network, archives | `src/tools` |
| links and routes | none: `RequestContext` per request | handle_request, handle_content, handle_random, handle_captured_external, build_redirect, urlEncode; the scripts of the task bar | `src/server/request_context.cpp`, `internalServer.cpp`, `static/skin/taskbar.js`, `block_external.js` |
| filters of the front page | the address and the history of the browser, a cookie, `params`, three controls filled from `langList`, `categoryList` and `iso6391To3` | choose, back and forward, reload, another tab, the link that resets | `static/skin/index.js`, `langList.js`, `categoryList.js`, `iso6391To3.js` |
| search box | the text and the one last searched for, a timer, a request, a menu with an item in use | keys, mouse, focus, timers, answers | `static/skin/taskbar.js`, autocomplete and menu of `static/skin/jquery-ui/jquery-ui.js` |
| toolbar | `didScroll`, `lastScrollTop`, where the bar is | scroll, an interval | `static/skin/taskbar.js` |
| jQuery UI | per widget: options, classes on the elements, timers and animations under way | events, calls by the page, refresh | `static/skin/jquery-ui/jquery-ui.js` |
| templates, other vendored scripts, build | none | | `static`, `meson.build`, `debian`, `scripts` |

### How they interact

* An application creates a `Library`, fills it through a `Manager` (from
  library files, OPDS feeds and ZIM files) and saves it with
  `Library::writeToFile`, which uses the path functions to make the paths of
  the books relative to the file.
* It may serve the library: `Server` starts a daemon whose threads call the
  handlers. They share the one `Library` with each other and with the
  application, and there is no lock in it. Handlers of one book get its
  archive from `getArchiveById`, which opens a file and inserts into a cache;
  a search over the library opens every local valid book one after the other.
* Each answer gets an ETag made of the id of the server, and `handle_request`
  answers a matching one with 304 before it looks at anything else.
* The entry of a ZIM file is sent by a callback that libmicrohttpd calls for
  one block after the other, after the handler has returned.
* The front page asks the server for pieces of the catalog feed, and its
  callbacks share one set of variables.
* The filters of the front page are in four places (controls, address, cookie,
  `params`), and tabs of one browser share the cookie.
* The task bar that the server puts over a book hides and shows itself by
  scrolling, and its search box asks `/suggest` through jQuery UI's autocomplete,
  which owns a menu of its own. jQuery UI is a whole library in the repository,
  handed out by the server; the pages use autocomplete and its menu.
* The downloader asks aria2c, another process, over XML-RPC.

### What is hard here

* **Containers kept in step by hand**: the map, the index, two caches and the
  bookmarks, one statement after the other, each of which may refuse or throw.
* **Concurrency without locks**: handlers on one library; the application
  beside them; a server that answers before `start()` has finished.
* **What was true when it was checked**: `m_pathValid`, the list of ids of a
  search, an archive opened from a path that the book no longer has.
* **Restarts and crashes**: ETags from an earlier start; a library file that is
  truncated before it is written.
* **Order**: books from several files and feeds, read-only and not; answers to
  a filter that the user has left; blocks of a body.
* **One thread, but many handlers**: in a browser timers go off, animations end
  and answers come between any two handlers, each with a closure over what was
  true when it was started; blur, focus and mouse events come in the order of the
  browser and cancel each other by flags.
* **Numbers**: byte ranges with three widths of integers; paths with more `..`
  than names.

`PROJECT.json` lists each of these at its line, with the properties that watch
it, or with the reason why none does yet.

### What makes each component correct

* *Library*: the index and the map hold the same ids, so that `filter` neither
  throws nor misses a book; a handle exists only for a book of the library, is
  opened once and kept; reader and archive share it.
* *Server*: an answer about a book is about that book; 404 only for a book that
  is not served; a search and a feed cover the books that were there all the
  time; every request ends.
* *ETag*: 304 only for what the client has, with the headers it had; equal tags
  mean equal bodies.
* *Ranges*: the announced range is the one that was asked for, and the body is
  the announced range.
* *Library files*: what is read back is what was saved, or nothing; read-only
  books neither change nor get saved; a book is found where it is.
* *Front page*: the books of the filter in the order of the server, each once,
  and all of them in the end.
* *Filters*: the controls, the address and the requests mean the same filters.
* *Search box*: the menu is the answer to what was asked last, and what was typed
  last gets asked. *Toolbar*: it can always be brought back.
* *jQuery UI*: exactly one panel is open; drags, tooltips, timers and overlays end
  with what they belong to; what the page is told is what is there.
* *Links*: a link to an entry leads to it, with one redirection at most.
* *Downloader*: a download that is known is the one that aria2 has, and over only
  when that one is; *Subprocess*: `isRunning` tells the truth and the destructor ends;
  *Java*: no call waits for itself.

## 2. Plan

| step | modules | state |
|---|---|---|
| 1 | `BookCatalog` (abstract), `Library`, `LibraryProofs` | done |
| 2 | `LibraryServer` (extends `Library`: threads, application, files), proved in `LibraryProofs` | done |
| 3 | `ConditionalRequests`, proved in `HttpProofs` | done |
| 4 | `ItemStream`, proved in `HttpProofs` | done |
| 5 | `Paths`, proved in `HttpProofs` | done |
| 6 | `LibraryFiles` (Manager, LibXMLDumper, writeTextFile), `LibraryFilesProofs` | done |
| 7 | `CatalogPage`, proved in `PagesProofs` | done |
| 8 | `Subprocess`, `Downloads` (extends it: the known downloads and aria2c), `DownloadsProofs` | done |
| 9 | `JavaBindings` (the suggestions of a Reader; lock, handles, collector), `JavaBindingsProofs` | done |
| 10 | `SearchPages`: the pages of a search, the state of a `Searcher`, proved in `PagesProofs` | done |
| 11 | the name mapper, in `LibraryServer` | done |
| 12 | `CatalogFeeds`: filters by field, sorting, the pages of the feeds, proved in `LibraryProofs` | done |
| 13 | `EntryLinks`: the routes, `RequestContext`, links and redirections, proved in `HttpProofs` | done |
| 14 | `SearchBox` (with the toolbar), `PageFilters`: what a user of the pages handles, proved in `ControlsProofs` | done |
| 15 | `Accordion`, `Tabs`, `DragDrop`, `Slider`, `Spinner`, `Dialogs`, `Tooltips`, `Sortable`; `Widgets` puts them on one page; proved in `ControlsProofs` | done |
| 16 | the other handlers of one archive (meta, suggest) | next |
| 17 | the bookmark file in `LibraryFiles` | next |
| 18 | `KiwixServe` over `Subprocess` | next |

Two modules hold what several proofs need: `Sublists` (what `OnlyIn` leaves of a
list) and `FoldTheorems`. Every safety property that a passing run checks is also proved; what
the plan has left are components.
The abstract specifications: `BookCatalog` for the
library (done), a catalog of saved libraries for `LibraryFiles`, a set of
running downloads for the downloader.

## 3. The modules

### BookCatalog and Library

`Library` is the class called by one thread. Variables have the names of its
members; a ZIM handle is the path it was opened from. Each public call that
changes state is one action: `AddBook` writes the index before it looks for the
old record, as `addBook` does, and `Update` is the refusal of `Book::update`;
`RemoveBookById` is its four statements; `GetReaderById` and `GetArchiveById`
fill the caches, or do nothing where the code returns null or throws;
`SetPath` is what callers do through the reference that `getBookById` gives
(readers of the metadata do the same). `disk` is the file system, which changes
by itself. Metadata is a model value: `Matches[q]` is what a query finds, so
that every index query (title, language, name, category, tags) has the same
form, and a query that selects everything takes the other way through
`filterViaBookDB`. The limit on the number of documents (`m_books.size()`) is
kept, as a choice of which documents are returned.

`BookCatalog` is what callers rely on: a book is there or not, is found by its
metadata and has at most one handle from the first opening to its removal.
`Library` implements it with `found <- bookDB`, `handle <- archives`; readers,
bookmarks and read-only records are invisible.

Not in the model: the text of a query (its parsing, stemming, wildcards), and
the getters; what the filters ask for by field is `CatalogFeeds`.

### CatalogFeeds

What a library that does not change lists. A text is the sequence of its words,
and the index is external: a term finds the books whose text has that word.
`Filter` is the class, flags included, and each of its setters is a `SetFilter`;
`XapianHits` is `buildXapianQuery` and `AcceptedBy` is `Filter::accept`: some
criteria go to the index, others to the record. Names, categories and languages
are asked for as one term, publishers and creators as a phrase, and an empty
query matches all. `ListBooksIds` is the older call with its arguments and its
sort: it and the server call `Setters` for what is given, in an order that makes no
difference (`FilterOfSays`). What the setters mean (`Meant`) is what their comments in
`include/library.h` say, not what `accept` does; `ValuesOf` are the lists of languages, creators and publishers.

`OpenFeed` is a request for `/catalog/search` or `/catalog/v2/entries`: the filter
of its arguments, `Subrange` (whose sum is a `size_t`: a vector from a range with
its end before its start throws, and the answer is 500), and the numbers in the
feed. `TurnPage` is a reader who goes on from these numbers. An empty `start` or
`count` is not read and the variable has any value, which is one of `Number`.
The hits of a query come in an order that the query settles: the reverse of
`m_books`. Not in the model: that the start in a feed is an `int`, and the numbers
in `root.xml`, which nobody sets.

### LibraryServer

Extends `Library` with the threads of the pool and the application. A handler
is cut at every use of a container: `Lookup`, `CopyBook`, `OpenFile`, `Store`
are `getArchiveById`; `ListIds`, `AcceptBook` are `filter`; `NextBook`,
`RunSearch` the rest of `handle_search`; `DumpBook` the feed. Where an exception
ends the handler, the status is the one its `catch` gives: 404 where
`out_of_range` is caught, 500 from `handle_request` otherwise. The application's
`addBook` and `removeBookById` are cut in the same way. `addBook` puts the
document in the index before the record in the map, and `filterViaBookDB` takes
the size of the map as the limit on its answers: a feed made in between can
lose one book, and the history field `cut` of a request remembers that this
happened. Two steps that use one
container unordered, one of them changing it, are a data race, whose outcome
is a crash or the two steps in some order; the null searcher of an empty
search is a crash too.

Requests of one book are by name, which `HumanReadableNameMapper` translates: two
maps made when the server starts, from the local and valid books in the order of
their ids (`IdOrder`), with an alias for a name that ends in a date; a name
replaces what the map has, an alias does not. `HumanReadable` and `Alias` are
constants: what a file name becomes is text. The mapper is not changed after
that, and a library-wide search that finds something in a book it does not know
is answered with 500. Books are recorded as `Served` allows, with the index in step, which is
what `LibraryProofs` proves of writable books.

### SearchPages

`Searcher` is one object in the hands of a program: `AddReader`, `Search` (also
`geo_search`, which differs in the query only), `Suggestions`, `GetNextResult`,
`RestartSearch`. A search for an empty range changes the bounds and the pattern and
leaves the results of the search before, with their cursor. The pages are those
that `handle_search` makes with a `SearchRenderer`: `PageStart`, `PageEnd` and
`LastPageStart` are the arithmetic of `getHtml`, `Numbered` and `Arrows` the links
that the template makes of them, and `Follow` is a reader who uses one. What libzim
finds (`Ranked`, a list of `Result`s) and announces (`Estimate`, which may be
wrong) are constants, and `Found` is what of it lies in the archives searched; the
second number it is given is the end of the range, as `include/searcher.h` says.
Numbers over `INT_MAX` are left out, and so is a `SearchRenderer` that is made from
a `Searcher`: its page length has no initial value, and it follows a null pointer
when nothing was searched. The pages are of searches for a text: the links of
`static/templates/search_result.html` do not carry the place of a geo-search.

### ConditionalRequests

One resource and one client. `StartDaemon` and `AssignServerId` are the two
moments of `InternalServer::start`: a request in between sees no id, or half of
it (a negative number). A request is `Ask`, `MatchETag` (with the parser's
quirks: weak tags and tags separated by a comma alone are refused, a word of one
letter throws), `LookupContent`, `Identify` and `Send`. The client keeps answers
that have an ETag and sends any list of words, its own tags among them.
`LiveChanges` says whether the content may change while the server runs; ETags
promise nothing then, so that it is FALSE in the run.

### ItemStream

`Parse` and `Resolve` are the two functions of `ByteRange`; `BuildResponse` is
`ItemResponse::build`; `ReadBlock` is the callback, with `range_start` cut to an
`int` and the sum taken in `uint64_t`. The widths are constants, so that an
instance with an `INT_MAX` of 3 has the boundaries of the real one.

### Paths

Paths are sequences of parts, what `split` makes of them. The four functions are
translated statement by statement: `Put` is a turn of the loop of `normalizeParts`,
`Up` what it does to `..`, and the loop a function of the number of turns. The actions are the way of a book
through a library file: `WritePaths`, `MoveTree`, `ReadPaths`. `Names` and
`Opened` are the reference: what a path means to `open()`. POSIX only. The library
file is `WellPlaced`: it has a bare name, or an absolute path that never goes up
from the root; what happens to others is said below.

### EntryLinks

The links that the templates, the scripts and `build_redirect` make to the
entries of one book, what a browser and libmicrohttpd make of them, and the
handler that `handle_request` chooses. A text is a sequence of characters, a link
one whose characters may be escaped, so that "encoded twice" and "not encoded"
are different things. `ResultLink`, `SuggestionLink`, `HomeLink`, `RandomLink`
and `CaptureLink` are the makers; `Answers` is the server, from
`fullURL2LocalURL` (`LocalUrl`) over the route to `HandleContent`, `HandleRandom`
and `HandleCapturedExternal`; `FollowRedirect` is the browser again. The pages of
the other handlers are one answer. A link promises the item of its entry
(`Targets`), and the property says for which names and links (`PlainName`,
`Trusted`) the server keeps that promise.

### LibraryFiles

One process with its `Manager` and `Library`; files and ZIM files outlive it.
Reading is `ReadFile` or `ReadOpds`, one `LoadEntry` per book, `FinishLoading`;
saving is `WriteToFile` (the text is made, the file truncated), then
`FinishWriting` or `WriteFails`. `Restart` may come between any two of them.
`Update`, `FromEntry`, `UpdateFromZim` and `ToEntry` say which fields survive:
`readOnly` and the URL are not taken from a ZIM file, an entry of a variant
(with an `origId`) loses its metadata, a category that is not in the tags is not
saved. `stored` and `only` are history variables: the library that was saved in
a file, and the one file that all of the present library is from.
`readXml` is `ReadFile` without the last step. Not in the model: the file of
bookmarks, the rounding of sizes to kilobytes.

### CatalogPage

The variables of `index.js` and what Isotope shows. `LoadAndDisplayBooks` is the guarded
part up to the request; `LoadBooks` is everything from the answer
to the next `await`, with the map as it is by then; `FetchFails` is a lost
answer, which leaves `isFetching` set, as the code has no `catch`. The message of
an empty answer is put on the page by a timer: books that arrive before it make
`getElementsByClassName(...)[0]` undefined, and the exception is `ShowFails`.
`Display` gives Isotope the books it does not have and has it sort: `Arranged`
says that items, sorted by weight, are given books in their order, and `OnScreen` that
those shown are.
`undisturbed` remembers that the present filter was chosen with nothing under way and
that nothing unexpected has happened since. Not in the model: how many messages
pile up, styles, the download dialog; the filters in the controls, the address
and the cookie are `PageFilters`.

### PageFilters

The filters of the front page where they are kept: `controls`, `entries` and `at`
(the history of the browser with its addresses), `cookie`, `params`. `Choose` is
`resetAndFilter` up to the request; `Popstate` sets `params` at once and
`PopstateAnswered` the controls when the answer is there, or `PopstateFails` does
not; `Onload` prefers the address over the cookie and the cookie over the language
of the browser, and puts what it took into the history. `Elsewhere` is another tab.
`sound` remembers that no answer has been lost since the controls were set. Met on
the way and left out: styles of the controls that are not put back by Back; a text
with `&` or `%`, which the cookie and the request do not escape; an address with a
key that has no control, with which `onload` ends in a TypeError; a `lang` that
`langList` does not offer, which shows an empty control but filters.

### SearchBox

`SearchBox` is what `taskbar.js` makes of the autocomplete widget: `value` and
`term`, the timer (`searching`), the request (a new one makes an answer to the old
one count for nothing), `cancelSearch`, and the menu with `active`, `isNewMenu` and
its own timer `leaving`. Handlers that `document.one` leaves behind are `armed`, in
their order, and may fire when the menu has been filled again; an item of the old
menu is `Gone`. A key is its `keydown` with the default that follows; a focus that
goes in the middle of a click is a `Blur` of its own. The texts, what the server
suggests for each, and the places items lead to are constants. Not in the model: the
live region, submenus, a menu high enough to scroll (none is), options. An item may
be in use while the menu is closed, which the comment at `jquery-ui.js:6788` does
not expect ("when menu is open and has focus"): ENTER then selects it.

The toolbar of the page, in the same module, is `didScroll`, the interval of 250 ms and `hasScrolled`. The page stands
between 0 and `MaxScroll`: the elastic scrolling of some browsers, which goes below
0, can hide the bar at the top. That the screen is narrow is tested once, when the
page is loaded.

### The widgets of jQuery UI

One module per widget, each a state machine of the handlers in its `_on`, the
methods that a page may call, and the ends of timers and animations. What a widget
does not do by itself (positions, looks, the elements that jQuery finds) is a choice.
`Widgets` has all of them on one page, each as an INSTANCE with variables of its own,
the assumptions on their constants and the properties; `MCWidgets` gives the values.
The pages of the server use autocomplete and its menu; the other widgets come with the
same file (the server hands out the minified form of it, the readable one is modelled).

* `Accordion`: `_toggle` with `prevShow` and `prevHide`, panels of which several
  may be moving; `AfterStop` is what `.stop(true, true)` makes of the animation under
  way. A panel that opens from the collapsed state leaves the other tab stops as they
  are: the filter for them (`jquery-ui.js:5975`) compares the text "0" with a number. Left
  out: several panels taken away between two calls of `refresh`, after which the index
  points at nothing.
* `Tabs`: `Still`, hiding, showing; `Load` with its request, the timer of 1 ms after
  it and `aria-busy`; the arrow keys with `activating`. A `refresh` while an animation
  runs or a panel loads, after the active tab was taken away, leaves no panel open,
  which the property excepts; `aria-selected` is changed before an activation that
  is then refused.
* `DragDrop`: the mouse widget (`_mouseDown`, `_mouseMove`, `_mouseUp`, the delay
  timer), a draggable on it, and the manager of droppables with `isover`, `isout` and
  `greedyChild`. Calling a drag off in its "drag" event leaves a droppable lit (left
  out); `greedyChild` and `isover` stay set after a drop; a jump out of a greedy child
  may leave its parent lit until the next move, and so may one of two greedy children
  of one parent (ruled out by `DragDropAssumption`); the branch for a missed mouseup in
  `_mouseDown` is never reached.
* `Slider`: two handles with `_trimAlignValue` and the range between them. `Step`
  divides the bounds: where it does not, a value is rounded past `max`, although
  `jquery-ui.js:11784` says "between (inclusive) min and max".
* `Spinner`: `_start`, `_repeat`, `_stop`, the focus that a press on a button must
  not take for lost (`cancelBlur` and its timer), and the text. `told` is the value
  that the page knows. Not promised, as the code does not do it: a value that the page
  sets itself in a focused field, the wheel over a field without focus.
* `Dialogs`: the list `instances`, the counter `overlays`, one handler for all modal
  dialogs. Where the focus goes is `FocusGoes`: `focusin` at a place, the handler of the
  document that sends it to the head of the list, and `_trackFocus`. A dialog with an effect (`Animated`)
  is seen but not open after it was closed, and may be opened again: `showing` counts
  what is in its queue, which shows and hides it in turn, and a dialog may be closed,
  opened, clicked and left at any of these moments. While a dialog is being
  opened (`isOpening`) the handler lets the focus go anywhere. Left out: effects that
  hide a dialog, and `destroy`, which forgets to take the dialog from the list and
  may take the handler with it. A modal dialog that is the first and is shown by an
  effect makes the handler call a method of nothing; it is an exception that changes
  nothing. The comment at `jquery-ui.js:10546` says that dialogs "must be closed in reverse
  order", and nothing in the code makes anybody do so; that the focus is in the dialog
  *on top* is said nowhere and is not so.
* `Tooltips`: titles taken off an element and its parents and put back, tooltips by
  mouse and by focus. `_enable` restores none of the titles that `_disable` took, and an
  ESCAPE or an empty title leaves those of the parents away; contents that come later
  may open a tooltip after the mouse has left (left out).
* `Sortable`: lists connected with each other, `nodes` with the placeholder of each
  drag; a list may drag while the item of another is on its way. `crossed` remembers
  that this has happened, for the test of whether to tell "update" misses an item that
  is put between another and the place where that will come. Left out: `cancel` during
  the animation, which ends the next drag or throws.

### Subprocess and Downloads

`Subprocess` is `SubprocessImpl` with its waiting thread, the destructor and the
process table: a pid is free for another process as soon as its end was seen by
`waitpid`. `Fork`, `ForkFails`, the turns of the waiting thread, `DestroyImpl`
(the destructor of the implementation: flag, kill, join) and `ChildEnds` are its
steps.

`Downloads` adds the `Downloader` and `Aria2` in one thread of the application.
Each call to aria2c is one step, which may fail before or after aria2c has done
what it was asked. `Register` is the loop of the constructor, with
`updateStatus` for every id; `UpdateStatus` follows a metalink to the download it
became, asking again; `StartNew`, `StartKnown`, `GetDownload`, `PauseDownload`,
`ResumeDownload`, `CancelDownload`, `Close` are the calls. aria2c is external: a
set of tasks that goes on between calls, with `--follow-metalink=mem`,
`--save-session`, `--input-file` and `--stop-with-process`. The branch for a
fault in the answer is not there, since `doRequest` throws first. Three history
variables (`failed`, `missed`, `owed`) say when a property makes its promise.
`close()` is the last call of the application, and `Crash` is its end. The
waiting thread has its first turn before the constructor has an answer (it sleeps
before each of up to fifty questions). `KiwixServe`, which uses a `Subprocess` in
the same way, and the Windows implementation are not modelled.

### JavaBindings

The first part is the list of suggestions of a `Reader` and the iterator into it:
`searchSuggestionsSmart` (index first, then the titles of every variant of the
prefix), the scan that places a title (`Place`, `Insert`), and
`getNextSuggestion`. An exception in the middle of a search, in the index or in the
titles, leaves an iterator into a vector that has grown (`Dangling`). The title search
without variants is the case of one variant, and is called by nobody in the bindings.

The second has several Java threads in the native functions. A call through
a `Handle` takes `globalLock` as long as the `LockedHandle` lives. `READER` is a
temporary: a function that gets an entry with it goes on with the entry after the lock is
given back (`HandleEnds`), as `getContentPart` always does. `addReader` uses two
Handles and takes the lock twice (`Locks`). `Library` and `Manager` are plain addresses without
a lock, disposed of by their finalizers: `Reachable` is what the collector may not
take. `Manager` refers to its library, `JNIKiwixServer` does not, which is
`ServeFreedLibrary`. Two unlocked calls on one library are `Race`. One object per
class; the application disposes of a reader only when no other thread is using
it, as the Java class demands. `getContentPart` is modelled in full (`FinalEntry`,
`ReportedSize`); calls that only read one value are `ReadMetadata`. Books,
filters and bookmarks through the bindings are left out: value objects behind
one address each.

## 4. Runs

| run | what it shows | instance | states |
|---|---|---|---|
| `library` | the containers stay in step under all sequences of calls; refinement of `BookCatalog`; what filters and feeds list | 2 books, 2 files, 2 metadata, 2 queries, 1 bookmark; symmetric in books and files; or libraries of 4, 5 and no books that do not change, with filters of 3 calls and pages of up to 7 (a `size_t` of at most 7) | 95 262 |
| `server` | answers while other threads, or the application, use the library | two threads on a library left alone while files come and go; one thread beside an application that adds, updates and removes a book; searches on a library that nobody else uses: 2 archives with an index and 1 without, patterns with 11, 3 and no results, pages of 1 to 3 | 199 379 |
| `exchange` | all lists of tags over restarts and changes; all headers, sizes and cuts; links that lead to their entries; books found again after writing, moving and reading; what is read from a library file is what was saved | 2 starts, 2 versions, 2 words, 2 kept answers, 4 kinds of resource; or `INT_MAX` 3, `INT64_MAX` 11, size 9, block 3; or 3 root locations, 8 names of a book with 10 entries, 4 links to other sites; or 2 names, library files of 4 parts, books of 3 names; or 1 library file, 2 books, 2 paths, 1 feed, 1 foreign file | 1 936 789 |
| `downloads` | the downloads that are known are the ones of aria2c; the process ends | 1 metalink, 2 ids, any failures, restarts and crashes | 1 061 414 |
| `java` | lock, collector and suggestions under two Java threads | 2 threads, one object of each class, 3 prefixes, 2 suggestions asked for | 338 292 |
| `controls` | the search box, the toolbar, the filters and the list of books under keys, mouse, timers and answers in any order | 4 texts with two, one and no suggestions, 2 handlers waiting for the mouse; or 13 places to scroll to and a delta of 5; or 2 filters of one value each, 3 entries of the history, 1 answer waited for; or 2 books, 3 filters, 2 viewports, 2 choices of a filter | 774 771 |
| `widgets` | each widget under users, pages, timers and animations | 3 panels; 2 tabs, one of them loaded; 2 draggables and 3 droppables, one in another; 2 handles on 4 places; a spinner from 0 to 2; 3 dialogs, two of them modal, one shown by an effect, with at most 3 in its queue when it is opened; 4 elements, three of them nested; 2 lists with 3 items | 415 862 |

`library`, `server`, `exchange`, `controls` and `widgets` look at machines that do not
know of each other: a variable `looked` of the MC module says which one moves in a
behaviour, and the others stay where they were made. A property of such a run is
about one machine; the two that are promises about the end, `BodiesAreCompleted` and
`ListIsCompleted`, are `SmallBodyIsCompleted` and `AllBooksAreShown` where their machine is the one
that moves. The counts are those of distinct states.

`CHECK_DEADLOCK FALSE` is set where the system may stop: a crashed server, a sent
body, a path that was read, an application that has put its filter together, a widget with
nothing under way and destroyed.

**Why the bounds are enough.** Two books show every wrong pairing of an id with
another's record, document or handle; two files every stale path. The listed books
differ in every field, two of them share a creator, one has no name, and pages of
1 to 3 of five books end inside, at and after the last; three calls set a filter,
take it back and set another. Two threads
are one that changes a container and one that uses it; that the situations
of `server` are not combined is a matter of size (more than six million states together).
The two files of `server` are editions of one book: the
name of the newer is the alias of the older. The searches have more pages than
are linked at once, a last page that is not full, and an announcement that is
too high. Two starts give an ETag that is too old; two
words give a first tag that must not win; two kept answers give two variants of
a page. The integers of the bodies in `exchange` reach over `INT_MAX` and up to `INT64_MAX`
around each other and around the size. Paths of four parts have room for a
detour before, at and after the place where the file and the book part. The
names, entries and roots of the links have each character that one maker or
reader of links treats in another way, one of them an escape in the path itself,
and a name and a root that look alike; a browser follows two redirections, one
more than a link to an item needs. One library
file suffices for a save over a read one, a second book for a file
that is only partly written, and the foreign file has a duplicate and a
category. In `downloads` a metalink needs both ids, one for itself and one for
what it leads to, and an id that was used up makes aria2c refuse. In `java` the
prefixes are one that the index knows, one that only the titles know and the
empty one; both variants of a prefix find the same entry. In `controls` one text
is answered with two items, so that the keys move between them, one with a single
item that the other answer has too, one with none; two waiting handlers are one
that belongs to an old menu and one to the new. The two books of the list come in one piece or two, in both orders, and not
at all. Thirteen places are more than
twice the delta, so that the bar can be reached in small and in large steps; three
entries of the history have one in the middle. In `widgets` three panels allow one
to be opened while another closes and the third opens; two modal dialogs and one
that is not may be closed in any order, and a queue of three has a dialog closed, opened
and closed again while it is being shown; a draggable and two connected lists are
enough for one drag to begin while another ends.
Counters that the code does not bound have a constant in a guard: `MaxArmed`,
`MaxHistory`, `MaxWaiting`, `MaxBookmarks`, `MaxStarts`, `MaxVersion`, `MaxTokens`, `MaxStored`,
`MaxSize`, `MaxScroll`, `MaxResets`, `MaxInt`, `MaxCalls`, `EffectLimit`; `MaxHops` is the code's own 42.

**Fairness.** `LibraryServer`: a thread of the pool runs its handler
(`WF(Handle)` per thread); nobody must send requests, change the library or
touch a file. `ItemStream`: libmicrohttpd goes on asking for blocks until the
client closes. `CatalogPage`: the browser runs what is due and every request is
answered or fails (`WF(Progress)`), and the user scrolls on (`WF(LoadSubset)`): the
promise is made to a user who does. `Downloads`: the kernel runs the waiting
thread, and a destructor that has begun goes on; nobody must call anything and
aria2c need not progress. `JavaBindings`: a thread in a native function goes on
(`WF(Step)` per thread), but the mutex need not be fair to those who wait, so that
`LockIsReleased` promises only that the lock is given back. `Library`, `CatalogFeeds`, `SearchPages`, `Paths`, `EntryLinks`, `LibraryFiles`,
`ConditionalRequests`, `SearchBox`, `PageFilters` and the widgets have no
liveness property and no fairness: what should happen in the end is stated of the
states where every timer, animation and answer it waits for is over.

### Disagreements found

Five runs look for a violation of what the repository says, and find it:

* `search_after_refused_update`: `addBook` has replaced the document in the index
  when `Book::update` refuses (read-only book): a search finds the book by
  metadata that it does not have.
* `stream_large`: the start of a range beyond `INT_MAX` is cut to an `int`, and
  the body is another part of the item, or none.
* `java_last_part`: a part of an entry that reaches to its last byte is refused
  like an error, because `offset + len` is compared with `<`.
* `valid_books`: `listBooksIds` for valid books leaves out those without a path, which
  its comment counts as valid (`include/library.h:315`). The comment of
  `Filter::valid` (line 92) does not: the code agrees with that one, and so does
  `FiltersListTheRightBooks`.
* `java_article_twice`: the suggestions have an article once for each of its titles
  that begin with the prefix, though the comment says that it is skipped "with an other
  title" (`src/reader.cpp:406`): an entry is skipped only when its title is there too.

Others were met on the way. In the models, as steps that end the program or as
exceptions in the statement of a property: the data race of two threads on
`m_archives`; the null searcher of a library-wide search with no book that
opens; the archive of a removed book put back by a thread that was opening it; a
feed cut short in the middle of `addBook`; a `kill` that goes to process 0 when
`fork` has failed and the test of the `waitpid` answer that takes an error for a
running child; a download that becomes active between the two questions of the
constructor; `Download*` that die with a failed refresh; `addReader`, which
waits for its own lock; the library that a collector frees under a running Java
server; an iterator that a failed search leaves dangling; a `subrange` that overflows for
the greatest counts (`src/server/internalServer.cpp:760`); a category, name or
language of several words, which no filter finds, so that the feed that
`/catalog/v2/categories` links is empty; `start=` and `count=` without a value,
which leave a number uninitialised; an accordion
that is opened from the collapsed state and keeps the header that was in the tab order there,
which the comment at `jquery-ui.js:5966` says is removed (the filter compares the string "0"
with `=== 0`); a redirection to an item with "?" in its path,
which leads to another page or round for ever, because `urlEncode` keeps reserved
characters (`src/server/internalServer.cpp:809`); links of search results that are
not encoded at all (`static/templates/search_result.html:117`) and suggestions
that keep "?" and "#" (`static/skin/taskbar.js:31`); names of books that go into
links and redirections as they are; links to other sites that lose what comes
after "&" or "#" (`static/skin/block_external.js:5`); books called `skin` or
`catalog`, which cannot be reached. Read in the code, and
listed under `hazards` or here: a library written under a relative path gets
entries that do not lead to its books; `readXml` returns true for a text that
does not parse; `Server` is restarted without a destructor; the links of the
pages of a geo-search lead to no search at all; all downloaders share port
42042; the dispose function of a Java `Filter` deletes it as a `Library`; arrays
of strings from Java get twice their length; `hasMoreResult` has no
implementation; `urlEncode` pads the escapes of codes below 16 with a blank
(`setw(2)` with no fill, `src/tools/stringTools.cpp:226`); `searchSuggestions` returns true when it has added nothing.

## 5. Proofs

`LibraryProofs`, for all finite sets of books and all sets of paths, metadata and
queries (assumptions `ConstantsAssumption`, `NoBookAssumption`):

* `LibraryInvariant`: `LibraryInv` is inductive. It is type correctness, the index
  covering the books, *writable books being indexed by their record*, and the two
  facts about handles. The third conjunct is what makes the filter right, and it
  is not implied by the others: it says that the only way for the index and a
  record to differ is a refused update.
* `TypeCorrect`, `HandlesCorrect` (`HandlesAreRight`): its conjuncts.
* `FilterCorrect` (`FilterIsRight`): `filter` never throws, and answers for writable books as a scan
  would. The limit on the number of documents cuts nothing off because the hits
  are among the books (`LimitLosesNothing`, with cardinalities of finite sets).
* `HandlesKept`: an action property from the invariant.
* `LibraryImplementsCatalog`: initial states and steps map to those of
  `BookCatalog`, one step per action.

`LibraryProofs` about `LibraryServer`, for any number of threads, books, paths and
queries, any catalog (`ServerAssumption`) and steps of the application without end:

* `ServerInvariantHolds`: `ServerInvariant` is inductive. The properties speak of the
  books that the application leaves alone (`StableBooks`), so that the invariant has to
  say what each thread holds of them at each place of its code, whatever it read
  of the other books: `RequestOK` (the id is the one the mapper has for the name,
  the copy is the record), `FileOK` (the file opened is the one of the record),
  `ListOK` (of a listing, the books before the position are in the result if they
  belong there, and those after it are still to come) and `AnswerRight`. `LibraryOK`
  says that index, map and handles agree *about the stable books only*: of the others
  they need not, in the middle of a call of the application (`AppOK`).
* `MapperRight` is what `HumanReadableNameMapper` makes of the books, one after the other
  (`MapperIsRight`): a name in the map leads to one of the books that have it, and
  to one that has it in full if there is any.
* `AnswersCorrect` (`BookAnswersAreRight`), `ListsCorrect` (`ListsCoverTheLibrary`).

`LibraryProofs` about `CatalogFeeds`, for any libraries of at most as many books as a
`size_t` can count, any texts, tags, requests, starts and counts, and filters put
together by any number of calls (`FeedsAssumption`):

* `FeedsInvariant`: `FeedsInv` is inductive. `Says` ties each field and flag of a
  filter to the last call of its setter (`CallSays`: a call says its own part and leaves
  the rest as it was said); a list is a sorting of what the filter finds; a feed is the
  answer to its own request, and the pages turned up to it are the first so many of all
  that there are (`TurnedAre`).
* `FiltersCorrect` (`FiltersListTheRightBooks`): what goes to the index and what to the
  record are together what was asked for (`MeantIs`), found once each (`FilterFinds`); and the
  loop over the books that makes a list of values keeps what `ListsTo` says.
* `FeedsCorrect` (`FeedPagesFitTogether`), with the sum of a `size_t` that may wrap
  (`SumIs`, `PageIs`).

`HttpProofs` about `ItemStream`, for all widths of integers, sizes and blocks
(`WidthAssumption`: `INT_MAX` below `INT64_MAX`, a size below it):

* `StreamInvariant`: the chosen response is the one of the header and, while a
  small item is being sent, less than the range has been sent.
* `TypeCorrect`: no byte outside of the item is sent, however wrong the start.
* `AnnouncementCorrect`: the announced range is the one that was asked for
  (`ResolveCorrect`, by cases on the form of the header).
* `BodyCorrect`: for an item that an `int` can number, the body is the range
  (`ToIntSmall`, `ToUInt64Small`: the conversions are the identity there).

`HttpProofs` about `ConditionalRequests`, for any number of starts, versions, words in a header
and answers that are kept (`ConditionalAssumption`; every theorem assumes
`~LiveChanges`, without which ETags promise nothing):

* `ConditionalInvariant`: `ConditionalInv` is inductive. A 304 is decided in one step
  and sent in another, with restarts between two requests, so that the invariant
  has to say what a kept tag tells of the answer it came with (`TagsTell`: the start it is of, its
  options, and the content *as long as that start is the present one*), that one
  start is one version (`OneVersion`), and what a handler has already seen
  (`HandlerKnows`). A half read server id is the negative of a start and counts as one.
* `NotModifiedCorrect` (`NotModifiedMeansTheSame`), `ValidatorsCorrect` (`ValidatorsAreStrong`).

`HttpProofs` about `EntryLinks`, for any entries, names of the book, roots and links to other
sites, with any characters in them (`LinksAssumption`: every entry leads to an item and has
a path; a root has nothing that ends the path of a URL, and no escape):

* `LinksCorrect` (`LinksLeadWhereTheySay`). `LinksInv` adds to the property what a redirection
  on its way leads to (`LedThere`): an item, so that it is the last. The work is in what
  the two sides do to a text. Of an encoder, the lemmas say that no character is
  left unescaped for which the reader searches (`EscapingIsFree`), of the reader that the
  first of them is where the maker of the link put it (`BeforeThat`, `ArgumentIs`), and that the
  text between comes back (`DecodedIsText`). A link that a browser sends as a whole
  (`Whole`) reaches `HandleContent` with its book and path (`EntryLinkLeads`), since no other
  handler takes what is below a book; `RandomLink` and `CaptureLink` carry an argument.

`HttpProofs` about `Paths`, for paths of any length with any detours, for any names
(`PathsAssumption`: names are not `.`, `..` or empty; books and the current directory have
absolute paths, library files are `WellPlaced`):

* `PathsCorrect` (`BookIsFoundAgain`). `PathsInv` says of a written file that its entry is the
  way from the directory of the file to the book, up to where the two part and
  down from there (`Entered`, `Way`), or, under a bare name, its absolute path; renaming a directory
  above that point leaves such a way alone (`MoveKeeps`). What `normalizeParts` makes of a path
  is compared with a walk from the root (`Names`), turn by turn of the loop; after each
  turn, what has been kept walks to where the path has come. That holds for an absolute path whatever
  it does; for `normalizeParts(_, false)`, which `computeRelativePath` uses for the directory, only as
  long as the path does not go up from the root, which is where `WellPlaced` comes from. The
  assumption cannot be dropped: the disagreement above about relative paths
  is what happens without it.

`LibraryFilesProofs`, for any books, paths, files, feeds and ZIM files
(`FilesAssumption`, `BookAssumption`):

* `FilesInvariant`: `FilesInv` is inductive. That what was saved is restored is about
  three runs of the program: `FilesAreAsSaved` is what a file holds after them,
  `SavingIsExact` is what the writing of it has made so far, with the file broken
  until the end, and `LoadingRestores` says in the middle of reading that each book of the
  file is there again or still to come (`StillToCome`). `NothingMeansNothing` is the
  state of a new process.
* `SavedCorrect` (`RestoredAsSaved`); `DumpIsSaved` is the lemma about what the dumper
  writes, for libraries of any finite size.
* `ReadOnlyCorrect` (`ReadOnlyBooksStay`), an action property; `TypeCorrect`.

`PagesProofs` about `SearchPages`, for any archives, patterns, results and page lengths
(`PagesAssumption`):

* `SearchInvariant`: `SearchInv` is inductive. `SearcherInv` ties the cursor to what the last
  search found, not to the range that is set now; `PagesInv` says that a reader who
  turns pages is at a multiple of the length and has seen the results up to there.
* `ResultsCorrect` (`ResultsComeOnceInOrder`), with the division that makes the numbers
  and the arrows of a page (`LastPageStart`) for any estimate.

`PagesProofs` about `CatalogPage`, for any finite set of books, any filters and
any order of answers (`PageAssumption`):

* `PageInvariant`: `PageInv` is inductive. `NoBookTwice` and `NothingShown` hold always; `Calm`
  holds while nothing unexpected has happened, and must say where each of the three
  copies stands in the middle of a load: the map has the first `start` books of
  the filter, the one request is for what follows (`OnlyRequest`), and the screen has the
  same books unless that request is the one after which all are replaced.
* `PageCorrect` (`PageIsRight`). The screen is sorted by weights and
  keeps the order of equals, so that the lemmas are about places: what was shown and
  what has come, each in its order, make up the new list (`DisplayIs`, `PieceIsArranged`,
  `SortedIsArranged`).

`DownloadsProofs`, for any number of downloads and of URIs (`UriAssumption`,
`NoneAssumption`):

* `KillCorrect` (`KillSparesOthers`): a strange process can only be struck when the
  child has been reaped, and a thread that has left its loop never reaps it.
* `SessionCorrect` (`ClosedSessionIsSaved`): `SessionInv` says that between the two
  calls of `close()` everything under way is in the session file, and after them that what
  is owed is under way until aria2c stops, which saves it once more.

Under the same assumptions, about the known downloads:

* `KnownInvariant`: `KnownInv` is inductive. A metalink has at most one follower
  and that one none (`TasksAreRight`); objects are of downloads that are there
  (`KnownIsThere`); what is shown as the end of a download is it (`OverIsOver`, for
  removed ones also if nobody has asked for them); and, at every step of the constructor, what
  is under way is known, on its list, noted as missed, or waits for the second
  question (`NoneOverlooked`).
* `KnownDownloadsCorrect` (`KnownDownloadsAreRight`): its three parts.

`JavaBindingsProofs`, for any threads, titles and patterns (`SuggestionsAssumption`,
`BindingsAssumption`):

* `SuggestionsInvariant`, `SuggestionsCorrect` (`SuggestionsAreInOrder`): each insertion keeps
  the titles in order and no title twice with one article (`PlaceIs`: the scan ends at the smallest
  place that will do) and the list no longer than asked for; what comes from the index is a
  beginning of what it finds. A search that throws stops after any number of these steps.
* `ObjectsInvariant`: `ObjectsInv` is inductive. The collector may take an object in the middle
  of a call of another thread, so that the invariant says what each call has
  in its hands (`CallsHaveNeeds`), that this is alive (`InUseIsLive`), that only one thread
  makes an object (`MakersAreAlone`) and that one who disposes of a reader has it
  for itself (`DisposerIsAlone`). `ManagerCorrect` (`ManagerHasItsLibrary`) is a part of it.
* `TypeCorrect` needs `LockInv`: who has the lock is in a call.

`ControlsProofs` about the toolbar, for pages of every height and every `delta`: `ToolbarInvariant`,
with the two facts that keep the toolbar from being lost, that scrolling which is not
looked at any more is a small difference, and that a hidden toolbar was hidden
more than `delta` down; `ToolbarComesBack` (`ToolbarIsThereAtTheTop`).

`ControlsProofs` about `SearchBox`, for all texts, items and answers and any number of handlers
that wait for the mouse (`SearchBoxAssumption`):

* `SearchBoxInvariant`: `BoxInv` is inductive. `LastSearchCounts` is about what may
  still be shown (a request that has not been called off is the one for `term`, and
  a menu is only seen while that is so), `TypedIsOnItsWay` about what will be.
* `MenuCorrect` (`MenuAnswersTheTerm`), `TypingCorrect` (`TypedIsSuggested`).

`ControlsProofs` about `PageFilters`, for any filters and histories of any length
(`PageFiltersAssumption`: among others, a control never offers "no parameter"):
`PageFiltersInvariant`, where the parameters and the address are the same but
before `onload`; `ControlsCorrect` (`ControlsShowTheFilters`).

`ControlsProofs` about `Widgets`, one inductive invariant per widget; which elements
there are, in which order and how many, is open everywhere:

* `SpinnerInvariant`, `SpinnerCorrect` (`NoSpinIsLost`), for any range: `SpinnerInv` adds where the
  number that the page was told is kept meanwhile: in `previous` while the field has
  the focus, in `saved` while a press on a button has taken it (`cancelBlur`).
* `SliderInvariant`, `SliderCorrect` (`RangeIsInOrder`), for any step and any bounds that the
  step divides (`SliderAssumption`): both values are on a step and in order, also
  outside the bounds when the page has moved those; `_trimAlignValue` keeps what is
  on a step and in order so.
* `TooltipInvariant`, `TooltipsCorrect` (`TooltipIsHeld`), for elements in each other in any way
  that has an innermost (`TooltipAssumption`): what `close` and `open` do to the titles of an
  element and its parents keeps them in step with what is open (`ClosedInStep`), and
  `_disable`, which takes all titles, closes all at once.
* `DialogsInvariant`, `DialogsCorrect` (`ModalKeepsFocus`), for any dialogs, with or without effects
  and with queues of any length (`DialogAssumption`). `CountedInv` counts the overlays as the cardinality of
  the open modal dialogs, so that the handler goes exactly with the last of them; `TrackedInv`
  says that whatever is shown can be sent the focus to, also a dialog that had the focus
  before its effect ended and is not noted again; and for that `EffectsInv` has to say
  that the queue shows and hides in turn (an odd number of steps if the dialog is open), and who
  may be its own opener. A focus that comes to the page while the handler works goes to the head of
  the list (`FocusGoesWhere`), with two exceptions, which TLC shows to be necessary: all that
  is open is still being shown, or the head is a dialog that was closed during its effect
  and has got the focus after that, when it is hidden.
* `AccordionInvariant`, `AccordionCorrect` (`OnePanelIsOpen`), for any finite set of panels
  (`AccordionAssumption`): `AccordionInv` is about what will be open when the animation under way
  has ended (`Settled`) and that some header is a tab stop (there may be more than one), since several may be in each other's way; between the removal of
  a panel and `refresh`, the page has one panel less than the widget knows of.
* `TabsInvariant`, `TabsCorrect` (`OneTabIsOpen`), for any tabs and requests (`TabsAssumption`), in the
  same way (`WillBeShown`), with the request that `xhr` holds (`Held`).
* `DragDropInvariant`, `DragDropCorrect` (`NothingStaysLit`), for any draggables and for droppables in
  any order (`DragDropAssumption`). While a drag is on, what is lit is what the helper is over
  and would be taken by (`Lighting`), but for parents whose greedy child has it; each turn of
  the loop of `drag` keeps that (`DragKeeps`), and a drop or the end leaves it dark (`Dark`).
  The proof does not go through for two greedy droppables in one parent: leaving one of them
  calls `_over` of the parent, which is lit while the helper is over the other. The
  property does not hold of such a page (TLC shows it), which is why
  the assumption is there.
* `SortableInvariant`, `SortableCorrect` (`ListsAreTold`), for any lists and items, connected in
  any way, with each item at one place of the page at first (`SortableAssumption`). The
  items and placeholders are each at one place (`Arranged`); a dragged item stays in
  its list, and its placeholder is in the list that the drag has come to (`InHand`). The order
  of a list without repetition is said without places, as who comes before whom
  (`Comes`, `SameOrder`): taking an element out or putting it beside another changes
  nothing about the others (`Taken`, `PutInto`). That the test for "update" is right, unless drags
  have crossed, needs that the item still comes after the same element in what
  the page was told (`Follows`): if it does so on the page too, and the others are in
  their order, then the lists are the same (`SamePrev`, `ToldOrTheSame`).

`FoldTheorems` holds the inductions that the others need. The library states induction
for an operator (`NEW P(_)`), which the provers cannot instantiate; a *set* of
numbers says the same (`Induction`, `BoundedInduction`: a set of numbers that has 0 and with
each number the next has them all), and a property is the set of the numbers that
have it. On it rest `LargestNumber`, `SmallestNumber`, `IterationExists`, `IterationStays`
(the function that a fold of the community modules chooses exists, and what each
step of the fold keeps holds at its end) and `OnlyInIs`: what `OnlyIn` leaves of a list has its
elements in their order, and those of the set and no others.

Only model-checked: every liveness property (`EveryRequestEnds`, `BodiesAreCompleted`,
`ListIsCompleted`, `DestructorReturns`, `LockIsReleased`): TLAPS proves neither liveness under
fairness nor anything with ENABLED. No module declares a RECURSIVE operator.

## 6. Not modelled

Steps 16 to 18 are planned. Of jQuery UI, selectmenu, datepicker, progressbar,
selectable, resizable, button, position and the effects are left out: no page of the
server uses them. The Windows subprocess is the same
interface over another API. The getters of readers and entries, the remote catalog, the dumper's
markup, the tools for text, archives and the network, the templates
and the other vendored scripts keep no state of their own or are pure
input and output; Isotope, Xapian, libzim and libmicrohttpd appear only as the
code uses them.
