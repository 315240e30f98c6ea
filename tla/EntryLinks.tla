------------------------------ MODULE EntryLinks ------------------------------
(***************************************************************************)
(* The way from a link to an entry of a ZIM file: the links that pages and *)
(* answers of the server have (search_result.html, taskbar_part.html,      *)
(* taskbar.js, block_external.js, build_redirect), what the browser makes  *)
(* of them, and how the server reads them (request_context.cpp,            *)
(* handle_request and the handlers it chooses).                            *)
(*                                                                         *)
(* A text is a sequence of characters.  A word that no function looks into *)
(* is one character, and so are "%20" and "%26", three characters that are *)
(* the escape of " " and "&".  A link is a text whose characters may be    *)
(* escaped.                                                                *)
(***************************************************************************)
EXTENDS Integers, SequencesExt

CONSTANTS
    Root,       \* the root locations that a server may be started with
    BookName,   \* the names that its book may have
    Entries,    \* Entries[path]: the path of the item that an entry leads to
    MainEntry,  \* the main entry, or NoEntry
    External,   \* what links to other sites refer to
    NoEntry

(* Every entry leads to an item and has a path.  Root locations and links  *)
(* to other sites are as a browser has them: without what would end the    *)
(* path of a URL, and with their spaces escaped.                           *)
ASSUME LinksAssumption ==
    /\ Entries \in [DOMAIN Entries -> DOMAIN Entries]
    /\ \A path \in DOMAIN Entries : Entries[Entries[path]] = Entries[path]
    /\ DOMAIN Entries \subseteq Seq(STRING) \ {<<>>}
    /\ MainEntry \in DOMAIN Entries \cup {NoEntry} /\ NoEntry \notin Seq(STRING)
    /\ BookName \subseteq Seq(STRING) \ {<<>>} /\ \A n \in BookName : ~Contains(n, "/")
    /\ Root \subseteq Seq(STRING)
    /\ \A r \in Root, char \in {"?", "#", "%20", "%26"} : ~Contains(r, char)
    /\ External \subseteq Seq(STRING) \ {<<>>} /\ \A href \in External : ~Contains(href, " ")

VARIABLES
    root,       \* m_root
    name,       \* the name of the book
    answer,     \* [status, shows, location]: what the browser got last
    meant       \* history: what the link was made for, and how often the
                \* browser was redirected from there

linkVars == <<root, name, answer, meant>>

Reserved == {"/", "?", "&"}

(* What has to be escaped wherever it stands.  Of "%20" it is the "%". *)
Unsafe == {"#", " ", "%20", "%26"}

-----------------------------------------------------------------------------
(* Links and their makers.                                                 *)

Escaping(text, chars) ==
    [i \in DOMAIN text |-> [char |-> text[i], escaped |-> text[i] \in chars]]

Raw(text) == Escaping(text, {})

(* Mutant: the escape character is not escaped. *)
UrlEncodeOnce(text, encodeReserved) ==
    Escaping(text, {"#", " "} \cup IF encodeReserved THEN Reserved ELSE {})

UrlEncode(text, encodeReserved) ==
    Escaping(text, Unsafe \cup IF encodeReserved THEN Reserved ELSE {})

(* The function of JavaScript. *)
EncodeURI(text) == Escaping(text, Unsafe \ {"#"})

Below(book, path) == Raw(root \o <<"/">>) \o book \o Raw(<<"/">>) \o path

(* build_redirect: the name is not encoded. *)
RedirectTo(item) == Below(Raw(name), UrlEncode(item, FALSE))

(* search_result.html and the home button of the taskbar. *)
ResultLink(path) == Below(Raw(name), Raw(path))
HomeLink == Below(Raw(name), <<>>)

(* taskbar.js takes the name from the location, where it is as the browser *)
(* sent it, or, on a page of search results, from the argument of the URL. *)
SuggestionLink(path, onSearchPage) ==
    Below(IF onSearchPage THEN Raw(name) ELSE UrlEncode(name, TRUE), EncodeURI(path))

SuggestionsLink == Raw(root \o <<"/", "suggest", "?", "content=">>) \o Raw(name)

RandomLink == Raw(root \o <<"/", "random", "?", "content=">>) \o UrlEncode(name, TRUE)

(* block_external.js *)
CaptureLink(href) ==
    EncodeURI(root \o <<"/", "catch", "/", "external", "?", "source=">> \o href)

-----------------------------------------------------------------------------
(* The browser and libmicrohttpd.                                          *)

Unescaped(c) ==
    IF c.escaped THEN c.char
    ELSE CASE c.char = "%20" -> " " [] c.char = "%26" -> "&" [] OTHER -> c.char

Decode(link) == [i \in DOMAIN link |-> Unescaped(link[i])]

FirstOf(link, chars) ==
    SelectInSeq(link, LAMBDA c : ~c.escaped /\ c.char \in chars)

Before(link, chars) ==
    LET n == FirstOf(link, chars) IN IF n = 0 THEN link ELSE SubSeq(link, 1, n - 1)

(* What comes before "?" is the URL of the request. *)
FullUrl(link) == Decode(Before(Before(link, {"#"}), {"?"}))

(* The value of the one argument that our links have, or NoEntry. *)
Argument(link, key) ==
    LET sent == Before(link, {"#"})
        query == SubSeq(sent, Len(Before(sent, {"?"})) + 2, Len(sent))
    IN IF query # <<>> /\ Head(query) = [char |-> key, escaped |-> FALSE]
       THEN Decode(Before(Tail(query), {"&"}))
       ELSE NoEntry

-----------------------------------------------------------------------------
(* The server.                                                             *)

Answer(status, shows) == [status |-> status, shows |-> shows, location |-> <<>>]
NotFound == Answer(404, NoEntry)
Redirect(item) == [status |-> 302, shows |-> NoEntry, location |-> RedirectTo(item)]

(* fullURL2LocalURL *)
LocalUrl(full) ==
    CASE root = <<>> -> full
      [] root # <<>> /\ full = root -> <<"/">>
      [] root # <<>> /\ IsPrefix(root \o <<"/">>, full) -> SubSeq(full, Len(root) + 1, Len(full))
      [] OTHER -> <<>>

(* get_url_part(0) *)
BookNameOf(url) ==
    LET n == SelectInSeq(Tail(url), LAMBDA c : c = "/")
    IN IF n = 0 THEN Tail(url) ELSE SubSeq(Tail(url), 1, n - 1)

(* getEntryFromPath: an empty path is the main entry. *)
EntryAt(path) ==
    IF path \in DOMAIN Entries THEN path
    ELSE IF path \in {<<>>, <<"/">>} THEN MainEntry
    ELSE NoEntry

PathOfUrl(url, bookName) ==
    LET rest == SubSeq(url, Len(bookName) + 2, Len(url))
    IN IF rest # <<>> /\ Head(rest) = "/" THEN Tail(rest) ELSE rest

HandleContent(url) ==
    LET bookName == BookNameOf(url)
        path == PathOfUrl(url, bookName)
        entry == EntryAt(path)
    IN CASE bookName = <<>> -> Answer(200, <<"home page">>)
         [] bookName \notin {<<>>, name} -> NotFound
         [] bookName = name /\ entry = NoEntry -> NotFound
         [] bookName = name /\ entry # NoEntry ->
                IF Entries[entry] # entry \/ path = <<>> THEN Redirect(Entries[entry])
                ELSE Answer(200, entry)

HandleRandom(link) ==
    IF Argument(link, "content=") # name THEN {NotFound}
    ELSE {Redirect(Entries[path]) : path \in DOMAIN Entries}

(* urlDecode: escapes of reserved characters stay. *)
UrlDecode(text) == [i \in DOMAIN text |-> IF text[i] = "%20" THEN " " ELSE text[i]]

HandleCapturedExternal(link) ==
    LET source == Argument(link, "source=") IN
    IF source \in {NoEntry, <<>>} THEN NotFound ELSE Answer(200, UrlDecode(source))

(* handle_request, without the conditional requests: the handlers of skin, *)
(* catalog, meta, search and suggest have an answer of their own.          *)
Answers(link) ==
    LET url == LocalUrl(FullUrl(link)) IN
    CASE url = <<>> -> {NotFound}
      [] url = <<"/", "random">> -> HandleRandom(link)
      [] url = <<"/", "catch", "/", "external">> -> {HandleCapturedExternal(link)}
      [] \/ \E page \in {"skin", "catalog"} : IsPrefix(<<"/", page, "/">>, url)
         \/ url \in {<<"/", page>> : page \in {"meta", "search", "suggest"}} ->
             {Answer(200, <<"other page">>), NotFound}
      [] OTHER -> {HandleContent(url)}

-----------------------------------------------------------------------------
NoAnswer == Answer(0, NoEntry)

LinksInit ==
    /\ root \in Root /\ name \in BookName
    /\ answer = NoAnswer
    /\ meant = [by |-> "nobody", path |-> <<>>, redirected |-> 0]

Go(link, by, path) ==
    /\ answer.status # 302
    /\ answer' \in Answers(link)
    /\ meant' = [by |-> by, path |-> path, redirected |-> 0]
    /\ UNCHANGED <<root, name>>

FollowResult(path) == Go(ResultLink(path), "search result", path)

(* There are suggestions if the name gets to the server. *)
FollowSuggestion(path, onSearchPage) ==
    /\ onSearchPage => Argument(SuggestionsLink, "content=") = name
    /\ Go(SuggestionLink(path, onSearchPage), "suggestion", path)

GoHome == Go(HomeLink, "home button", <<>>)

GoToRandomEntry == Go(RandomLink, "random button", <<>>)

LeaveForSite(href) == Go(CaptureLink(href), "external link", href)

(* The bound: a browser gives up some time. *)
FollowRedirect ==
    /\ answer.status = 302
    /\ meant.redirected < 2
    /\ answer' \in Answers(answer.location)
    /\ meant' = [meant EXCEPT !.redirected = @ + 1]
    /\ UNCHANGED <<root, name>>

LinksNext ==
    \/ \E path \in DOMAIN Entries :
          \/ FollowResult(path)
          \/ \E onSearchPage \in BOOLEAN : FollowSuggestion(path, onSearchPage)
    \/ GoHome \/ GoToRandomEntry
    \/ \E href \in External : LeaveForSite(href)
    \/ FollowRedirect

LinksSpec == LinksInit /\ [][LinksNext]_linkVars

-----------------------------------------------------------------------------
(* Properties.                                                             *)

Has(text, chars) == ToSet(text) \cap chars # {}

(* A name that can be put into a link as it is: HumanReadableNameMapper     *)
(* leaves "?", "#" and "%" in the name of a file.  A book may not be       *)
(* called like a page of the server, nor have the one at /catch/external.  *)
PlainName ==
    /\ ~Has(name, {"?", "#", "%20", "%26"})
    /\ name \notin {<<"skin">>, <<"catalog">>}
    /\ name = <<"catch">> => <<"external">> \notin DOMAIN Entries

(* The links that can be trusted, by their makers: those of a page of      *)
(* search results are not encoded at all, and encodeURI keeps "?" and "#". *)
Trusted ==
    CASE meant.by = "search result" -> ~Has(meant.path, {"?", "#", "%20", "%26"})
      [] meant.by = "suggestion" -> ~Has(meant.path, {"?", "#"})
      [] OTHER -> TRUE

(* The items that a link is for. *)
Targets ==
    CASE meant.by = "home button" -> IF MainEntry = NoEntry THEN {} ELSE {Entries[MainEntry]}
      [] meant.by = "random button" -> {Entries[path] : path \in DOMAIN Entries}
      [] OTHER -> {Entries[meant.path]}

(* How a browser writes what a page shows as a link. *)
Href(text) == [i \in DOMAIN text |-> IF text[i] = " " THEN "%20" ELSE text[i]]

(* A link to an entry, whoever made it, leads to the item of that entry,   *)
(* with one redirection at most and whatever is in the path, as long as    *)
(* the link can be trusted and the redirection does not go to an item with *)
(* "?" in its path: what encodes and what decodes fit together, on the     *)
(* server, in the browser and in its scripts.  A link to another site is   *)
(* shown as it was, escapes included, unless it has "#" or "&".            *)
LinksLeadWhereTheySay ==
    CASE meant.by = "nobody" -> TRUE
      [] meant.by = "external link" ->
            \/ Has(meant.path, {"#", "&"})
            \/ answer.status = 200 /\ Href(answer.shows) = meant.path
      [] OTHER ->
            PlainName /\ Trusted =>
                \/ answer.status = 302 /\ meant.redirected = 0
                \/ answer.status = 200 /\ answer.shows \in Targets
                \/ answer.status = 404 /\ Targets = {}
                \/ meant.redirected > 0 /\ \E item \in Targets : Has(item, {"?"})
=============================================================================
