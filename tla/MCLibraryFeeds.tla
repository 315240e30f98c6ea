---------------------------- MODULE MCLibraryFeeds ----------------------------
(* Values for model checking Library and CatalogFeeds: a library that      *)
(* changes and is not listed, and others that are listed and do not        *)
(* change.  In the latter, either an application lists the books or a      *)
(* reader of feeds does.                                                   *)
EXTENDS MCLibrary, CatalogFeeds

FeedBook(isLocal, isValid, isRemote, size, date, variant, name, category, lang, author, title, tags) ==
    [local |-> isLocal, valid |-> isValid, remote |-> isRemote, size |-> size, date |-> date,
     hasOrigId |-> variant, name |-> name, category |-> category, lang |-> lang,
     publisher |-> <<"kiwix">> \o author, creator |-> author, title |-> title,
     description |-> <<"wiki">>, tags |-> tags]

Ray == FeedBook(TRUE, TRUE, TRUE, 2, 1, FALSE, <<"ray">>, <<"wiki">>, <<"eng">>,
                <<"wiki", "ray">>, <<"ray", "kiwix">>, {"t1", "t2"})
Raymond == FeedBook(TRUE, TRUE, FALSE, 1, 1, TRUE, <<"ray">>, <<"stack", "wiki">>, <<"fra">>,
                    <<"ray">>, <<"raymond">>, {"t2"})
Lost == FeedBook(TRUE, FALSE, TRUE, 1, 2, FALSE, <<>>, <<"stack">>, <<>>,
                 <<>>, <<"kiwix">>, {})
Distant == FeedBook(FALSE, FALSE, TRUE, 2, 0, FALSE, <<"wiki">>, <<>>, <<"fra">>,
                    <<"ray", "wiki">>, <<"wiki", "ray">>, {"t1"})

MCLibraries == {<<Ray, Raymond, Lost, Distant>>, <<Raymond, Ray, Ray, Lost, Ray>>, <<>>}

MCCompletions ==
    [w \in {"ray", "raymond", "wiki", "kiwix", "eng", "fra", "stack"} |->
        IF w = "ray" THEN {"ray", "raymond"} ELSE {w}]

MCText == {<<>>, <<"ray">>, <<"wiki", "ray">>, <<"eng">>}
MCTags == {{}, {"t1"}, {"t2"}, {"t1", "t2"}}

MCRequested ==
    {NoCalls,
     [NoCalls EXCEPT !.query = <<"wiki", "ray">>],
     [NoCalls EXCEPT !.lang = <<"fra">>, !.maxSize = 1],
     [NoCalls EXCEPT !.reject = {"t1"}, !.query = <<>>],
     [NoCalls EXCEPT !.name = <<"ray">>, !.category = <<"wiki">>],
     [NoCalls EXCEPT !.accept = {"t2"}]}

MCListed ==
    UNION {{[request EXCEPT !.local = x, !.valid = y],
            [request EXCEPT !.remote = x, !.creator = <<"ray">>]} :
               request \in MCRequested, x, y \in {TRUE, FALSE, NotGiven}}

MCInit == Init /\ FeedsInit /\ (lib = <<>> \/ disk = {})

(* Nothing is listed in the empty library of Init. *)
Untouched == bookmarks = <<>> /\ disk = {} /\ \A id \in Id : bookDB[id] = NoDoc

MCNext ==
    \/ /\ lib = <<>> /\ called = 0 /\ feed = NotGiven
       /\ Next
       /\ UNCHANGED feedVars
    \/ /\ Untouched
       /\ \/ feed = NotGiven /\ ApplicationLists
          \/ called = 0 /\ ReaderBrowses
       /\ UNCHANGED vars

MCSpec == MCInit /\ [][MCNext]_<<vars, feedVars>>
===============================================================================
