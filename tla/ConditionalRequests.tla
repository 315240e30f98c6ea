------------------------- MODULE ConditionalRequests -------------------------
(***************************************************************************)
(* Entity tags (src/src/server/etag.cpp): how the server names a version   *)
(* of a resource, and how it answers a client that says which versions it  *)
(* has.  An ETag is the id of the server instance and the options c (may   *)
(* be cached) and z (is compressed); a request whose If-None-Match names   *)
(* the instance is answered with 304 before anybody looks at the content.  *)
(*                                                                         *)
(* One resource, one client, and the instances of a server that is stopped *)
(* and started again.  ETags are the same for all resources of an instance *)
(* and a client keeps what it got resource by resource, so the others      *)
(* would add nothing.                                                      *)
(***************************************************************************)
EXTENDS FiniteSets, Integers, Sequences

CONSTANTS
    Resource,    \* what the resource may be
    MaxStarts,   \* bound on the number of times the server is started
    MaxVersion,  \* bound on the number of versions of the content
    MaxTokens,   \* bound on the length of an If-None-Match header
    MaxStored,   \* bound on the number of answers a client keeps
    LiveChanges, \* the content may change while a server instance runs
    NoETag

(* needsETag: etag_not_needed(request) is false; cacheable: the handler    *)
(* calls set_cacheable; compressible: compress() makes the content smaller *)
(* and its type and size allow it; item: an entry of a ZIM file, which can *)
(* be asked for by range.                                                  *)
ResourceKind == [needsETag : BOOLEAN, cacheable : BOOLEAN,
                 compressible : BOOLEAN, item : BOOLEAN]

ASSUME ConditionalAssumption ==
    /\ Resource \subseteq ResourceKind
    /\ MaxStarts \in Nat /\ MaxVersion \in Nat /\ MaxTokens \in Nat
    /\ MaxStored \in Nat
    /\ LiveChanges \in BOOLEAN

VARIABLES
    resource,  \* the resource asked for
    content,   \* the version of its content, 0 if there is none
    server,    \* "stopped", "starting" (the daemon listens, start() has not
               \* set m_server_id yet) or "running"
    starts,    \* the number of instances so far, the last one included
    serverId,  \* m_server_id; 0 is the empty string
    request,   \* the request a thread of the daemon is at, if any
    store,     \* the answers with an ETag that the client keeps
    last       \* the last answer

conditionalVars == <<resource, content, server, starts, serverId, request, store, last>>

-----------------------------------------------------------------------------
Option == {"c", "z"}

(* An id that was read while it was being assigned is none of the ids.     *)
ServerId == (0 - MaxStarts) .. MaxStarts

ETag == [id : ServerId \ {0}, options : SUBSET Option]

(* What the parser makes of a word of the If-None-Match header: an ETag, a *)
(* word it refuses, or one it throws out_of_range on.  It refuses weak     *)
(* tags: startsWith("W/", s) asks whether "W/" starts with s, so the       *)
(* prefix stays and the word does not start with a quote.  It also takes   *)
(* tags that are separated by a comma and no space for one word, with      *)
(* options that are none.  It throws on a word that is empty, once its     *)
(* comma is off, or W, where substr(2) is beyond the end.                  *)
Refused == [kind |-> "refused", etag |-> NoETag]
Throws == [kind |-> "throws", etag |-> NoETag]
Tag(etag) == [kind |-> "tag", etag |-> etag]

Words == {Refused, Throws} \cup {Tag(answer.etag) : answer \in store}

Headers == UNION {[1 .. n -> Words] : n \in 0 .. MaxTokens}

(* Mutant: any well-formed ETag matches. *)
MatchAnyInstance(header, id) ==
    LET hits == {i \in DOMAIN header :
                    /\ header[i].kind = "tag"
                    /\ \A j \in 1 .. (i - 1) : header[j].kind = "refused"}
    IN IF hits = {} THEN NoETag ELSE header[CHOOSE i \in hits : TRUE].etag

(* ETag::match: the first ETag of this instance, unless the parser throws  *)
(* before it gets there.                                                   *)
Match(header, id) ==
    LET hits == {i \in DOMAIN header :
                    /\ header[i].kind = "tag" /\ header[i].etag.id = id
                    /\ \A j \in 1 .. (i - 1) :
                          header[j].kind = "refused"
                          \/ (header[j].kind = "tag" /\ header[j].etag.id # id)}
    IN IF hits = {} THEN NoETag ELSE header[CHOOSE i \in hits : TRUE].etag

NoRequest == [pc |-> "none", header |-> <<>>, deflate |-> FALSE, range |-> FALSE,
              status |-> 0, id |-> 0, options |-> {}, version |-> 0]

(* An answer has a status, an etag, "vary" and "cacheable" for the Vary and *)
(* Cache-Control headers, and "current", the version the resource has when *)
(* it is answered.  Of an answer that it keeps the client also has the     *)
(* version of the content and whether it was deflated.                     *)
ConditionalInit ==
    /\ resource \in Resource
    /\ content \in 0 .. MaxVersion
    /\ server = "stopped"
    /\ starts = 0
    /\ serverId = 0
    /\ request = NoRequest
    /\ store = {}
    /\ last = <<>>

-----------------------------------------------------------------------------
(* The thread that starts and stops the server.  Each instance is a new    *)
(* InternalServer, with an empty m_server_id.                              *)
StartDaemon ==
    /\ server = "stopped"
    /\ starts < MaxStarts
    /\ server' = "starting"
    /\ starts' = starts + 1
    /\ serverId' = 0
    /\ UNCHANGED <<resource, content, request, store, last>>

AssignServerId ==
    /\ server = "starting"
    /\ server' = "running"
    /\ serverId' = starts
    /\ UNCHANGED <<resource, content, starts, request, store, last>>

(* MHD_stop_daemon waits for the threads of the pool. *)
Stop ==
    /\ server = "running"
    /\ request.pc = "none"
    /\ server' = "stopped"
    /\ UNCHANGED <<resource, content, starts, serverId, request, store, last>>

(* The library that is served changes. *)
ContentChanges ==
    /\ server = "stopped" \/ LiveChanges
    /\ content' \in 0 .. MaxVersion
    /\ UNCHANGED <<resource, server, starts, serverId, request, store, last>>

-----------------------------------------------------------------------------
(* A request and its handler.                                              *)

Ask(header, deflate, range) ==
    /\ server # "stopped"
    /\ request.pc = "none"
    /\ request' = [NoRequest EXCEPT !.pc = "match", !.header = header,
                      !.deflate = deflate, !.range = range]
    /\ last' = <<>>
    /\ UNCHANGED <<resource, content, server, starts, serverId, store>>

(* What a thread of the pool may see in m_server_id, which start() assigns *)
(* while the daemon already listens: nothing, or half of it.               *)
SeenServerId == IF server = "starting" THEN {0, 0 - starts} ELSE {serverId}

HandlerAt(pc) == request.pc = pc

(* handle_request, up to build_304. *)
MatchETag ==
    /\ HandlerAt("match")
    /\ \E id \in SeenServerId :
          LET etag == Match(request.header, id) IN
          request' = IF etag = NoETag
                     THEN [request EXCEPT !.pc = "content", !.header = <<>>]
                     ELSE [request EXCEPT !.pc = "send", !.header = <<>>, !.status = 304,
                              !.id = etag.id, !.options = etag.options]
    /\ UNCHANGED <<resource, content, server, starts, serverId, store, last>>

(* The rest of handle_request; a 404 page is not made cacheable.           *)
LookupContent ==
    /\ HandlerAt("content")
    /\ request' = [request EXCEPT
                      !.pc = "identify",
                      !.status = IF content = 0 THEN 404 ELSE 200,
                      !.version = content,
                      !.options = IF content # 0 /\ resource.cacheable THEN {"c"} ELSE {}]
    /\ UNCHANGED <<resource, content, server, starts, serverId, store, last>>

(* handlerCallback calls set_server_id. *)
Identify ==
    /\ HandlerAt("identify")
    /\ \E id \in SeenServerId :
          request' = [request EXCEPT
                         !.pc = "send",
                         !.id = IF @ = 0 /\ request.status = 200 /\ resource.needsETag
                                THEN id ELSE @]
    /\ UNCHANGED <<resource, content, server, starts, serverId, store, last>>

(* A range of an item is sent as it is; other content is compressed if the *)
(* client takes deflate.                                                   *)
Partial == request.status = 200 /\ request.range /\ resource.item

Compresses ==
    /\ request.deflate
    /\ \/ request.status = 200 /\ resource.compressible /\ ~Partial
       \/ request.status = 404

(* Mutant: compression leaves no trace in the ETag. *)
OptionsWithoutZ == request.options

(* create_mhd_response sets the option z when it has compressed. *)
OptionsSent ==
    IF Compresses THEN request.options \cup {"z"} ELSE request.options

(* Vary goes with a compressed body, and with a 304 in place of one. *)
Vary == Compresses \/ (request.status = 304 /\ "z" \in request.options)

(* A client may keep an answer that has an ETag. *)
Keep(answer) ==
    \/ UNCHANGED store
    \/ /\ request.status = 200 /\ ~Partial
       /\ answer.etag # NoETag
       /\ store' = store \cup
             {[etag |-> answer.etag, vary |-> answer.vary, cacheable |-> answer.cacheable,
               version |-> request.version, deflated |-> Compresses]}
       /\ Cardinality(store') <= MaxStored

Send ==
    /\ HandlerAt("send")
    /\ last' = [status |-> IF Partial THEN 206 ELSE request.status,
                etag |-> IF request.id = 0 THEN NoETag
                         ELSE [id |-> request.id, options |-> OptionsSent],
                vary |-> Vary, cacheable |-> "c" \in request.options,
                current |-> content]
    /\ Keep(last')
    /\ request' = NoRequest
    /\ UNCHANGED <<resource, content, server, starts, serverId>>

ConditionalNext ==
    \/ StartDaemon \/ AssignServerId \/ Stop \/ ContentChanges
    \/ \E header \in Headers, deflate, range \in BOOLEAN : Ask(header, deflate, range)
    \/ MatchETag \/ LookupContent \/ Identify \/ Send

ConditionalSpec == ConditionalInit /\ [][ConditionalNext]_conditionalVars

-----------------------------------------------------------------------------
(* Properties.                                                             *)

Revalidated == last # <<>> /\ last.status = 304

Matching == {a \in store : a.etag = last.etag}

(* A 304 is only sent for content that is still what the client has, for   *)
(* all the server knows of the content is when the instance started:       *)
(* whatever ETags of earlier instances and half-read ids the client sends, *)
(* and whether or not the content changed while the server was down.       *)
NotModifiedIsCurrent ==
    Revalidated => \A a \in Matching : a.version = last.current

(* special304Headers in test/server.cpp:358: the 304 repeats the Vary, the *)
(* Cache-Control and the ETag of the answer it stands for, although it is  *)
(* made without a look at the resource.                                    *)
NotModifiedRepeatsHeaders ==
    Revalidated => \E a \in Matching : a.vary = last.vary /\ a.cacheable = last.cacheable

(* A client that is told to use what it has, has it: its content is the    *)
(* present one, and its headers are those it has just been sent.           *)
NotModifiedMeansTheSame == NotModifiedIsCurrent /\ NotModifiedRepeatsHeaders

(* Two answers with one ETag have one body: the ETag tells instances from  *)
(* each other, and the compressed body from the plain one.                 *)
ValidatorsAreStrong ==
    \A a, b \in store :
        a.etag = b.etag => a.version = b.version /\ a.deflated = b.deflated

=============================================================================
