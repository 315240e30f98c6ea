------------------------------ MODULE HttpProofs -------------------------------
(***************************************************************************)
(* What goes over the wire and where it leads: conditional requests, the   *)
(* bytes of an item, the links to the entries of a book; and the paths by  *)
(* which the library file finds the books.  The four modules have nothing  *)
(* to do with each other; the proofs about links and paths share what they *)
(* say about sequences.                                                    *)
(***************************************************************************)
EXTENDS ConditionalRequests, EntryLinks, ItemStream, Paths, FoldTheorems, TLAPS

-----------------------------------------------------------------------------
(***************************************************************************)
(* What an ETag promises, for any number of starts of the server, versions *)
(* of the content, words in a header and answers that a client keeps.      *)
(***************************************************************************)

Kept == [etag : ETag, vary : BOOLEAN, cacheable : BOOLEAN, version : 0 .. MaxVersion,
         deflated : BOOLEAN]

Word == [kind : {"refused", "throws", "tag"}, etag : ETag \cup {NoETag}]

WordLists == UNION {[1 .. n -> Word] : n \in 0 .. MaxTokens}

Stages == {"none", "match", "content", "identify", "send"}
Statuses == {0, 200, 304, 404}
OptionSets == SUBSET Option
Versions == 0 .. MaxVersion

Requests == [pc : Stages, header : WordLists, deflate : BOOLEAN, range : BOOLEAN,
             status : Statuses, id : ServerId, options : OptionSets, version : Versions]

ConditionalTypeOK ==
    /\ resource \in Resource /\ content \in 0 .. MaxVersion
    /\ server \in {"stopped", "starting", "running"}
    /\ starts \in 0 .. MaxStarts /\ serverId \in {0, starts}
    /\ server # "stopped" => starts > 0
    /\ request \in Requests
    /\ store \subseteq Kept

(* The ids that are the present instance's, whole or half read. *)
Present(id) == id \in {starts, 0 - starts}

(* What an ETag says of the answer that has it; and of the content, as     *)
(* long as the instance runs that made it.                                 *)
TagsTell ==
    \A a \in store :
        /\ a.etag.id \in (0 - starts) .. starts
        /\ a.vary = a.deflated
        /\ a.deflated <=> "z" \in a.etag.options
        /\ a.cacheable <=> "c" \in a.etag.options
        /\ Present(a.etag.id) /\ server # "stopped" => a.version = content

OneVersion == \A a, b \in store : a.etag.id = b.etag.id => a.version = b.version

(* A handler belongs to the running instance; it has looked at the content *)
(* that is still there, or has found one of the client's tags, and         *)
(* compression has not been told yet.                                      *)
HandlerKnows ==
    /\ request.pc # "none" => server # "stopped" /\ last = <<>>
    /\ request.pc = "match" =>
        \A i \in DOMAIN request.header : request.header[i].kind = "tag" =>
            \E a \in store : a.etag = request.header[i].etag
    /\ request.pc \in {"match", "content"} => request.id = 0 /\ request.status = 0
    /\ request.pc \in {"identify", "send"} /\ request.status = 200 =>
        /\ request.version = content
        /\ "z" \notin request.options
    /\ request.pc = "identify" => request.status \in {200, 404} /\ request.id = 0
    /\ request.pc = "send" /\ request.status = 200 => request.id = 0 \/ Present(request.id)
    /\ request.pc = "send" /\ request.status = 304 =>
        /\ Present(request.id)
        /\ \E a \in store : a.etag = [id |-> request.id, options |-> request.options]

ConditionalInv ==
    /\ ConditionalTypeOK /\ TagsTell /\ OneVersion /\ HandlerKnows
    /\ NotModifiedMeansTheSame

-----------------------------------------------------------------------------

(* ETag::match answers with a tag of the header that has the id.           *)
LEMMA MatchIsInTheHeader ==
    ASSUME NEW words, NEW id, Match(words, id) # NoETag
    PROVE  \E i \in DOMAIN words :
               /\ words[i].kind = "tag" /\ words[i].etag.id = id
               /\ Match(words, id) = words[i].etag
<1> DEFINE hits == {i \in DOMAIN words :
                /\ words[i].kind = "tag" /\ words[i].etag.id = id
                /\ \A j \in 1 .. (i - 1) :
                      words[j].kind = "refused"
                      \/ (words[j].kind = "tag" /\ words[j].etag.id # id)}
<1>1. hits # {} /\ Match(words, id) = words[CHOOSE i \in hits : TRUE].etag
    BY DEF Match
<1>2. (CHOOSE i \in hits : TRUE) \in hits
    BY <1>1
<1> QED BY <1>1, <1>2

(* What the words of a header are made of.                                 *)
LEMMA HeadersAreWords ==
    ASSUME store \subseteq Kept, NEW words \in Headers
    PROVE  /\ words \in WordLists
           /\ \A i \in DOMAIN words : words[i].kind = "tag" =>
                \E a \in store : a.etag = words[i].etag
<1>1. PICK n \in 0 .. MaxTokens : words \in [1 .. n -> Words]
    BY DEF Headers
<1>2. Words \subseteq Word
    BY DEF Words, Word, Refused, Throws, Tag, Kept
<1>3. \A w \in Words : w.kind = "tag" => \E a \in store : a.etag = w.etag
    BY DEF Words, Refused, Throws, Tag
<1> QED BY <1>1, <1>2, <1>3 DEF WordLists

LEMMA EmptyHeader == <<>> \in WordLists
<1>1. <<>> \in [1 .. 0 -> Word] /\ 0 \in 0 .. MaxTokens
    BY ConditionalAssumption
<1> QED BY <1>1 DEF WordLists

LEMMA NoRequestIsOne == NoRequest \in Requests
BY EmptyHeader, ConditionalAssumption
   DEF NoRequest, Requests, ServerId, Stages, Statuses, OptionSets, Versions

LEMMA SeenIds ==
    ASSUME ConditionalTypeOK, server # "stopped", NEW id \in SeenServerId
    PROVE  id \in ServerId /\ (id = 0 \/ Present(id))
BY ConditionalAssumption DEF ConditionalTypeOK, SeenServerId, ServerId, Present

(* The last answer and what the client keeps are looked at together.       *)
LEMMA AnswersStay ==
    ASSUME ConditionalInv, UNCHANGED <<store, last>> PROVE NotModifiedMeansTheSame'
BY DEF ConditionalInv, NotModifiedMeansTheSame, NotModifiedIsCurrent,
       NotModifiedRepeatsHeaders, Revalidated, Matching

LEMMA NothingAnswered ==
    ASSUME last' = <<>> PROVE NotModifiedMeansTheSame'
BY DEF NotModifiedMeansTheSame, NotModifiedIsCurrent, NotModifiedRepeatsHeaders, Revalidated

-----------------------------------------------------------------------------

(* The server is started and stopped; what it serves changes while it is   *)
(* stopped.                                                                *)
LEMMA StartKeeps ==
    ASSUME ConditionalInv, StartDaemon PROVE ConditionalInv'
<1>1. /\ server = "stopped" /\ starts < MaxStarts /\ server' = "starting"
      /\ starts' = starts + 1 /\ serverId' = 0
      /\ UNCHANGED <<resource, content, request, store, last>>
    BY DEF StartDaemon
<1>2. ConditionalTypeOK'
    BY <1>1, ConditionalAssumption DEF ConditionalInv, ConditionalTypeOK
<1>3. request.pc = "none"
    BY <1>1 DEF ConditionalInv, HandlerKnows
<1>4. HandlerKnows'
    BY <1>1, <1>3 DEF HandlerKnows
<1>5. TagsTell'
  <2> SUFFICES ASSUME NEW a \in store
               PROVE  /\ a.etag.id \in (0 - starts') .. starts' /\ ~Present(a.etag.id)'
                      /\ a.vary = a.deflated
                      /\ a.deflated <=> "z" \in a.etag.options
                      /\ a.cacheable <=> "c" \in a.etag.options
      BY <1>1 DEF TagsTell
  <2>1. a.etag.id \in (0 - starts) .. starts /\ starts \in Nat
      BY DEF ConditionalInv, TagsTell, ConditionalTypeOK
  <2>2. a.etag.id \in (0 - starts') .. starts' /\ ~Present(a.etag.id)'
      BY <1>1, <2>1 DEF Present
  <2> QED BY <2>2 DEF ConditionalInv, TagsTell
<1> QED BY <1>1, <1>2, <1>4, <1>5, AnswersStay DEF ConditionalInv, OneVersion

LEMMA ServerKeeps ==
    ASSUME ConditionalInv, AssignServerId \/ Stop PROVE ConditionalInv'
<1>1. UNCHANGED <<resource, content, starts, request, store, last>>
    BY DEF AssignServerId, Stop
<1>2. ConditionalTypeOK'
    BY <1>1 DEF ConditionalInv, ConditionalTypeOK, AssignServerId, Stop
<1>3. HandlerKnows'
    BY <1>1 DEF ConditionalInv, HandlerKnows, AssignServerId, Stop, Present
<1>4. TagsTell'
    BY <1>1 DEF ConditionalInv, TagsTell, AssignServerId, Stop, Present
<1> QED BY <1>1, <1>2, <1>3, <1>4, AnswersStay DEF ConditionalInv, OneVersion

LEMMA ContentKeeps ==
    ASSUME ConditionalInv, ~LiveChanges, ContentChanges PROVE ConditionalInv'
<1>1. /\ server = "stopped" /\ content' \in 0 .. MaxVersion
      /\ UNCHANGED <<resource, server, starts, serverId, request, store, last>>
    BY DEF ContentChanges
<1>2. request.pc = "none"
    BY <1>1 DEF ConditionalInv, HandlerKnows
<1>3. HandlerKnows'
    BY <1>1, <1>2 DEF HandlerKnows
<1>4. ConditionalTypeOK' /\ TagsTell'
    BY <1>1 DEF ConditionalInv, ConditionalTypeOK, TagsTell, Present
<1> QED BY <1>1, <1>3, <1>4, AnswersStay DEF ConditionalInv, OneVersion

-----------------------------------------------------------------------------

(* The steps of a request, up to the answer.                               *)
LEMMA AskKeeps ==
    ASSUME ConditionalInv, NEW words \in Headers, NEW deflate \in BOOLEAN,
           NEW range \in BOOLEAN, Ask(words, deflate, range)
    PROVE  ConditionalInv'
<1>1. /\ server # "stopped" /\ last' = <<>>
      /\ request' = [NoRequest EXCEPT !.pc = "match", !.header = words,
                                      !.deflate = deflate, !.range = range]
      /\ UNCHANGED <<resource, content, server, starts, serverId, store>>
    BY DEF Ask
<1>2. /\ words \in WordLists
      /\ \A i \in DOMAIN words : words[i].kind = "tag" =>
            \E a \in store : a.etag = words[i].etag
    BY HeadersAreWords DEF ConditionalInv, ConditionalTypeOK
<1>3. /\ request'.pc = "match" /\ request'.header = words /\ request'.id = 0
      /\ request'.status = 0 /\ request' \in Requests
  <2>1. "match" \in Stages
      BY DEF Stages
  <2>2. request' \in Requests
      BY <1>1, <1>2, <2>1, NoRequestIsOne DEF Requests
  <2>3. /\ request'.pc = "match" /\ request'.header = words /\ request'.id = NoRequest.id
        /\ request'.status = NoRequest.status
      BY <1>1, NoRequestIsOne DEF Requests
  <2> QED BY <2>2, <2>3 DEF NoRequest
<1>4. ConditionalTypeOK'
    BY <1>1, <1>3 DEF ConditionalInv, ConditionalTypeOK
<1>5. HandlerKnows'
    BY <1>1, <1>2, <1>3 DEF HandlerKnows
<1>6. TagsTell' /\ OneVersion'
    BY <1>1 DEF ConditionalInv, TagsTell, OneVersion, Present
<1> QED BY <1>1, <1>4, <1>5, <1>6, NothingAnswered DEF ConditionalInv

LEMMA MatchKeeps ==
    ASSUME ConditionalInv, MatchETag PROVE ConditionalInv'
<1>1. /\ request.pc = "match" /\ request \in Requests /\ server # "stopped" /\ last = <<>>
      /\ request.id = 0 /\ request.status = 0
      /\ UNCHANGED <<resource, content, server, starts, serverId, store, last>>
    BY DEF MatchETag, HandlerAt, ConditionalInv, ConditionalTypeOK, HandlerKnows
<1>2. PICK id \in SeenServerId :
          request' = IF Match(request.header, id) = NoETag
                     THEN [request EXCEPT !.pc = "content", !.header = <<>>]
                     ELSE [request EXCEPT !.pc = "send", !.header = <<>>, !.status = 304,
                              !.id = Match(request.header, id).id,
                              !.options = Match(request.header, id).options]
    BY DEF MatchETag
<1>3. TagsTell' /\ OneVersion' /\ NotModifiedMeansTheSame'
    BY <1>1, AnswersStay DEF ConditionalInv, TagsTell, OneVersion, Present
<1>4. CASE Match(request.header, id) = NoETag
  <2>1. request' = [request EXCEPT !.pc = "content", !.header = <<>>]
      BY <1>2, <1>4
  <2>2. /\ request' \in Requests /\ request'.pc = "content"
        /\ request'.id = 0 /\ request'.status = 0
      BY <1>1, <2>1, EmptyHeader DEF Requests, Stages
  <2>3. ConditionalTypeOK'
      BY <1>1, <2>2 DEF ConditionalInv, ConditionalTypeOK
  <2>4. HandlerKnows'
      BY <1>1, <2>2 DEF HandlerKnows
  <2> QED BY <1>3, <2>3, <2>4 DEF ConditionalInv
<1>5. CASE Match(request.header, id) # NoETag
  <2> DEFINE etag == Match(request.header, id)
  <2>1. PICK i \in DOMAIN request.header :
            request.header[i].kind = "tag" /\ request.header[i].etag.id = id
            /\ etag = request.header[i].etag
      BY <1>5, MatchIsInTheHeader
  <2>2. PICK a \in store : a.etag = etag
      BY <1>1, <2>1 DEF ConditionalInv, HandlerKnows
  <2>3. etag \in ETag /\ etag.id = id
      BY <2>1, <2>2 DEF ConditionalInv, ConditionalTypeOK, Kept
  <2>4. request' = [request EXCEPT !.pc = "send", !.header = <<>>, !.status = 304,
                              !.id = etag.id, !.options = etag.options]
      BY <1>2, <1>5
  <2> HIDE DEF etag
  <2>5. etag.id \in ServerId /\ etag.id # 0 /\ etag.options \in SUBSET Option
        /\ etag = [id |-> etag.id, options |-> etag.options]
      BY <2>3 DEF ETag
  <2>6. Present(etag.id)
      BY <1>1, <2>3, <2>5, SeenIds DEF ConditionalInv
  <2>7. /\ request' \in Requests /\ request'.pc = "send" /\ request'.status = 304
        /\ request'.id = etag.id /\ request'.options = etag.options
    <3>1. "send" \in Stages /\ 304 \in Statuses /\ etag.options \in OptionSets
        BY <2>5 DEF Stages, Statuses, OptionSets
    <3>2. request \in Requests
        BY <1>1
    <3>3. request' \in Requests
      <4>1. ASSUME NEW r \in Requests
            PROVE  [r EXCEPT !.pc = "send", !.header = <<>>] \in Requests
          BY <3>1, EmptyHeader DEF Requests
      <4>2. ASSUME NEW r \in Requests
            PROVE  [r EXCEPT !.status = 304] \in Requests
          BY <3>1 DEF Requests
      <4>3. ASSUME NEW r \in Requests
            PROVE  [r EXCEPT !.id = etag.id] \in Requests
          BY <2>5 DEF Requests
      <4>4. ASSUME NEW r \in Requests
            PROVE  [r EXCEPT !.options = etag.options] \in Requests
          BY <3>1 DEF Requests
      <4>5. [request EXCEPT !.pc = "send", !.header = <<>>, !.status = 304] \in Requests
          BY <3>2, <4>1, <4>2, Zenon
      <4>6. [request EXCEPT !.pc = "send", !.header = <<>>, !.status = 304, !.id = etag.id]
              \in Requests
          BY <4>3, <4>5, Zenon
      <4> QED BY <2>4, <4>4, <4>6, Zenon
    <3>4. /\ request'.pc = "send" /\ request'.status = 304
          /\ request'.id = etag.id /\ request'.options = etag.options
        BY <2>4, <3>2 DEF Requests
    <3> QED BY <3>3, <3>4
  <2>8. ConditionalTypeOK'
      BY <1>1, <2>7 DEF ConditionalInv, ConditionalTypeOK
  <2>9. HandlerKnows'
    <3>1. Present(request.id)'
        BY <1>1, <2>6, <2>7 DEF Present
    <3>2. \E b \in store' : b.etag = [id |-> request'.id, options |-> request'.options]
        BY <1>1, <2>2, <2>5, <2>7
    <3> QED BY <1>1, <2>7, <3>1, <3>2 DEF HandlerKnows
  <2> QED BY <1>3, <2>8, <2>9 DEF ConditionalInv
<1> QED BY <1>4, <1>5

LEMMA LookupKeeps ==
    ASSUME ConditionalInv, LookupContent PROVE ConditionalInv'
<1>1. /\ request.pc = "content" /\ request \in Requests /\ server # "stopped" /\ last = <<>>
      /\ request.id = 0 /\ content \in 0 .. MaxVersion
      /\ UNCHANGED <<resource, content, server, starts, serverId, store, last>>
    BY DEF LookupContent, HandlerAt, ConditionalInv, ConditionalTypeOK, HandlerKnows
<1>2. request' = [request EXCEPT
                      !.pc = "identify",
                      !.status = IF content = 0 THEN 404 ELSE 200,
                      !.version = content,
                      !.options = IF content # 0 /\ resource.cacheable THEN {"c"} ELSE {}]
    BY DEF LookupContent
<1>3. /\ request' \in Requests /\ request'.pc = "identify" /\ request'.status \in {200, 404}
      /\ request'.id = 0 /\ request'.version = content /\ "z" \notin request'.options
  <2> DEFINE status == IF content = 0 THEN 404 ELSE 200
             options == IF content # 0 /\ resource.cacheable THEN {"c"} ELSE {}
  <2>1. /\ "identify" \in Stages /\ status \in {200, 404} \cap Statuses
        /\ options \in OptionSets /\ "z" \notin options /\ content \in Versions
      BY <1>1 DEF Stages, Statuses, OptionSets, Versions, Option
  <2>2. request' = [request EXCEPT !.pc = "identify", !.status = status, !.version = content,
                                   !.options = options]
      BY <1>2
  <2> HIDE DEF status, options
  <2>3. request \in Requests
      BY <1>1
  <2>4. request' \in Requests
      BY <2>1, <2>2, <2>3 DEF Requests
  <2>5. /\ request'.pc = "identify" /\ request'.status = status /\ request'.id = request.id
        /\ request'.version = content /\ request'.options = options
      BY <2>2, <2>3 DEF Requests
  <2> QED BY <1>1, <2>1, <2>4, <2>5
<1>4. ConditionalTypeOK'
    BY <1>1, <1>3 DEF ConditionalInv, ConditionalTypeOK
<1>5. HandlerKnows'
    BY <1>1, <1>3 DEF HandlerKnows
<1>6. TagsTell' /\ OneVersion'
    BY <1>1 DEF ConditionalInv, TagsTell, OneVersion, Present
<1> QED BY <1>1, <1>4, <1>5, <1>6, AnswersStay DEF ConditionalInv

LEMMA IdentifyKeeps ==
    ASSUME ConditionalInv, Identify PROVE ConditionalInv'
<1>1. /\ request.pc = "identify" /\ request \in Requests /\ server # "stopped" /\ last = <<>>
      /\ request.id = 0 /\ request.status \in {200, 404}
      /\ request.status = 200 => request.version = content /\ "z" \notin request.options
      /\ UNCHANGED <<resource, content, server, starts, serverId, store, last>>
    BY DEF Identify, HandlerAt, ConditionalInv, ConditionalTypeOK, HandlerKnows
<1>2. PICK id \in SeenServerId :
          request' = [request EXCEPT
                         !.pc = "send",
                         !.id = IF @ = 0 /\ request.status = 200 /\ resource.needsETag
                                THEN id ELSE @]
    BY DEF Identify
<1>3. id \in ServerId /\ (id = 0 \/ Present(id)) /\ 0 \in ServerId
    BY <1>1, SeenIds, ConditionalAssumption DEF ConditionalInv, ServerId
<1>4. /\ request' \in Requests /\ request'.pc = "send" /\ request'.id \in {0, id}
      /\ UNCHANGED <<request.status, request.version, request.options>>
  <2> DEFINE newId == IF request.id = 0 /\ request.status = 200 /\ resource.needsETag
                      THEN id ELSE request.id
  <2>1. "send" \in Stages /\ newId \in {0, id} /\ newId \in ServerId
      BY <1>1, <1>3 DEF Stages
  <2>2. request' = [request EXCEPT !.pc = "send", !.id = newId]
      BY <1>1, <1>2 DEF Requests
  <2> HIDE DEF newId
  <2>3. request \in Requests
      BY <1>1
  <2>4. request' \in Requests
      BY <2>1, <2>2, <2>3 DEF Requests
  <2>5. /\ request'.pc = "send" /\ request'.id = newId
        /\ UNCHANGED <<request.status, request.version, request.options>>
      BY <2>2, <2>3 DEF Requests
  <2> QED BY <2>1, <2>4, <2>5
<1>5. ConditionalTypeOK'
    BY <1>1, <1>4 DEF ConditionalInv, ConditionalTypeOK
<1>6. HandlerKnows'
    BY <1>1, <1>3, <1>4 DEF HandlerKnows, Present
<1>7. TagsTell' /\ OneVersion'
    BY <1>1 DEF ConditionalInv, TagsTell, OneVersion, Present
<1> QED BY <1>1, <1>5, <1>6, <1>7, AnswersStay DEF ConditionalInv

(* An answer that is sent, and kept or not.                                *)
LEMMA SendKeeps ==
    ASSUME ConditionalInv, Send PROVE ConditionalInv'
<1> DEFINE etag == [id |-> request.id, options |-> OptionsSent]
           sent == [etag |-> etag, vary |-> Vary, cacheable |-> "c" \in request.options,
                      version |-> request.version, deflated |-> Compresses]
<1>1. /\ request.pc = "send" /\ request \in Requests /\ server # "stopped" /\ starts > 0
      /\ starts \in Nat /\ content \in 0 .. MaxVersion /\ store \subseteq Kept
      /\ request' = NoRequest
      /\ UNCHANGED <<resource, content, server, starts, serverId>>
    BY DEF Send, HandlerAt, ConditionalInv, ConditionalTypeOK, HandlerKnows
<1>2. /\ last'.status = (IF Partial THEN 206 ELSE request.status)
      /\ last'.etag = (IF request.id = 0 THEN NoETag ELSE etag)
      /\ last'.vary = Vary /\ last'.cacheable = ("c" \in request.options)
      /\ last'.current = content
    BY DEF Send
<1>3. request.id \in ServerId /\ request.options \subseteq Option
    BY <1>1 DEF Requests, OptionSets
<1>4. HandlerKnows'
    BY <1>1 DEF HandlerKnows, NoRequest
<1>5. CASE store' = store
  <2>1. ConditionalTypeOK' /\ TagsTell' /\ OneVersion'
      BY <1>1, <1>5, NoRequestIsOne
      DEF ConditionalInv, ConditionalTypeOK, TagsTell, OneVersion, Present
  <2>2. ASSUME last'.status = 304
        PROVE  /\ \A a \in store : a.etag = last'.etag => a.version = last'.current
               /\ \E a \in store : /\ a.etag = last'.etag
                                   /\ a.vary = last'.vary /\ a.cacheable = last'.cacheable
    <3>1. request.status = 304
        BY <1>2, <2>2
    <3>2. Present(request.id) /\ request.id # 0
        BY <1>1, <3>1 DEF ConditionalInv, HandlerKnows, Present
    <3>3. OptionsSent = request.options /\ Vary = ("z" \in request.options)
        BY <3>1 DEF OptionsSent, Compresses, Vary
    <3>4. PICK a \in store : a.etag = etag
        BY <1>1, <3>1, <3>3 DEF ConditionalInv, HandlerKnows
    <3>5. last'.etag = etag
        BY <1>2, <3>2
    <3>6. /\ a.vary = a.deflated
          /\ a.deflated <=> "z" \in a.etag.options
          /\ a.cacheable <=> "c" \in a.etag.options
          /\ a.vary \in BOOLEAN /\ a.cacheable \in BOOLEAN
        BY <1>1 DEF ConditionalInv, TagsTell, Kept
    <3>7. a.vary = last'.vary /\ a.cacheable = last'.cacheable
      <4>1. (a.vary <=> "z" \in request.options) /\ (a.cacheable <=> "c" \in request.options)
        <5>1. a.etag.options = request.options
            BY <3>3, <3>4
        <5> QED BY <3>6, <5>1
      <4>2. last'.vary = ("z" \in request.options) /\ last'.cacheable = ("c" \in request.options)
          BY <1>2, <3>3
      <4>3. a.vary = ("z" \in request.options)
          BY <3>6, <4>1
      <4>4. a.cacheable = ("c" \in request.options)
          BY <3>6, <4>1
      <4> QED BY <4>2, <4>3, <4>4
    <3>8. ASSUME NEW b \in store, b.etag = etag PROVE b.version = content
        BY <1>1, <3>2, <3>8 DEF ConditionalInv, TagsTell
    <3> QED BY <1>2, <3>4, <3>5, <3>7, <3>8
  <2>3. NotModifiedMeansTheSame'
      BY <1>5, <2>2 DEF NotModifiedMeansTheSame, NotModifiedIsCurrent,
                        NotModifiedRepeatsHeaders, Revalidated, Matching
  <2> QED BY <1>4, <2>1, <2>3 DEF ConditionalInv
<1>6. CASE /\ request.status = 200 /\ request.id # 0 /\ ~Partial
           /\ store' = store \cup {sent}
  <2>1. Present(request.id) /\ request.version = content /\ "z" \notin request.options
      BY <1>1, <1>6 DEF ConditionalInv, HandlerKnows
  <2>2. /\ Vary = Compresses /\ Compresses \in BOOLEAN
        /\ "z" \in OptionsSent <=> Compresses
        /\ "c" \in OptionsSent <=> "c" \in request.options
        /\ OptionsSent \subseteq Option
    <3>1. /\ "z" \in OptionsSent <=> Compresses
          /\ "c" \in OptionsSent <=> "c" \in request.options
          /\ OptionsSent \subseteq Option
        BY <1>3, <2>1 DEF OptionsSent, Option
    <3>2. Vary = Compresses /\ Compresses \in BOOLEAN
      <4>1. Compresses \in BOOLEAN /\ Vary \in BOOLEAN
          BY Zenon DEF Vary, Compresses
      <4>2. Vary <=> Compresses
          BY <1>6 DEF Vary
      <4> QED BY <4>1, <4>2, Zenon
    <3> QED BY <3>1, <3>2
  <2>3. etag \in ETag
      BY <1>3, <1>6, <2>2 DEF ETag
  <2>4. sent \in Kept
    <3> HIDE DEF etag
    <3> QED BY <1>1, <2>1, <2>2, <2>3 DEF Kept
  <2>5. /\ sent.etag.id = request.id /\ sent.version = content
        /\ sent.vary = sent.deflated
        /\ sent.deflated <=> "z" \in sent.etag.options
        /\ sent.cacheable <=> "c" \in sent.etag.options
      BY <2>1, <2>2
  <2> HIDE DEF sent
  <2>6. ConditionalTypeOK'
      BY <1>1, <1>6, <2>4, NoRequestIsOne DEF ConditionalInv, ConditionalTypeOK
  <2>7. TagsTell'
    <3>1. request.id \in (0 - starts) .. starts
        BY <1>1, <2>1 DEF Present
    <3>2. ASSUME NEW a \in store'
          PROVE  /\ a.etag.id \in (0 - starts) .. starts
                 /\ a.vary = a.deflated
                 /\ a.deflated <=> "z" \in a.etag.options
                 /\ a.cacheable <=> "c" \in a.etag.options
                 /\ Present(a.etag.id) => a.version = content
      <4>1. CASE a \in store
          BY <1>1, <4>1 DEF ConditionalInv, TagsTell
      <4>2. CASE a = sent
          BY <2>5, <3>1, <4>2
      <4> QED BY <1>6, <4>1, <4>2
    <3> QED BY <1>1, <3>2 DEF TagsTell, Present
  <2>8. OneVersion'
    <3>1. ASSUME NEW a \in store, a.etag.id = request.id PROVE a.version = content
        BY <1>1, <2>1, <3>1 DEF ConditionalInv, TagsTell
    <3> QED BY <1>6, <2>5, <3>1 DEF ConditionalInv, OneVersion
  <2>9. NotModifiedMeansTheSame'
    <3>1. last'.status # 304
        BY <1>2, <1>6
    <3> QED BY <3>1 DEF NotModifiedMeansTheSame, NotModifiedIsCurrent,
                        NotModifiedRepeatsHeaders, Revalidated
  <2> QED BY <1>4, <2>6, <2>7, <2>8, <2>9 DEF ConditionalInv
<1>7. store' = store \/ (request.status = 200 /\ request.id # 0 /\ ~Partial
                         /\ store' = store \cup {sent})
  <2>1. Keep(last')
      BY DEF Send
  <2>2. request.id = 0 => last'.etag = NoETag
      BY <1>2
  <2>3. request.id # 0 => last'.etag = etag
      BY <1>2
  <2> QED BY <1>2, <2>1, <2>2, <2>3 DEF Keep
<1> QED BY <1>5, <1>6, <1>7

-----------------------------------------------------------------------------

(* Every step of the server and of the client keeps the invariant.         *)
LEMMA NextKeepsInv ==
    ASSUME ConditionalInv, ~LiveChanges, [ConditionalNext]_conditionalVars
    PROVE  ConditionalInv'
<1>1. CASE StartDaemon \/ AssignServerId \/ Stop \/ ContentChanges
    BY <1>1, StartKeeps, ServerKeeps, ContentKeeps
<1>2. ASSUME NEW words \in Headers, NEW deflate \in BOOLEAN, NEW range \in BOOLEAN,
             Ask(words, deflate, range)
      PROVE  ConditionalInv'
    BY <1>2, AskKeeps
<1>3. CASE MatchETag \/ LookupContent \/ Identify \/ Send
    BY <1>3, MatchKeeps, LookupKeeps, IdentifyKeeps, SendKeeps
<1>4. CASE UNCHANGED conditionalVars
  <2>1. /\ UNCHANGED <<resource, content, server, starts, serverId, request>>
        /\ UNCHANGED <<store, last>>
      BY <1>4 DEF conditionalVars
  <2>2. ConditionalTypeOK' /\ TagsTell' /\ OneVersion'
      BY <2>1 DEF ConditionalInv, ConditionalTypeOK, TagsTell, OneVersion, Present
  <2>3. HandlerKnows'
      BY <2>1 DEF ConditionalInv, HandlerKnows, Present
  <2> QED BY <2>1, <2>2, <2>3, AnswersStay DEF ConditionalInv
<1> QED BY <1>1, <1>2, <1>3, <1>4 DEF ConditionalNext

(* The invariant holds in every reachable state, if the content does not   *)
(* change while an instance runs.                                          *)
THEOREM ConditionalInvariant == ~LiveChanges => (ConditionalSpec => []ConditionalInv)
<1> SUFFICES ASSUME ~LiveChanges PROVE ConditionalSpec => []ConditionalInv
    OBVIOUS
<1>1. ConditionalInit => ConditionalInv
  <2> SUFFICES ASSUME ConditionalInit PROVE ConditionalInv
      OBVIOUS
  <2>1. /\ resource \in Resource /\ content \in 0 .. MaxVersion /\ server = "stopped"
        /\ starts = 0 /\ serverId = 0 /\ request = NoRequest /\ store = {} /\ last = <<>>
      BY DEF ConditionalInit
  <2>2. ConditionalTypeOK
      BY <2>1, NoRequestIsOne, ConditionalAssumption DEF ConditionalTypeOK
  <2> QED BY <2>1, <2>2
          DEF ConditionalInv, TagsTell, OneVersion, HandlerKnows, NoRequest,
              NotModifiedMeansTheSame, NotModifiedIsCurrent, NotModifiedRepeatsHeaders,
              Revalidated
<1>2. ConditionalInv /\ [ConditionalNext]_conditionalVars => ConditionalInv'
    BY NextKeepsInv
<1> QED BY <1>1, <1>2, PTL DEF ConditionalSpec

(* build_304: a client that is told to use what it has, has it, with the   *)
(* headers that it has just been sent.                                     *)
THEOREM NotModifiedCorrect == ~LiveChanges => (ConditionalSpec => []NotModifiedMeansTheSame)
<1> SUFFICES ASSUME ~LiveChanges PROVE ConditionalSpec => []NotModifiedMeansTheSame
    OBVIOUS
<1>1. ConditionalInv => NotModifiedMeansTheSame
    BY DEF ConditionalInv
<1> QED BY <1>1, ConditionalInvariant, PTL

(* ETag: answers with one ETag have one body.                              *)
THEOREM ValidatorsCorrect == ~LiveChanges => (ConditionalSpec => []ValidatorsAreStrong)
<1> SUFFICES ASSUME ~LiveChanges PROVE ConditionalSpec => []ValidatorsAreStrong
    OBVIOUS
<1>1. ConditionalInv => ValidatorsAreStrong
    BY DEF ConditionalInv, TagsTell, OneVersion, ValidatorsAreStrong, ConditionalTypeOK, Kept
<1> QED BY <1>1, ConditionalInvariant, PTL

-----------------------------------------------------------------------------
(***************************************************************************)
(* Proofs about ItemStream, for integers of every width, items of every    *)
(* size and blocks of every length.                                        *)
(***************************************************************************)

(* A number below the modulus is its own remainder. *)
LEMMA ModSmall ==
    ASSUME NEW m \in Nat, NEW n \in Nat, n < m
    PROVE  n % m = n
    OBVIOUS

(* A position that an int can number goes through the int unharmed. *)
LEMMA ToIntSmall ==
    ASSUME NEW n \in 0 .. IntMax
    PROVE  ToInt(n) = n
<1>1. n + IntMax + 1 \in Nat /\ 2 * (IntMax + 1) \in Nat
      /\ n + IntMax + 1 < 2 * (IntMax + 1)
    BY WidthAssumption
<1>2. (n + IntMax + 1) % (2 * (IntMax + 1)) = n + IntMax + 1
    BY <1>1, ModSmall
<1> QED BY <1>2, WidthAssumption DEF ToInt

(* A non-negative number below INT64_MAX is kept by the arithmetic of      *)
(* uint64_t.                                                               *)
LEMMA ToUInt64Small ==
    ASSUME NEW n \in 0 .. Int64Max
    PROVE  ToUInt64(n) = n
<1>1. n \in Nat /\ 2 * (Int64Max + 1) \in Nat /\ n < 2 * (Int64Max + 1)
    BY WidthAssumption
<1> QED BY <1>1, ModSmall DEF ToUInt64

(* What resolve() makes of what parse() makes of a header. *)
Resolved(h, s, r) ==
    \/ /\ r.kind = "RESOLVED_FULL_CONTENT"
       /\ h = NoRange
       /\ r.first = 0 /\ r.last = s - 1
    \/ /\ r.kind = "RESOLVED_PARTIAL_CONTENT"
       /\ h # NoRange
       /\ r.first \in 0 .. s - 1 /\ r.last \in r.first .. s - 1
    \/ /\ r.kind = "RESOLVED_UNSATISFIABLE"
       /\ h # NoRange
       /\ r.first = 0 /\ r.last = s - 1

LEMMA ResolveCorrect ==
    ASSUME NEW h \in RangeHeader \cup {NoRange}, NEW s \in 0 .. MaxSize
    PROVE  LET r == Resolve(Parse(h), s) IN
           /\ Resolved(h, s, r)
           /\ r = ByteRange(r.kind, r.first, r.last)
           /\ r.kind # "RESOLVED_UNSATISFIABLE" => r.first .. r.last = Asked(h, s)
           /\ r.kind = "RESOLVED_UNSATISFIABLE" => Asked(h, s) = {}
<1> USE WidthAssumption DEF ByteRange, Smaller, Greater, Resolved
<1>1. CASE h = NoRange
  <2>1. Parse(h) = ByteRange("NONE", 0, Int64Max)
      BY <1>1 DEF Parse
  <2>2. Asked(h, s) = 0 .. s - 1
      BY <1>1 DEF Asked
  <2> QED BY <1>1, <2>1, <2>2 DEF Resolve
<1>2. CASE h # NoRange /\ h \in [form : {"other"}]
  <2>1. Parse(h) = ByteRange("INVALID", 0, Int64Max)
      BY <1>2 DEF Parse
  <2> QED BY <1>2, <2>1 DEF Resolve, Asked
<1>3. CASE h # NoRange /\ h \in [form : {"suffix"}, length : 1 .. Int64Max]
  <2>1. Parse(h) = ByteRange("PARSED", 0 - h.length, Int64Max) /\ h.length \in 1 .. Int64Max
      BY <1>3 DEF Parse
  <2>2. Asked(h, s) = {i \in 0 .. s - 1 : i >= s - h.length}
      BY <1>3 DEF Asked
  <2> QED BY <1>3, <2>1, <2>2 DEF Resolve
<1>4. CASE h # NoRange /\ h \in [form : {"from"}, first : 0 .. Int64Max]
  <2>1. Parse(h) = ByteRange("PARSED", h.first, Int64Max) /\ h.first \in 0 .. Int64Max
      BY <1>4 DEF Parse
  <2>2. Asked(h, s) = {i \in 0 .. s - 1 : i >= h.first}
      BY <1>4 DEF Asked
  <2> QED BY <1>4, <2>1, <2>2 DEF Resolve
<1>5. CASE /\ h # NoRange
           /\ h \in [form : {"fromTo"}, first : 0 .. Int64Max,
                     last : (0 - Int64Max) .. Int64Max]
  <2>1. h.first \in 0 .. Int64Max /\ h.last \in Int /\ h.last <= Int64Max
      BY <1>5
  <2>2. Parse(h) = IF h.first <= h.last THEN ByteRange("PARSED", h.first, h.last)
                                        ELSE ByteRange("INVALID", 0, Int64Max)
      BY <1>5, <2>1 DEF Parse
  <2>3. Asked(h, s) = {i \in 0 .. s - 1 : i >= h.first /\ i <= h.last}
      BY <1>5 DEF Asked
  <2>4. CASE h.first <= h.last
      BY <1>5, <2>1, <2>2, <2>3, <2>4 DEF Resolve
  <2>5. CASE ~(h.first <= h.last)
      BY <1>5, <2>1, <2>2, <2>3, <2>5 DEF Resolve
  <2> QED BY <2>4, <2>5
<1> QED BY <1>1, <1>2, <1>3, <1>4, <1>5 DEF RangeHeader

-----------------------------------------------------------------------------
(* The inductive invariant: the response is the one that the header gives, *)
(* and while blocks are sent, the body is a proper beginning of the range. *)
Chosen ==
    pc # "asked" =>
        /\ response.range = Resolve(Parse(header), size)
        /\ response.status = IF response.range.kind = "RESOLVED_FULL_CONTENT" THEN 200
                             ELSE IF response.range.kind = "RESOLVED_PARTIAL_CONTENT"
                             THEN 206 ELSE 416
        /\ pc = "sending" => /\ response.rangeStart = ToInt(response.range.first)
                             /\ response.status # 416
                             /\ Small => pos < RangeLength(response.range)

Unanswered == pc = "asked" => response.status = 0 /\ pos = 0 /\ body = Bytes(0, 0)

IInv == TypeOK /\ Chosen /\ Unanswered /\ SmallBodyIsTheRange

LEMMA InitHolds == Init => IInv
<1> SUFFICES ASSUME Init PROVE IInv
    OBVIOUS
<1>1. body = [i \in 0 .. pos - 1 |-> 0 + i] /\ pos = 0
    BY DEF Init, Bytes
<1>2. body \in [0 .. pos - 1 -> 0 .. size - 1]
    BY <1>1
<1>3. response \in [status : {0, 200, 206, 416}, range : ResolvedRange, rangeStart : Int]
    BY WidthAssumption DEF Init, ResolvedRange, ByteRange
<1>4. pos \in 0 .. size
    BY <1>1, WidthAssumption DEF Init
<1> QED BY <1>2, <1>3, <1>4 DEF Init, IInv, TypeOK, Chosen, Unanswered, SmallBodyIsTheRange

(* What is known of a response once it is chosen. *)
LEMMA ChosenResponse ==
    ASSUME IInv, pc # "asked"
    PROVE  /\ Resolved(header, size, response.range)
           /\ response.range \in ResolvedRange
           /\ size \in Nat /\ size <= MaxSize
           /\ RangeLength(response.range) \in 0 .. size
<1>1. Resolved(header, size, response.range)
    BY ResolveCorrect DEF IInv, TypeOK, Chosen
<1>2. size \in Nat /\ size <= MaxSize
    BY WidthAssumption DEF IInv, TypeOK
<1>3. response.range \in ResolvedRange
    BY DEF IInv, TypeOK
<1> QED BY <1>1, <1>2, <1>3 DEF Resolved, RangeLength, ResolvedRange

LEMMA BuildResponseHolds == IInv /\ BuildResponse => IInv'
<1> SUFFICES ASSUME IInv, BuildResponse PROVE IInv'
    OBVIOUS
<1> DEFINE r == Resolve(Parse(header), size)
<1>1. size \in Nat /\ size \in 0 .. MaxSize /\ header \in RangeHeader \cup {NoRange}
      /\ pos = 0 /\ body = Bytes(0, 0)
      /\ UNCHANGED Request /\ size' = size /\ header' = header
    BY WidthAssumption DEF IInv, TypeOK, Unanswered, BuildResponse, Request
<1>2. Resolved(header, size, r) /\ r = ByteRange(r.kind, r.first, r.last)
    BY <1>1, ResolveCorrect
<1>3. r \in ResolvedRange
    BY <1>1, <1>2 DEF Resolved, ResolvedRange, ByteRange
<1>4. r.first \in Int /\ ToInt(r.first) \in Int
    BY <1>3, WidthAssumption DEF ResolvedRange, ToInt
<1> HIDE DEF r
<1>5. CASE /\ r.kind = "RESOLVED_FULL_CONTENT"
           /\ response' = [status |-> 200, range |-> r, rangeStart |-> 0]
           /\ pc' = "sent" /\ pos' = size /\ body' = Bytes(0, size)
  <2>1. r.first = 0 /\ r.last = size - 1
      BY <1>2, <1>5 DEF Resolved
  <2>2. body' \in [0 .. pos' - 1 -> 0 .. size' - 1]
      BY <1>1, <1>5 DEF Bytes
  <2>3. TypeOK'
      BY <1>1, <1>3, <1>5, <2>2 DEF IInv, TypeOK, Request
  <2>4. Chosen' /\ Unanswered'
      BY <1>1, <1>5 DEF Chosen, Unanswered, r
  <2>5. SmallBodyIsTheRange'
      BY <1>1, <1>5, <2>1 DEF SmallBodyIsTheRange, BodyIsTheRange, RangeLength
  <2> QED BY <2>3, <2>4, <2>5 DEF IInv
<1>6. CASE /\ r.kind = "RESOLVED_UNSATISFIABLE"
           /\ response' = [status |-> 416, range |-> r, rangeStart |-> 0]
           /\ pc' = "sent" /\ pos' = pos /\ body' = body
  <2>1. r.first = 0 /\ r.last = size - 1
      BY <1>2, <1>6 DEF Resolved
  <2>2. TypeOK'
      BY <1>1, <1>3, <1>6 DEF IInv, TypeOK, Request
  <2>3. Chosen' /\ Unanswered'
      BY <1>1, <1>6 DEF Chosen, Unanswered, r
  <2>4. SmallBodyIsTheRange'
      BY <1>1, <1>6, <2>1 DEF SmallBodyIsTheRange, BodyIsTheRange, RangeLength
  <2> QED BY <2>2, <2>3, <2>4 DEF IInv
<1>7. CASE /\ r.kind \in {"RESOLVED_FULL_CONTENT", "RESOLVED_PARTIAL_CONTENT"}
           /\ response' = [status |-> IF r.kind = "RESOLVED_PARTIAL_CONTENT"
                                      THEN 206 ELSE 200,
                           range |-> r, rangeStart |-> ToInt(r.first)]
           /\ pc' = IF RangeLength(r) = 0 THEN "sent" ELSE "sending"
           /\ pos' = pos /\ body' = body
  <2>1. RangeLength(r) \in Nat
      BY <1>1, <1>2, <1>7 DEF Resolved, RangeLength
  <2>2. TypeOK'
      BY <1>1, <1>3, <1>4, <1>7 DEF IInv, TypeOK, Request
  <2>3. Chosen' /\ Unanswered'
      BY <1>1, <1>7, <2>1 DEF Chosen, Unanswered, r
  <2>4. body' = Bytes(r.first, pos')
      BY <1>1, <1>4, <1>7 DEF Bytes
  <2>5. SmallBodyIsTheRange'
      BY <1>1, <1>7, <2>1, <2>4 DEF SmallBodyIsTheRange, BodyIsTheRange
  <2> QED BY <2>2, <2>3, <2>5 DEF IInv
<1> QED BY <1>5, <1>6, <1>7 DEF BuildResponse, r

LEMMA ReadBlockHolds == IInv /\ ReadBlock => IInv'
<1> SUFFICES ASSUME IInv, ReadBlock PROVE IInv'
    OBVIOUS
<1> DEFINE left == RangeLength(response.range) - pos
<1>1. PICK max \in 1 .. Smaller(Block, left) :
         LET n == ReadLength(max) IN
         \/ /\ n = 0 \/ ReadOffset + n > size
            /\ pc' = "failed"
            /\ UNCHANGED <<pos, body>>
         \/ /\ n > 0 /\ ReadOffset + n <= size
            /\ body' = [i \in 0 .. pos + n - 1 |->
                           IF i < pos THEN body[i] ELSE ReadOffset + (i - pos)]
            /\ pos' = pos + n
            /\ pc' = IF pos + n = RangeLength(response.range) THEN "sent" ELSE "sending"
    BY DEF ReadBlock
<1> DEFINE n == ReadLength(max)
<1>2. pc = "sending" /\ pc # "asked"
      /\ UNCHANGED <<size, compressible, header, response>>
    BY DEF ReadBlock
<1>3. /\ Resolved(header, size, response.range)
      /\ response.range \in ResolvedRange
      /\ size \in Nat /\ size <= MaxSize
      /\ RangeLength(response.range) \in 0 .. size
    BY <1>2, ChosenResponse
<1>4. pos \in Nat /\ response.rangeStart \in Int
      /\ max \in Nat \ {0} /\ max <= left /\ max <= Block
    BY <1>3, WidthAssumption DEF IInv, TypeOK, Smaller
<1>5. ReadOffset \in Nat
    BY <1>4, WidthAssumption DEF ReadOffset, ToUInt64
<1>6. n \in Nat /\ n <= max
  <2>1. ToUInt64(size - pos - response.rangeStart) \in Nat
      BY <1>3, <1>4, WidthAssumption DEF ToUInt64
  <2> QED BY <2>1, <1>4 DEF ReadLength, Smaller
<1>7. ASSUME Small
      PROVE  /\ n > 0 /\ ReadOffset = response.range.first + pos
             /\ ReadOffset + n <= size
  <2>1. response.range.first \in Nat /\ pos < RangeLength(response.range)
        /\ response.rangeStart = ToInt(response.range.first)
        /\ response.range.kind # "RESOLVED_UNSATISFIABLE"
      BY <1>2, <1>3, <1>7 DEF IInv, Chosen, ResolvedRange, Resolved
  <2>2. response.range.first + pos < size
      BY <1>3, <1>4, <2>1 DEF Resolved, RangeLength
  <2>3. response.range.first \in 0 .. IntMax
      BY <1>3, <1>4, <1>7, <2>1, <2>2, WidthAssumption DEF Small
  <2>4. response.rangeStart = response.range.first
      BY <2>1, <2>3, ToIntSmall
  <2>5. response.rangeStart + pos \in 0 .. Int64Max
        /\ size - pos - response.rangeStart \in 0 .. Int64Max
      BY <1>3, <1>4, <2>1, <2>2, <2>4, WidthAssumption
  <2>6. ReadOffset = response.rangeStart + pos
      BY <2>5, ToUInt64Small DEF ReadOffset
  <2>7. n = Smaller(max, size - pos - response.rangeStart)
      BY <2>5, ToUInt64Small DEF ReadLength
  <2> QED BY <1>3, <1>4, <2>1, <2>2, <2>4, <2>6, <2>7 DEF Smaller
<1> HIDE DEF n
<1>8. CASE /\ n = 0 \/ ReadOffset + n > size
           /\ pc' = "failed" /\ UNCHANGED <<pos, body>>
  <2>1. ~Small
      BY <1>3, <1>5, <1>6, <1>7, <1>8
  <2> QED
      BY <1>2, <1>8, <2>1 DEF IInv, TypeOK, Chosen, Unanswered, SmallBodyIsTheRange, Small
<1>9. CASE /\ n > 0 /\ ReadOffset + n <= size
           /\ body' = [i \in 0 .. pos + n - 1 |->
                          IF i < pos THEN body[i] ELSE ReadOffset + (i - pos)]
           /\ pos' = pos + n
           /\ pc' = IF pos + n = RangeLength(response.range) THEN "sent" ELSE "sending"
  <2>1. pos' \in 0 .. size /\ pos' <= RangeLength(response.range)
      BY <1>3, <1>4, <1>6, <1>9
  <2>2. body' \in [0 .. pos' - 1 -> 0 .. size - 1]
    <3>1. body \in [0 .. pos - 1 -> 0 .. size - 1]
        BY DEF IInv, TypeOK
    <3>2. ASSUME NEW i \in 0 .. pos + n - 1
          PROVE  (IF i < pos THEN body[i] ELSE ReadOffset + (i - pos)) \in 0 .. size - 1
      <4>1. CASE i < pos
        <5>1. i \in 0 .. pos - 1
            BY <1>4, <1>6, <4>1
        <5> QED BY <3>1, <4>1, <5>1
      <4>2. CASE ~(i < pos)
        <5>1. ReadOffset + (i - pos) \in 0 .. size - 1
            BY <1>3, <1>4, <1>5, <1>6, <1>9, <4>2
        <5> QED BY <4>2, <5>1
      <4> QED BY <4>1, <4>2
    <3>3. body' \in [0 .. pos + n - 1 -> 0 .. size - 1]
        BY <1>9, <3>2, Zenon
    <3>4. pos' - 1 = pos + n - 1
        BY <1>4, <1>6, <1>9
    <3> QED BY <3>3, <3>4
  <2>3. TypeOK'
      BY <1>2, <1>9, <2>1, <2>2 DEF IInv, TypeOK
  <2>4. Chosen' /\ Unanswered'
      BY <1>2, <1>3, <1>9, <2>1 DEF IInv, TypeOK, Chosen, Unanswered, Small
  <2>5. SmallBodyIsTheRange'
    <3> SUFFICES ASSUME Small PROVE BodyIsTheRange'
        BY <1>2 DEF SmallBodyIsTheRange, Small
    <3>1. body = Bytes(response.range.first, pos)
        BY <1>2 DEF IInv, SmallBodyIsTheRange, BodyIsTheRange
    <3>2. ReadOffset = response.range.first + pos /\ response.range.first \in Nat
        BY <1>3, <1>7 DEF ResolvedRange
    <3>3. body' = Bytes(response.range.first, pos + n)
      <4>1. ASSUME NEW i \in 0 .. pos + n - 1
            PROVE  (IF i < pos THEN body[i] ELSE ReadOffset + (i - pos))
                      = response.range.first + i
        <5>1. CASE i < pos
          <6>1. i \in 0 .. pos - 1
              BY <1>4, <1>6, <5>1
          <6> QED BY <3>1, <5>1, <6>1 DEF Bytes
        <5>2. CASE ~(i < pos)
          <6>1. ReadOffset + (i - pos) = response.range.first + i
              BY <1>4, <1>6, <3>2
          <6> QED BY <5>2, <6>1
        <5> QED BY <5>1, <5>2
      <4>2. (pos + n) - 1 = pos + n - 1
          BY <1>4, <1>6
      <4> QED BY <1>9, <4>1, <4>2, Zenon DEF Bytes
    <3> QED BY <1>2, <1>9, <2>1, <3>3 DEF BodyIsTheRange
  <2> QED BY <2>3, <2>4, <2>5 DEF IInv
<1> QED BY <1>1, <1>8, <1>9 DEF n

LEMMA NextHolds == IInv /\ [Next]_vars => IInv'
<1> SUFFICES ASSUME IInv, [Next]_vars PROVE IInv'
    OBVIOUS
<1>1. CASE BuildResponse
    BY <1>1, BuildResponseHolds
<1>2. CASE ReadBlock
    BY <1>2, ReadBlockHolds
<1>3. CASE Close
    BY <1>3 DEF Close, IInv, TypeOK, Chosen, Unanswered, SmallBodyIsTheRange,
                BodyIsTheRange, Small
<1>4. CASE UNCHANGED vars
    BY <1>4 DEF vars, IInv, TypeOK, Chosen, Unanswered, SmallBodyIsTheRange,
                BodyIsTheRange, Small
<1> QED BY <1>1, <1>2, <1>3, <1>4 DEF Next

(* The range announced and the part of the body sent are determined by the *)
(* header in every reachable state.                                        *)
THEOREM StreamInvariant == Spec => []IInv
<1> QED BY InitHolds, NextHolds, PTL DEF Spec

(* Every reachable state is well typed. *)
THEOREM TypeCorrect == Spec => []TypeOK
<1>1. IInv => TypeOK
    BY DEF IInv
<1> QED BY <1>1, StreamInvariant, PTL

(* The response announces just the bytes that the Range header asks for,   *)
(* whatever the header and the size are.                                   *)
THEOREM AnnouncementCorrect == Spec => []AnnouncesWhatIsAsked
<1>1. IInv => AnnouncesWhatIsAsked
  <2> SUFFICES ASSUME IInv PROVE AnnouncesWhatIsAsked
      OBVIOUS
  <2>1. CASE pc = "asked"
      BY <2>1 DEF IInv, Unanswered, AnnouncesWhatIsAsked
  <2>2. CASE pc # "asked"
    <3>1. /\ Resolved(header, size, response.range)
          /\ response.range.kind # "RESOLVED_UNSATISFIABLE" =>
                response.range.first .. response.range.last = Asked(header, size)
          /\ response.range.kind = "RESOLVED_UNSATISFIABLE" => Asked(header, size) = {}
        BY <2>2, ResolveCorrect DEF IInv, TypeOK, Chosen
    <3>2. response.status = IF response.range.kind = "RESOLVED_FULL_CONTENT" THEN 200
                            ELSE IF response.range.kind = "RESOLVED_PARTIAL_CONTENT"
                            THEN 206 ELSE 416
        BY <2>2 DEF IInv, Chosen
    <3> QED BY <3>1, <3>2 DEF AnnouncesWhatIsAsked, Resolved
  <2> QED BY <2>1, <2>2
<1> QED BY <1>1, StreamInvariant, PTL

(* Of an item whose bytes an int can number, the client always has a       *)
(* beginning of the range that was announced, and nothing fails.           *)
THEOREM BodyCorrect == Spec => []SmallBodyIsTheRange
<1>1. IInv => SmallBodyIsTheRange
    BY DEF IInv
<1> QED BY <1>1, StreamInvariant, PTL

-----------------------------------------------------------------------------
(***************************************************************************)
(* Proofs about EntryLinks, for any names, entries, roots and links to     *)
(* other sites.                                                            *)
(*                                                                         *)
(* A link is escaped character by character, and the server finds out with *)
(* searches for "?", "&", "/" and words what the parts were.  The argument *)
(* is that a character of a text that is cut for is escaped, so that the   *)
(* first one found is that of the maker of the link.                       *)
(***************************************************************************)

(* Texts, links and what is cut out of them.                               *)

(* The strings.  That those written out are among them is beyond the       *)
(* provers.                                                                *)
Character ==
    STRING \cup {"/", "?", "#", "&", " ", "%20", "%26"}
           \cup {"content=", "source=", "catch", "external", "random", "suggest"}

Text == Seq(Character)
LinkChar == [char : Character, escaped : BOOLEAN]
Link == Seq(LinkChar)

(* No unescaped character of the link is one of these.                     *)
Free(link, chars) ==
    \A i \in 1 .. Len(link) : ~link[i].escaped => link[i].char \notin chars

(* The provers take a name better than the operator, of which they have    *)
(* axioms of their own.                                                    *)
Join(a, b) == a \o b

LEMMA JoinIs ==
    ASSUME NEW S, NEW a \in Seq(S), NEW b \in Seq(S)
    PROVE  /\ Len(a) \in Nat /\ Len(b) \in Nat
           /\ Join(a, b) \in Seq(S) /\ Len(Join(a, b)) = Len(a) + Len(b)
           /\ \A i \in 1 .. Len(a) + Len(b) : Join(a, b)[i] = IF i <= Len(a) THEN a[i] ELSE b[i - Len(a)]
<1>1. a \o b \in Seq(S)
    BY ConcatProperties
<1>2. Len(a \o b) = Len(a) + Len(b)
    BY ConcatProperties
<1>3. Len(a) \in Nat /\ Len(b) \in Nat
    BY LenProperties
<1>4. ASSUME NEW i \in 1 .. Len(a) + Len(b)
      PROVE  (a \o b)[i] = IF i <= Len(a) THEN a[i] ELSE b[i - Len(a)]
    BY ConcatProperties
<1> QED BY <1>1, <1>2, <1>3, <1>4, Zenon DEF Join

LEMMA TextsJoin ==
    ASSUME NEW a \in Text, NEW b \in Text
    PROVE  /\ Len(a) \in Nat /\ Len(b) \in Nat
           /\ Join(a, b) \in Text /\ Len(Join(a, b)) = Len(a) + Len(b)
           /\ \A i \in 1 .. Len(a) + Len(b) : Join(a, b)[i] = IF i <= Len(a) THEN a[i] ELSE b[i - Len(a)]
BY JoinIs, Zenon DEF Text

LEMMA LinksJoin ==
    ASSUME NEW a \in Link, NEW b \in Link
    PROVE  /\ Len(a) \in Nat /\ Len(b) \in Nat
           /\ Join(a, b) \in Link /\ Len(Join(a, b)) = Len(a) + Len(b)
           /\ \A i \in 1 .. Len(a) + Len(b) : Join(a, b)[i] = IF i <= Len(a) THEN a[i] ELSE b[i - Len(a)]
BY JoinIs, Zenon DEF Link

LEMMA JoinOfThree ==
    ASSUME NEW S, NEW a \in Seq(S), NEW b \in Seq(S), NEW c \in Seq(S)
    PROVE  Join(Join(a, b), c) = Join(a, Join(b, c))
BY ConcatAssociative, SMTT(40) DEF Join

LEMMA EscapingIs ==
    ASSUME NEW text \in Text, NEW chars
    PROVE  /\ Escaping(text, chars) \in Link /\ Len(Escaping(text, chars)) = Len(text)
           /\ \A i \in 1 .. Len(text) : /\ Escaping(text, chars)[i].char = text[i]
                                        /\ Escaping(text, chars)[i].escaped <=> text[i] \in chars
<1>1. DOMAIN text = 1 .. Len(text) /\ Len(text) \in Nat /\ \A i \in 1 .. Len(text) : text[i] \in Character
    BY LenProperties, ElementOfSeq DEF Text
<1> DEFINE l == Escaping(text, chars)
<1>2. l = [i \in 1 .. Len(text) |-> [char |-> text[i], escaped |-> text[i] \in chars]]
    BY <1>1 DEF Escaping
<1> HIDE DEF l
<1>3. ASSUME NEW i \in 1 .. Len(text)
      PROVE  /\ l[i] \in LinkChar
             /\ l[i].char = text[i] /\ (l[i].escaped <=> text[i] \in chars)
  <2>1. text[i] \in Character
      BY <1>1
  <2>2. CASE text[i] \in chars
    <3>1. (text[i] \in chars) = TRUE
        BY <2>2
    <3>2. l[i] = [char |-> text[i], escaped |-> TRUE]
        BY <1>2, <3>1, Zenon
    <3>3. l[i].char = text[i] /\ l[i].escaped
        BY <3>2
    <3> QED BY <2>1, <2>2, <3>2, <3>3 DEF LinkChar
  <2>3. CASE text[i] \notin chars
    <3>1. (text[i] \in chars) = FALSE
        BY <2>3
    <3>2. l[i] = [char |-> text[i], escaped |-> FALSE]
        BY <1>2, <3>1, Zenon
    <3>3. l[i].char = text[i] /\ ~l[i].escaped
        BY <3>2
    <3> QED BY <2>1, <2>3, <3>2, <3>3 DEF LinkChar
  <2> QED BY <2>2, <2>3
<1>4. l \in [1 .. Len(text) -> LinkChar]
  <2>1. DOMAIN l = 1 .. Len(text) /\ l = [i \in DOMAIN l |-> l[i]]
      BY <1>2, Zenon
  <2> QED BY <1>3, <2>1, Zenon
<1>5. l \in Link /\ Len(l) = Len(text)
    BY <1>1, <1>4 DEF Link
<1> QED BY <1>3, <1>5 DEF l

LEMMA EscapingIsFree ==
    ASSUME NEW text \in Text, NEW chars, NEW others,
           \A i \in 1 .. Len(text) : text[i] \in others => text[i] \in chars
    PROVE  Free(Escaping(text, chars), others)
BY EscapingIs DEF Free

LEMMA FreeOfBoth ==
    ASSUME NEW a \in Link, NEW b \in Link, NEW chars, Free(a, chars), Free(b, chars)
    PROVE  Join(a, b) \in Link /\ Free(Join(a, b), chars)
<1>1. /\ Join(a, b) \in Link /\ Len(Join(a, b)) = Len(a) + Len(b) /\ Len(a) \in Nat /\ Len(b) \in Nat
      /\ \A i \in 1 .. Len(a) + Len(b) : Join(a, b)[i] = IF i <= Len(a) THEN a[i] ELSE b[i - Len(a)]
    BY LinksJoin
<1> QED
  <2> SUFFICES ASSUME NEW i \in 1 .. Len(a) + Len(b), ~Join(a, b)[i].escaped
               PROVE  Join(a, b)[i].char \notin chars
      BY <1>1 DEF Free
  <2>1. CASE i <= Len(a)
      BY <1>1, <2>1 DEF Free
  <2>2. CASE ~(i <= Len(a))
    <3>1. i - Len(a) \in 1 .. Len(b) /\ Join(a, b)[i] = b[i - Len(a)]
        BY <1>1, <2>2
    <3> QED BY <3>1 DEF Free
  <2> QED BY <2>1, <2>2

(* The place of the first character that ends what comes before.           *)
LEMMA FirstOfIs ==
    ASSUME NEW link \in Link, NEW chars
    PROVE  /\ FirstOf(link, chars) \in 0 .. Len(link)
           /\ FirstOf(link, chars) = 0 <=> Free(link, chars)
           /\ FirstOf(link, chars) # 0 =>
                 /\ ~link[FirstOf(link, chars)].escaped
                 /\ link[FirstOf(link, chars)].char \in chars
                 /\ \A i \in 1 .. FirstOf(link, chars) - 1 :
                       ~link[i].escaped => link[i].char \notin chars
<1> DEFINE I == {i \in 1 .. Len(link) : ~link[i].escaped /\ link[i].char \in chars}
<1>1. FirstOf(link, chars) = IF I # {} THEN Min(I) ELSE 0
    BY DEF FirstOf, SelectInSeq
<1>2. Len(link) \in Nat
    BY LenProperties DEF Link
<1>3. I = {} <=> Free(link, chars)
    BY DEF Free
<1>4. ASSUME I # {} PROVE Min(I) \in I /\ \A i \in I : Min(I) <= i
  <2>1. I \subseteq Nat
      BY <1>2
  <2> HIDE DEF I
  <2> QED BY <1>4, <2>1, SmallestNumber
<1>5. CASE I = {}
    BY <1>1, <1>2, <1>3, <1>5
<1>6. CASE I # {}
  <2> DEFINE n == Min(I)
  <2>1. n \in I /\ \A i \in I : n <= i
      BY <1>4, <1>6
  <2> HIDE DEF n
  <2>2. FirstOf(link, chars) = n
      BY <1>1, <1>6 DEF n
  <2>3. n \in 1 .. Len(link) /\ ~link[n].escaped /\ link[n].char \in chars
      BY <2>1
  <2>4. \A i \in 1 .. n - 1 : i \notin I /\ i \in 1 .. Len(link)
      BY <1>2, <2>1, <2>3
  <2> QED BY <1>2, <1>3, <1>6, <2>2, <2>3, <2>4
<1> QED BY <1>5, <1>6

LEMMA BeforeNone ==
    ASSUME NEW link \in Link, NEW chars, Free(link, chars)
    PROVE  Before(link, chars) = link
BY FirstOfIs DEF Before

LEMMA BeforeThat ==
    ASSUME NEW a \in Link, NEW b \in Link, NEW chars, Free(a, chars),
           b # <<>>, ~b[1].escaped, b[1].char \in chars
    PROVE  Before(Join(a, b), chars) = a
<1> DEFINE l == Join(a, b)
           n == FirstOf(l, chars)
<1>1. /\ l \in Link /\ Len(l) = Len(a) + Len(b) /\ Len(a) \in Nat /\ Len(b) \in Nat \ {0}
      /\ \A i \in 1 .. Len(a) + Len(b) : l[i] = IF i <= Len(a) THEN a[i] ELSE b[i - Len(a)]
    BY LinksJoin, EmptySeq DEF Link
<1>2. \A i \in 1 .. Len(a) : l[i] = a[i]
    BY <1>1
<1>3. l[Len(a) + 1] = b[1] /\ Len(a) + 1 \in 1 .. Len(l)
  <2>1. Len(a) + 1 \in 1 .. Len(a) + Len(b) /\ ~(Len(a) + 1 <= Len(a)) /\ (Len(a) + 1) - Len(a) = 1
      BY <1>1
  <2> QED BY <1>1, <2>1
<1> HIDE DEF l
<1>4. n \in 1 .. Len(l) /\ ~l[n].escaped /\ l[n].char \in chars
      /\ \A i \in 1 .. n - 1 : ~l[i].escaped => l[i].char \notin chars
  <2>1. ~Free(l, chars)
      BY <1>3 DEF Free
  <2>2. n \in 0 .. Len(l) /\ (n = 0 <=> Free(l, chars))
      BY <1>1, FirstOfIs, Zenon
  <2>3. n \in 1 .. Len(l)
    <3> HIDE DEF n
    <3> QED BY <1>1, <2>1, <2>2
  <2>4. n # 0
      BY <2>1, <2>2, Zenon
  <2> QED BY <1>1, <2>3, <2>4, FirstOfIs, Zenon
<1> HIDE DEF n
<1>5. n = Len(a) + 1
  <2>1. n \notin 1 .. Len(a)
      BY <1>2, <1>4 DEF Free
  <2>2. Len(a) + 1 \notin 1 .. n - 1
      BY <1>3, <1>4
  <2> QED BY <1>1, <1>4, <2>1, <2>2
<1>6. Before(l, chars) = SubSeq(l, 1, Len(a))
  <2>1. n # 0 /\ n - 1 = Len(a)
      BY <1>1, <1>5
  <2> QED BY <2>1 DEF Before, n
<1>7. SubSeq(Join(a, b), 1, Len(a)) = a
  <2>1. CASE a = <<>>
      BY <2>1, SubSeqEmpty, <1>1
  <2>2. CASE a # <<>>
    <3>1. 1 \in 1 .. Len(a) /\ Len(a) \in 1 .. Len(a)
        BY <1>1, <2>2, EmptySeq DEF Link
    <3>2. SubSeq(Join(a, b), 1, Len(a)) = SubSeq(a, 1, Len(a))
        BY <3>1, SubSeqOfConcat1 DEF Link, Join
    <3> QED BY <3>2, SubSeqFull DEF Link
  <2> QED BY <2>1, <2>2
<1> QED BY <1>6, <1>7 DEF l

LEMMA DecodeIs ==
    ASSUME NEW link \in Link
    PROVE  /\ Decode(link) \in Text /\ Len(Decode(link)) = Len(link)
           /\ \A i \in 1 .. Len(link) : Decode(link)[i] = Unescaped(link[i])
<1>1. DOMAIN link = 1 .. Len(link) /\ Len(link) \in Nat /\ \A i \in 1 .. Len(link) : link[i] \in LinkChar
    BY LenProperties, ElementOfSeq DEF Link
<1>2. ASSUME NEW c \in LinkChar PROVE Unescaped(c) \in Character
  <2>1. c.char \in Character
      BY DEF LinkChar
  <2>2. Unescaped(c) \in {c.char, " ", "&"}
      BY DEF Unescaped
  <2>3. " " \in Character /\ "&" \in Character
      BY DEF Character
  <2>4. Unescaped(c) = c.char \/ Unescaped(c) = " " \/ Unescaped(c) = "&"
      BY <2>2, Zenon
  <2> QED BY <2>1, <2>3, <2>4, Zenon
<1>3. Decode(link) = [i \in 1 .. Len(link) |-> Unescaped(link[i])]
    BY <1>1 DEF Decode
<1>4. Decode(link) \in [1 .. Len(link) -> Character]
    BY <1>1, <1>2, <1>3
<1> QED BY <1>1, <1>3, <1>4 DEF Text

LEMMA DecodeOfBoth ==
    ASSUME NEW a \in Link, NEW b \in Link
    PROVE  Join(a, b) \in Link /\ Decode(Join(a, b)) = Join(Decode(a), Decode(b))
<1>1. /\ Join(a, b) \in Link /\ Len(Join(a, b)) = Len(a) + Len(b) /\ Len(a) \in Nat /\ Len(b) \in Nat
      /\ \A i \in 1 .. Len(a) + Len(b) : Join(a, b)[i] = IF i <= Len(a) THEN a[i] ELSE b[i - Len(a)]
    BY LinksJoin
<1> DEFINE s == Decode(Join(a, b))
           t == Join(Decode(a), Decode(b))
<1>2. /\ s \in Text /\ Len(s) = Len(a) + Len(b)
      /\ \A i \in 1 .. Len(a) + Len(b) : s[i] = Unescaped(Join(a, b)[i])
    BY <1>1, DecodeIs
<1>3. /\ Decode(a) \in Text /\ Len(Decode(a)) = Len(a)
      /\ Decode(b) \in Text /\ Len(Decode(b)) = Len(b)
    BY DecodeIs
<1>4. /\ t \in Text /\ Len(t) = Len(a) + Len(b)
      /\ \A i \in 1 .. Len(a) + Len(b) :
            t[i] = IF i <= Len(a) THEN Decode(a)[i] ELSE Decode(b)[i - Len(a)]
  <2>1. /\ t \in Text /\ Len(t) = Len(Decode(a)) + Len(Decode(b))
        /\ \A i \in 1 .. Len(Decode(a)) + Len(Decode(b)) :
              t[i] = IF i <= Len(Decode(a)) THEN Decode(a)[i] ELSE Decode(b)[i - Len(Decode(a))]
      BY <1>3, TextsJoin, Zenon
  <2> HIDE DEF t
  <2> QED BY <1>3, <2>1
<1> HIDE DEF s, t
<1>5. ASSUME NEW i \in 1 .. Len(a) + Len(b) PROVE s[i] = t[i]
  <2>1. CASE i <= Len(a)
    <3>1. i \in 1 .. Len(a)
        BY <1>1, <2>1
    <3>2. Decode(a)[i] = Unescaped(a[i])
        BY <3>1, DecodeIs
    <3> QED BY <1>1, <1>2, <1>4, <2>1, <3>2
  <2>2. CASE ~(i <= Len(a))
    <3>1. i - Len(a) \in 1 .. Len(b)
        BY <1>1, <2>2
    <3>2. Decode(b)[i - Len(a)] = Unescaped(b[i - Len(a)])
        BY <3>1, DecodeIs
    <3> QED BY <1>1, <1>2, <1>4, <2>2, <3>2
  <2> QED BY <2>1, <2>2
<1>6. s = t
    BY <1>2, <1>4, <1>5, SeqEqual DEF Text
<1> QED BY <1>1, <1>6 DEF s, t

(* What was escaped is decoded, but for the escapes that are in the text.  *)
LEMMA DecodedIsText ==
    ASSUME NEW text \in Text, NEW chars,
           \A i \in 1 .. Len(text) : text[i] \in {"%20", "%26"} => text[i] \in chars
    PROVE  Decode(Escaping(text, chars)) = text
<1> DEFINE l == Escaping(text, chars)
           d == Decode(l)
<1>1. /\ l \in Link /\ Len(l) = Len(text)
      /\ \A i \in 1 .. Len(text) : l[i].char = text[i] /\ (l[i].escaped <=> text[i] \in chars)
    BY EscapingIs
<1>2. d \in Text /\ Len(d) = Len(text) /\ \A i \in 1 .. Len(text) : d[i] = Unescaped(l[i])
    BY <1>1, DecodeIs
<1> HIDE DEF l, d
<1>3. ASSUME NEW i \in 1 .. Len(text) PROVE d[i] = text[i]
  <2>1. CASE l[i].escaped
      BY <1>1, <1>2, <2>1 DEF Unescaped
  <2>2. CASE ~l[i].escaped
    <3>1. l[i].char # "%20" /\ l[i].char # "%26"
        BY <1>1, <2>2
    <3> QED BY <1>1, <1>2, <2>2, <3>1 DEF Unescaped
  <2> QED BY <2>1, <2>2
<1>4. d = text
    BY <1>2, <1>3, SeqEqual DEF Text
<1> QED BY <1>4 DEF d, l

LEMMA EscapingOfBoth ==
    ASSUME NEW a \in Text, NEW b \in Text, NEW chars
    PROVE  Join(a, b) \in Text /\ Escaping(Join(a, b), chars) = Join(Escaping(a, chars), Escaping(b, chars))
<1>1. /\ Join(a, b) \in Text /\ Len(Join(a, b)) = Len(a) + Len(b) /\ Len(a) \in Nat /\ Len(b) \in Nat
      /\ \A i \in 1 .. Len(a) + Len(b) : Join(a, b)[i] = IF i <= Len(a) THEN a[i] ELSE b[i - Len(a)]
    BY TextsJoin
<1> DEFINE s == Escaping(Join(a, b), chars)
           u == Escaping(a, chars)
           v == Escaping(b, chars)
<1>2. /\ s \in Link /\ Len(s) = Len(a) + Len(b)
    BY <1>1, EscapingIs
<1>3. u \in Link /\ Len(u) = Len(a) /\ v \in Link /\ Len(v) = Len(b)
    BY EscapingIs
<1>4. /\ Join(u, v) \in Link /\ Len(Join(u, v)) = Len(a) + Len(b)
      /\ \A i \in 1 .. Len(a) + Len(b) : Join(u, v)[i] = IF i <= Len(a) THEN u[i] ELSE v[i - Len(a)]
  <2>1. /\ Join(u, v) \in Link /\ Len(Join(u, v)) = Len(u) + Len(v)
        /\ \A i \in 1 .. Len(u) + Len(v) : Join(u, v)[i] = IF i <= Len(u) THEN u[i] ELSE v[i - Len(u)]
      BY <1>3, LinksJoin, Zenon
  <2> HIDE DEF u, v
  <2> QED BY <1>3, <2>1
<1>5. ASSUME NEW i \in 1 .. Len(a) + Len(b) PROVE s[i] = Join(u, v)[i]
  <2>1. s[i] = [char |-> Join(a, b)[i], escaped |-> Join(a, b)[i] \in chars]
    <3>1. DOMAIN Join(a, b) = 1 .. Len(a) + Len(b)
        BY <1>1, LenProperties DEF Text
    <3> QED BY <3>1, Zenon DEF Escaping
  <2>2. CASE i <= Len(a)
    <3>1. i \in DOMAIN a
        BY <1>1, <2>2, LenProperties DEF Text
    <3>2. u[i] = [char |-> a[i], escaped |-> a[i] \in chars]
        BY <3>1, Zenon DEF Escaping
    <3>3. Join(a, b)[i] = a[i] /\ Join(u, v)[i] = u[i]
        BY <1>1, <1>4, <2>2
    <3> QED BY <2>1, <3>2, <3>3, Zenon
  <2>3. CASE ~(i <= Len(a))
    <3>1. i - Len(a) \in DOMAIN b
        BY <1>1, <2>3, LenProperties DEF Text
    <3>2. v[i - Len(a)] = [char |-> b[i - Len(a)], escaped |-> b[i - Len(a)] \in chars]
        BY <3>1, Zenon DEF Escaping
    <3>3. Join(a, b)[i] = b[i - Len(a)] /\ Join(u, v)[i] = v[i - Len(a)]
        BY <1>1, <1>4, <2>3
    <3> QED BY <2>1, <3>2, <3>3, Zenon
  <2> QED BY <2>2, <2>3
<1> HIDE DEF s, u, v
<1>6. s = Join(u, v)
    BY <1>2, <1>4, <1>5, SeqEqual DEF Link
<1> QED BY <1>1, <1>6 DEF s, u, v

-----------------------------------------------------------------------------
(* The URL that a link asks for.                                           *)

Slash == <<"/">>

(* What the server sees of a link to something in a book.                  *)
InBook(n, path) == Join(Slash, Join(n, Join(Slash, path)))

LEMMA TextsOfTheServer ==
    /\ Root \subseteq Text /\ BookName \subseteq Text \ {<<>>}
    /\ DOMAIN Entries \subseteq Text \ {<<>>} /\ External \subseteq Text \ {<<>>}
    /\ <<>> \in Text /\ \A c \in Character : <<c>> \in Text
<1>1. \A t \in Seq(STRING) : t \in Text
    BY SeqMonotonic DEF Text, Character
<1>2. Root \subseteq Text /\ BookName \subseteq Text \ {<<>>}
    BY <1>1, LinksAssumption
<1>3. DOMAIN Entries \subseteq Text \ {<<>>} /\ External \subseteq Text \ {<<>>}
    BY <1>1, LinksAssumption
<1>4. <<>> \in Text /\ \A c \in Character : <<c>> \in Text
    BY DEF Text
<1> QED BY <1>2, <1>3, <1>4

LEMMA HasNot ==
    ASSUME NEW text \in Text, NEW chars, ~Has(text, chars)
    PROVE  \A i \in 1 .. Len(text) : text[i] \notin chars
<1>1. DOMAIN text = 1 .. Len(text)
    BY LenProperties DEF Text
<1> QED BY <1>1, Zenon DEF Has, ToSet

LEMMA CharacterIs ==
    ASSUME NEW c \in Character
    PROVE  <<c>> \in Text /\ Len(<<c>>) = 1 /\ <<c>>[1] = c
BY TextsOfTheServer

LEMMA SlashIs ==
    /\ Slash \in Text /\ Len(Slash) = 1 /\ Slash[1] = "/"
    /\ Raw(Slash) \in Link /\ Decode(Raw(Slash)) = Slash
    /\ \A char \in {"#", "?"} : Free(Raw(Slash), {char})
<1>1. Slash \in Text /\ Len(Slash) = 1 /\ Slash[1] = "/"
    BY CharacterIs DEF Slash, Character
<1>2. Raw(Slash) \in Link
    BY <1>1, EscapingIs DEF Raw
<1>3. Decode(Raw(Slash)) = Slash
    BY <1>1, DecodedIsText DEF Raw
<1>4. ASSUME NEW char \in {"#", "?"} PROVE Free(Raw(Slash), {char})
    BY <1>1, EscapingIsFree DEF Raw
<1> QED BY <1>1, <1>2, <1>3, <1>4

LEMMA FirstPart ==
    ASSUME NEW S, NEW a \in Seq(S), NEW b \in Seq(S)
    PROVE  SubSeq(Join(a, b), 1, Len(a)) = a
<1>1. Len(a) \in Nat
    BY LenProperties
<1>2. CASE a = <<>>
    BY <1>2, SubSeqEmpty, <1>1
<1>3. CASE a # <<>>
  <2>1. 1 \in 1 .. Len(a) /\ Len(a) \in 1 .. Len(a)
      BY <1>1, <1>3, EmptySeq
  <2>2. SubSeq(Join(a, b), 1, Len(a)) = SubSeq(a, 1, Len(a))
      BY <2>1, SubSeqOfConcat1 DEF Join
  <2> QED BY <2>2, SubSeqFull
<1> QED BY <1>2, <1>3

LEMMA SecondPart ==
    ASSUME NEW S, NEW a \in Seq(S), NEW b \in Seq(S), NEW m, NEW n, m = Len(a) + 1, n = Len(Join(a, b))
    PROVE  SubSeq(Join(a, b), m, n) = b
<1>1. Len(a) \in Nat /\ Len(b) \in Nat /\ n = Len(a) + Len(b)
    BY JoinIs
<1>2. CASE b = <<>>
  <2>1. n < m /\ m \in Int /\ n \in Int
      BY <1>1, <1>2
  <2> QED BY <1>2, <2>1, SubSeqEmpty
<1>3. CASE b # <<>>
  <2>1. m \in Len(a) + 1 .. Len(a) + Len(b) /\ n \in Len(a) + 1 .. Len(a) + Len(b)
        /\ m - Len(a) = 1 /\ n - Len(a) = Len(b)
      BY <1>1, <1>3, EmptySeq
  <2>2. SubSeq(Join(a, b), m, n) = SubSeq(b, m - Len(a), n - Len(a))
      BY <2>1, SubSeqOfConcat2 DEF Join
  <2> QED BY <2>1, <2>2, SubSeqFull
<1> QED BY <1>2, <1>3

LEMMA HeadAndTail ==
    ASSUME NEW S, NEW a \in Seq(S), NEW b \in Seq(S), Len(a) = 1
    PROVE  /\ Join(a, b) # <<>> /\ Head(Join(a, b)) = a[1]
           /\ Join(a, b)[1] = a[1] /\ Tail(Join(a, b)) = b
<1>1. /\ Join(a, b) \in Seq(S) /\ Len(Join(a, b)) = 1 + Len(b) /\ Len(b) \in Nat
      /\ Join(a, b)[1] = a[1]
  <2>1. 1 \in 1 .. Len(a) + Len(b) /\ 1 <= Len(a) /\ Len(b) \in Nat
      BY JoinIs
  <2> QED BY <2>1, JoinIs
<1>2. Join(a, b) # <<>>
    BY <1>1, EmptySeq
<1>3. Head(Join(a, b)) = a[1] /\ Tail(Join(a, b)) = SubSeq(Join(a, b), 2, Len(Join(a, b)))
  <2> DEFINE j == Join(a, b)
  <2> HIDE DEF j
  <2>1. j \in Seq(S) /\ j # <<>> /\ j[1] = a[1]
      BY <1>1, <1>2 DEF j
  <2>2. Head(j) = j[1] /\ Tail(j) = SubSeq(j, 2, Len(j))
      BY <2>1, HeadTailProperties, TailIsSubSeq
  <2> QED BY <2>1, <2>2 DEF j
<1>4. SubSeq(Join(a, b), 2, Len(Join(a, b))) = b
  <2>1. 2 = Len(a) + 1
      OBVIOUS
  <2> QED BY <2>1, SecondPart, Zenon
<1> QED BY <1>1, <1>2, <1>3, <1>4

LEMMA InBookIs ==
    ASSUME NEW n \in Text, NEW path \in Text
    PROVE  /\ Join(Slash, path) \in Text /\ Join(n, Join(Slash, path)) \in Text
           /\ InBook(n, path) \in Text /\ Len(InBook(n, path)) = Len(n) + Len(path) + 2
           /\ InBook(n, path)[1] = "/"
           /\ \A i \in 1 .. Len(n) : InBook(n, path)[i + 1] = n[i]
           /\ InBook(n, path)[Len(n) + 2] = "/"
<1> DEFINE a == Join(Slash, path)
           b == Join(n, a)
           c == Join(Slash, b)
<1>1. Slash \in Text /\ Len(Slash) = 1 /\ Slash[1] = "/"
    BY SlashIs
<1>2. Len(path) \in Nat /\ a \in Text /\ Len(a) = 1 + Len(path) /\ a[1] = "/"
  <2>1. Len(path) \in Nat /\ a \in Text /\ Len(a) = 1 + Len(path)
      BY <1>1, TextsJoin
  <2>2. a[1] = Slash[1]
      BY <1>1, HeadAndTail DEF Text
  <2> QED BY <1>1, <2>1, <2>2
<1> HIDE DEF a
<1>3. /\ Len(n) \in Nat /\ b \in Text /\ Len(b) = Len(n) + Len(a)
      /\ \A i \in 1 .. Len(n) + Len(a) : b[i] = IF i <= Len(n) THEN n[i] ELSE a[i - Len(n)]
    BY <1>2, TextsJoin
<1>4. \A i \in 1 .. Len(n) : b[i] = n[i]
    BY <1>2, <1>3
<1>5. b[Len(n) + 1] = "/"
  <2>1. Len(n) + 1 \in 1 .. Len(n) + Len(a) /\ ~(Len(n) + 1 <= Len(n)) /\ (Len(n) + 1) - Len(n) = 1
      BY <1>2, <1>3
  <2> QED BY <1>2, <1>3, <2>1
<1> HIDE DEF b
<1>6. /\ c \in Text /\ Len(c) = 1 + Len(b) /\ c[1] = "/"
      /\ \A i \in 1 .. 1 + Len(b) : c[i] = IF i <= 1 THEN Slash[i] ELSE b[i - 1]
  <2>1. /\ c \in Text /\ Len(c) = Len(Slash) + Len(b)
        /\ \A i \in 1 .. Len(Slash) + Len(b) : c[i] = IF i <= Len(Slash) THEN Slash[i] ELSE b[i - Len(Slash)]
      BY <1>1, <1>3, TextsJoin
  <2>2. c[1] = Slash[1]
      BY <1>1, <1>3, HeadAndTail DEF Text
  <2> QED BY <1>1, <2>1, <2>2
<1> HIDE DEF c
<1>7. ASSUME NEW i \in 1 .. Len(b) PROVE c[i + 1] = b[i]
  <2>1. i + 1 \in 1 .. 1 + Len(b) /\ ~(i + 1 <= 1) /\ (i + 1) - 1 = i
      BY <1>2, <1>3
  <2> QED BY <1>6, <2>1
<1>8. \A i \in 1 .. Len(n) : c[i + 1] = n[i]
    BY <1>2, <1>3, <1>4, <1>7
<1>9. c[Len(n) + 2] = "/"
  <2>1. Len(n) + 1 \in 1 .. Len(b) /\ (Len(n) + 1) + 1 = Len(n) + 2
      BY <1>2, <1>3
  <2> QED BY <1>5, <1>7, <2>1
<1>10. Len(c) = Len(n) + Len(path) + 2
    BY <1>2, <1>3, <1>6
<1> QED BY <1>2, <1>3, <1>6, <1>8, <1>9, <1>10 DEF InBook, a, b, c

(* A link that a browser sends as a whole.                                 *)
Whole(link) == link \in Link /\ \A char \in {"#", "?"} : Free(link, {char})

LEMMA WholeOfBoth ==
    ASSUME NEW a, NEW b, Whole(a), Whole(b)
    PROVE  Whole(Join(a, b)) /\ Decode(Join(a, b)) = Join(Decode(a), Decode(b))
<1>1. a \in Link /\ b \in Link
    BY DEF Whole
<1>2. Join(a, b) \in Link /\ Decode(Join(a, b)) = Join(Decode(a), Decode(b))
    BY <1>1, DecodeOfBoth, Zenon
<1>3. ASSUME NEW char \in {"#", "?"} PROVE Free(Join(a, b), {char})
    BY <1>1, FreeOfBoth, Zenon DEF Whole
<1> QED BY <1>2, <1>3 DEF Whole

LEMMA WholeIsSent ==
    ASSUME NEW link, Whole(link)
    PROVE  FullUrl(link) = Decode(link)
<1>1. link \in Link /\ Free(link, {"#"}) /\ Free(link, {"?"})
    BY DEF Whole
<1>2. Before(link, {"#"}) = link /\ Before(link, {"?"}) = link
    BY <1>1, BeforeNone, Zenon
<1> QED BY <1>2, Zenon DEF FullUrl

(* A text with nothing in it that a URL cannot have.                       *)
Harmless(text) ==
    text \in Text /\ \A i \in 1 .. Len(text) : text[i] \notin {"?", "#", "%20", "%26"}

LEMMA RootIsHarmless == \A r \in Root : Harmless(r)
BY LinksAssumption, TextsOfTheServer DEF Harmless, Contains

LEMMA HarmlessOfBoth ==
    ASSUME NEW a, NEW b, Harmless(a), Harmless(b)
    PROVE  Harmless(Join(a, b))
<1>1. a \in Text /\ b \in Text
    BY DEF Harmless
<1>2. /\ Join(a, b) \in Text /\ Len(Join(a, b)) = Len(a) + Len(b)
      /\ Len(a) \in Nat /\ Len(b) \in Nat
      /\ \A i \in 1 .. Len(a) + Len(b) : Join(a, b)[i] = IF i <= Len(a) THEN a[i] ELSE b[i - Len(a)]
    BY <1>1, TextsJoin
<1>3. ASSUME NEW i \in 1 .. Len(a) + Len(b)
      PROVE  Join(a, b)[i] \notin {"?", "#", "%20", "%26"}
  <2>1. CASE i <= Len(a)
    <3>1. i \in 1 .. Len(a) /\ Join(a, b)[i] = a[i]
        BY <1>2, <2>1
    <3> QED BY <3>1 DEF Harmless
  <2>2. CASE ~(i <= Len(a))
    <3>1. i - Len(a) \in 1 .. Len(b) /\ Join(a, b)[i] = b[i - Len(a)]
        BY <1>2, <2>2
    <3> QED BY <3>1 DEF Harmless
  <2> QED BY <2>1, <2>2
<1> QED BY <1>2, <1>3 DEF Harmless

LEMMA SlashIsHarmless == Harmless(Slash)
<1>1. Slash \in Text /\ Len(Slash) = 1 /\ Slash[1] = "/"
    BY SlashIs
<1> QED BY <1>1 DEF Harmless

LEMMA HarmlessIsWhole ==
    ASSUME NEW text, Harmless(text), NEW chars
    PROVE  Whole(Escaping(text, chars)) /\ Decode(Escaping(text, chars)) = text
<1>1. text \in Text
    BY DEF Harmless
<1>2. Escaping(text, chars) \in Link
    BY <1>1, EscapingIs
<1>3. Decode(Escaping(text, chars)) = text
    BY <1>1, DecodedIsText DEF Harmless
<1>4. ASSUME NEW char \in {"#", "?"} PROVE Free(Escaping(text, chars), {char})
    BY <1>1, EscapingIsFree DEF Harmless
<1> QED BY <1>2, <1>3, <1>4 DEF Whole

LEMMA TextsOfThree ==
    ASSUME NEW a \in Text, NEW b \in Text, NEW c \in Text
    PROVE  Join(a, b) \in Text /\ Join(Join(a, b), c) = Join(a, Join(b, c))
BY TextsJoin, JoinOfThree DEF Text

LEMMA TextOfLink ==
    ASSUME NEW r \in Text, NEW n \in Text, NEW path \in Text
    PROVE  Join(Join(Join(Join(r, Slash), n), Slash), path) = Join(r, InBook(n, path))
<1> DEFINE b == Join(Slash, path)
           c == Join(n, b)
           start == Join(r, Slash)
           an == Join(start, n)
<1>1. Slash \in Text /\ b \in Text /\ c \in Text
    BY InBookIs, SlashIs
<1>2. start \in Text /\ Join(start, c) = Join(r, Join(Slash, c))
    BY <1>1, TextsOfThree
<1> HIDE DEF c, start
<1>3. an \in Text /\ Join(an, b) = Join(start, Join(n, b))
    BY <1>1, <1>2, TextsOfThree
<1> HIDE DEF b, an
<1>4. Join(Join(an, Slash), path) = Join(an, Join(Slash, path))
    BY <1>1, <1>3, TextsOfThree
<1> QED BY <1>2, <1>3, <1>4, Zenon DEF InBook, an, b, c, start

LEMMA FullUrlIs ==
    ASSUME root \in Root, NEW n \in Text, NEW path \in Text, NEW bookLink, NEW pathLink,
           Whole(bookLink), Whole(pathLink), Decode(bookLink) = n, Decode(pathLink) = path
    PROVE  FullUrl(Below(bookLink, pathLink)) = Join(root, InBook(n, path))
<1> DEFINE start == Join(root, Slash)
           a == Raw(start)
           s == Raw(Slash)
           ab == Join(a, bookLink)
           abs == Join(ab, s)
           an == Join(start, n)
           ans == Join(an, Slash)
<1>1. Harmless(start) /\ Harmless(Slash)
    BY RootIsHarmless, SlashIsHarmless, HarmlessOfBoth
<1>2. start \in Text /\ Slash \in Text /\ root \in Text
    BY <1>1, RootIsHarmless DEF Harmless
<1>3. Below(bookLink, pathLink) = Join(abs, pathLink)
    BY Zenon DEF Below, Join, Slash
<1>4. Join(Join(Join(start, n), Slash), path) = Join(root, InBook(n, path))
    BY <1>2, TextOfLink
<1> HIDE DEF start
<1>5. Whole(a) /\ Decode(a) = start /\ Whole(s) /\ Decode(s) = Slash
    BY <1>1, HarmlessIsWhole, Zenon DEF Raw
<1> HIDE DEF a, s
<1>6. Whole(ab) /\ Decode(ab) = an
    BY <1>5, WholeOfBoth, Zenon
<1> HIDE DEF ab, an
<1>8. Whole(abs) /\ Decode(abs) = ans
    BY <1>5, <1>6, WholeOfBoth, Zenon
<1> HIDE DEF abs, ans
<1>10. Whole(Join(abs, pathLink)) /\ Decode(Join(abs, pathLink)) = Join(ans, path)
    BY <1>8, WholeOfBoth, Zenon
<1> QED BY <1>3, <1>4, <1>10, WholeIsSent, Zenon DEF ans, an

LEMMA PrefixOfBoth ==
    ASSUME NEW a \in Text, NEW b \in Text
    PROVE  IsPrefix(a, Join(a, b))
<1>1. Len(a) <= Len(Join(a, b))
  <2>1. Len(a) \in Nat /\ Len(b) \in Nat /\ Len(Join(a, b)) = Len(a) + Len(b)
      BY TextsJoin
  <2> HIDE DEF Join
  <2> QED BY <2>1
<1>2. SubSeq(a, 1, Len(a)) = a /\ SubSeq(Join(a, b), 1, Len(a)) = a
    BY SubSeqFull, FirstPart DEF Text
<1> QED BY <1>1, <1>2 DEF IsPrefix

LEMMA LocalUrlIs ==
    ASSUME root \in Root, NEW rest \in Text, NEW url, url = Join(Slash, rest)
    PROVE  LocalUrl(Join(root, url)) = url
<1> DEFINE full == Join(root, url)
<1>1. root \in Text /\ Slash \in Text /\ Len(Slash) = 1
    BY TextsOfTheServer, SlashIs
<1>2. url \in Text /\ Len(url) = 1 + Len(rest) /\ Len(rest) \in Nat
    BY <1>1, TextsJoin
<1>3. full \in Text /\ Len(full) = Len(root) + Len(url) /\ Len(root) \in Nat
    BY <1>1, <1>2, TextsJoin
<1>4. CASE root = <<>>
  <2>1. full = url
      BY <1>2, <1>4, ConcatEmptySeq DEF Text, Join
  <2> HIDE DEF full
  <2> QED BY <1>4, <2>1 DEF LocalUrl, full
<1>5. CASE root # <<>>
  <2>1. full # root
    <3> HIDE DEF full
    <3> QED BY <1>2, <1>3
  <2>2. IsPrefix(root \o <<"/">>, full)
    <3>1. full = Join(Join(root, Slash), rest)
        BY <1>1, JoinOfThree DEF Text
    <3>2. Join(root, Slash) \in Text
        BY <1>1, TextsJoin
    <3>3. IsPrefix(Join(root, Slash), full)
        BY <3>1, <3>2, PrefixOfBoth, Zenon
    <3> QED BY <3>3, Zenon DEF Join, Slash
  <2>3. SubSeq(full, Len(root) + 1, Len(full)) = url
    <3>1. root \in Seq(Character) /\ url \in Seq(Character)
        BY <1>1, <1>2 DEF Text
    <3>2. PICK m, n : m = Len(root) + 1 /\ n = Len(full)
        OBVIOUS
    <3>3. SubSeq(full, m, n) = url
        BY <3>1, <3>2, SecondPart
    <3> QED BY <3>2, <3>3, Zenon
  <2> HIDE DEF full
  <2>4. LocalUrl(full) = url
      BY <1>5, <2>1, <2>2, <2>3, Zenon DEF LocalUrl
  <2> QED BY <2>4 DEF full
<1> QED BY <1>4, <1>5

NameLike(n) == n \in Text \ {<<>>} /\ \A i \in 1 .. Len(n) : n[i] # "/"

LEMMA NamesAreNameLike == \A n \in BookName : NameLike(n)
BY LinksAssumption, TextsOfTheServer DEF NameLike, Contains

LEMMA AfterSlash ==
    ASSUME NEW text \in Text
    PROVE  /\ Join(Slash, text) \in Text /\ Len(Join(Slash, text)) = 1 + Len(text) /\ Len(text) \in Nat
           /\ Join(Slash, text) # <<>> /\ Head(Join(Slash, text)) = "/" /\ Join(Slash, text)[1] = "/"
           /\ Tail(Join(Slash, text)) = text
<1>1. Slash \in Text /\ Len(Slash) = 1 /\ Slash[1] = "/"
    BY SlashIs
<1>2. Join(Slash, text) \in Text /\ Len(Join(Slash, text)) = 1 + Len(text) /\ Len(text) \in Nat
    BY <1>1, TextsJoin
<1>3. /\ Join(Slash, text) # <<>> /\ Head(Join(Slash, text)) = "/" /\ Join(Slash, text)[1] = "/"
      /\ Tail(Join(Slash, text)) = text
    BY <1>1, HeadAndTail DEF Text
<1> QED BY <1>2, <1>3

LEMMA TextParts ==
    ASSUME NEW a \in Text, NEW b \in Text, NEW m, NEW n, m = Len(a) + 1, n = Len(Join(a, b))
    PROVE  SubSeq(Join(a, b), 1, Len(a)) = a /\ SubSeq(Join(a, b), m, n) = b
BY FirstPart, SecondPart DEF Text

LEMMA PartsOfUrl ==
    ASSUME NEW n, NameLike(n), NEW path \in Text
    PROVE  BookNameOf(InBook(n, path)) = n /\ PathOfUrl(InBook(n, path), n) = path
<1> DEFINE b == Join(Slash, path)
           rest == Join(n, b)
           url == Join(Slash, rest)
           I == {i \in 1 .. Len(rest) : rest[i] = "/"}
<1>1. n \in Text /\ Slash \in Text /\ Len(Slash) = 1 /\ Slash[1] = "/"
    BY SlashIs DEF NameLike
<1>2. /\ b \in Text /\ Len(b) = 1 + Len(path) /\ Len(path) \in Nat
    BY AfterSlash
<1>3. b # <<>> /\ Head(b) = "/" /\ b[1] = "/" /\ Tail(b) = path
    BY AfterSlash
<1> HIDE DEF b
<1>4. /\ rest \in Text /\ Len(rest) = Len(n) + Len(b) /\ Len(n) \in Nat
      /\ \A i \in 1 .. Len(n) + Len(b) : rest[i] = IF i <= Len(n) THEN n[i] ELSE b[i - Len(n)]
    BY <1>1, <1>2, TextsJoin
<1>5. Tail(url) = rest
    BY <1>4, AfterSlash
<1>6. SubSeq(rest, 1, Len(n)) = n
    BY <1>1, <1>2, FirstPart DEF Text
<1>7. Len(n) + 1 \in I /\ \A i \in I : i >= Len(n) + 1
  <2>1. Len(n) + 1 \in 1 .. Len(n) + Len(b) /\ ~(Len(n) + 1 <= Len(n)) /\ (Len(n) + 1) - Len(n) = 1
      BY <1>2, <1>4
  <2>2. Len(n) + 1 \in I
      BY <1>3, <1>4, <2>1
  <2>3. ASSUME NEW i \in I, ~(i >= Len(n) + 1) PROVE FALSE
    <3>1. i \in 1 .. Len(n) /\ rest[i] = n[i] /\ rest[i] = "/"
        BY <1>2, <1>4, <2>3
    <3> QED BY <3>1 DEF NameLike
  <2> QED BY <2>2, <2>3
<1>8. SelectInSeq(rest, LAMBDA c : c = "/") = Len(n) + 1
  <2>1. SelectInSeq(rest, LAMBDA c : c = "/") = IF I # {} THEN Min(I) ELSE 0
      BY DEF SelectInSeq
  <2>2. I \subseteq Nat /\ I # {}
      BY <1>7
  <2> HIDE DEF I
  <2>3. Min(I) \in I /\ Min(I) <= Len(n) + 1
      BY <1>7, <2>2, SmallestNumber
  <2>4. Min(I) = Len(n) + 1
    <3>1. PICK q : q = Min(I)
        OBVIOUS
    <3>2. q \in Nat /\ q >= Len(n) + 1 /\ q <= Len(n) + 1
        BY <1>7, <2>2, <2>3, <3>1
    <3> QED BY <1>4, <3>1, <3>2
  <2> QED BY <2>1, <2>2, <2>4
<1>9. BookNameOf(url) = n
  <2>1. (Len(n) + 1) - 1 = Len(n) /\ Len(n) + 1 # 0
      BY <1>4
  <2> HIDE DEF url, rest
  <2> QED BY <1>5, <1>6, <1>8, <2>1 DEF BookNameOf
<1>10. SubSeq(url, Len(n) + 2, Len(url)) = b
  <2> DEFINE a == Join(Slash, n)
  <2>1. url = Join(a, b) /\ a \in Text
      BY <1>1, <1>2, TextsOfThree
  <2>2. Len(a) = Len(n) + 1
      BY <1>1, <1>4, AfterSlash
  <2> HIDE DEF a, url
  <2>3. PICK m, k : m = Len(n) + 2 /\ k = Len(url)
      OBVIOUS
  <2>4. m = Len(a) + 1
      BY <1>4, <2>2, <2>3
  <2>5. SubSeq(Join(a, b), m, k) = b
    <3>1. k = Len(Join(a, b))
        BY <2>1, <2>3, Zenon
    <3>2. ASSUME NEW u \in Text, NEW v \in Text, m = Len(u) + 1, k = Len(Join(u, v))
          PROVE  SubSeq(Join(u, v), m, k) = v
        BY <3>2, TextParts
    <3>3. a \in Text /\ b \in Text
        BY <1>2, <2>1
    <3> QED BY <2>4, <3>1, <3>2, <3>3
  <2> QED BY <2>1, <2>3, <2>5, Zenon
<1> HIDE DEF url
<1>11. PathOfUrl(url, n) = path
    BY <1>3, <1>10, Zenon DEF PathOfUrl
<1> QED BY <1>9, <1>11, Zenon DEF url, rest, b, InBook

(* What is below the book is asked of no other handler.                    *)
LEMMA BookAnswers ==
    ASSUME root \in Root, name \in BookName, PlainName,
           NEW path \in DOMAIN Entries \cup {<<>>}, NEW bookLink, NEW pathLink,
           Whole(bookLink), Whole(pathLink), Decode(bookLink) = name, Decode(pathLink) = path
    PROVE  Answers(Below(bookLink, pathLink)) = {HandleContent(InBook(name, path))}
<1> DEFINE url == InBook(name, path)
           link == Below(bookLink, pathLink)
<1>1. name \in Text /\ path \in Text /\ NameLike(name) /\ name # <<>>
    BY TextsOfTheServer, NamesAreNameLike DEF NameLike
<1>2. FullUrl(link) = Join(root, url)
    BY <1>1, FullUrlIs
<1>3. LocalUrl(Join(root, url)) = url
  <2>1. Join(name, Join(Slash, path)) \in Text
      BY <1>1, InBookIs
  <2> QED BY <2>1, LocalUrlIs, Zenon DEF InBook
<1>4. /\ url \in Text /\ Len(url) = Len(name) + Len(path) + 2 /\ Len(path) \in Nat
      /\ \A i \in 1 .. Len(name) : url[i + 1] = name[i]
      /\ url[Len(name) + 2] = "/"
      /\ Len(name) \in Nat \ {0}
  <2>1. Len(path) \in Nat /\ Len(name) \in Nat \ {0}
      BY <1>1, EmptySeq DEF Text
  <2> QED BY <1>1, <2>1, InBookIs
<1>5. Len(url) >= 3 /\ url # <<>>
    BY <1>4
<1> HIDE DEF url, link
<1>6. url[2] = name[1] /\ name[1] # "/"
  <2>1. 1 \in 1 .. Len(name) /\ 1 + 1 = 2
      BY <1>4
  <2> QED BY <1>1, <1>4, <2>1 DEF NameLike
<1>7. url[3] = "/" => Len(name) = 1 /\ name = <<url[2]>>
  <2>1. ASSUME Len(name) # 1 PROVE url[3] # "/"
    <3>1. 2 \in 1 .. Len(name) /\ 2 + 1 = 3
      <4>1. Len(name) \in Nat \ {0}
          BY <1>4
      <4>2. PICK k : k = Len(name)
          OBVIOUS
      <4> QED BY <2>1, <4>1, <4>2
    <3> QED BY <1>1, <1>4, <3>1 DEF NameLike
  <2>2. ASSUME Len(name) = 1 PROVE name = <<url[2]>>
      BY <1>1, <1>6, <2>2, SeqEqual DEF Text
  <2> QED BY <2>1, <2>2
<1>8. url # <<"/", "random">> /\ url \notin {<<"/", page>> : page \in {"meta", "search", "suggest"}}
    BY <1>5
<1>9. url # <<"/", "catch", "/", "external">>
  <2> SUFFICES ASSUME url = <<"/", "catch", "/", "external">> PROVE FALSE
      OBVIOUS
  <2>1. url[2] = "catch" /\ url[3] = "/" /\ url[4] = "external" /\ Len(url) = 4
      OBVIOUS
  <2>2. name = <<"catch">> /\ Len(name) = 1
      BY <1>7, <2>1
  <2>3. url = InBook(name, <<"external">>)
      BY <2>2 DEF InBook, Join, Slash
  <2>4. path = <<"external">>
    <3>1. PathOfUrl(url, name) = path
        BY <1>1, PartsOfUrl DEF url
    <3>2. <<"external">> \in Text
        BY CharacterIs DEF Character
    <3>3. PathOfUrl(url, name) = <<"external">>
        BY <1>1, <2>3, <3>2, PartsOfUrl, Zenon
    <3> QED BY <3>1, <3>3
  <2>5. path \in DOMAIN Entries
      BY <2>4
  <2> QED BY <2>2, <2>4, <2>5 DEF PlainName
<1>10. ~ \E page \in {"skin", "catalog"} : IsPrefix(<<"/", page, "/">>, url)
  <2> SUFFICES ASSUME NEW page \in {"skin", "catalog"}, IsPrefix(<<"/", page, "/">>, url) PROVE FALSE
      OBVIOUS
  <2>1. SubSeq(url, 1, 3) = SubSeq(<<"/", page, "/">>, 1, 3) /\ Len(<<"/", page, "/">>) = 3
      BY DEF IsPrefix
  <2>2. SubSeq(url, 1, 3)[2] = url[2] /\ SubSeq(url, 1, 3)[3] = url[3]
      BY <1>4, <1>5 DEF Text
  <2>3. url[2] = page /\ url[3] = "/"
      BY <2>1, <2>2
  <2> QED BY <1>7, <2>3 DEF PlainName
<1> QED BY <1>2, <1>3, <1>5, <1>8, <1>9, <1>10, Zenon DEF Answers, url, link

LEMMA OneEscaped ==
    ASSUME NEW c \in Character, NEW chars, c \notin chars
    PROVE  LET e == Escaping(<<c>>, chars) IN
           e \in Link /\ Len(e) = 1 /\ e[1] = [char |-> c, escaped |-> FALSE]
           /\ ~e[1].escaped /\ e[1].char = c
<1> DEFINE e == Escaping(<<c>>, chars)
<1>1. <<c>> \in Text /\ Len(<<c>>) = 1 /\ <<c>>[1] = c /\ DOMAIN <<c>> = 1 .. 1
    BY CharacterIs
<1>2. e \in Link /\ Len(e) = 1
    BY <1>1, EscapingIs
<1>3. e[1] = [char |-> c, escaped |-> FALSE]
  <2>1. e[1] = [char |-> <<c>>[1], escaped |-> <<c>>[1] \in chars]
      BY <1>1 DEF Escaping
  <2>2. (<<c>>[1] \in chars) = FALSE
      BY <1>1
  <2> QED BY <1>1, <2>1, <2>2
<1> HIDE DEF e
<1>4. ~e[1].escaped /\ e[1].char = c
    BY <1>3
<1> QED BY <1>2, <1>3, <1>4 DEF e

LEMMA TwoJoined ==
    ASSUME NEW a, NEW b
    PROVE  <<a, b>> = Join(<<a>>, <<b>>)
<1> DEFINE S == {a, b}
           j == Join(<<a>>, <<b>>)
<1>1. /\ <<a>> \in Seq(S) /\ Len(<<a>>) = 1 /\ <<a>>[1] = a
      /\ <<b>> \in Seq(S) /\ Len(<<b>>) = 1 /\ <<b>>[1] = b
      /\ <<a, b>> \in Seq(S) /\ Len(<<a, b>>) = 2 /\ <<a, b>>[1] = a /\ <<a, b>>[2] = b
    OBVIOUS
<1> HIDE DEF S
<1>2. /\ j \in Seq(S) /\ Len(j) = Len(<<a>>) + Len(<<b>>)
      /\ \A i \in 1 .. Len(<<a>>) + Len(<<b>>) :
            j[i] = IF i <= Len(<<a>>) THEN <<a>>[i] ELSE <<b>>[i - Len(<<a>>)]
    BY <1>1, JoinIs
<1> HIDE DEF j
<1>3. Len(j) = 2 /\ j[1] = a /\ j[2] = b
    BY <1>1, <1>2
<1>4. \A i \in 1 .. 2 : <<a, b>>[i] = j[i]
    BY <1>1, <1>3
<1> QED BY <1>1, <1>2, <1>3, <1>4, SeqEqual DEF j

LEMMA LinksOfThree ==
    ASSUME NEW a \in Link, NEW b \in Link, NEW c \in Link
    PROVE  Join(a, b) \in Link /\ Join(Join(a, b), c) = Join(a, Join(b, c))
BY LinksJoin, JoinOfThree DEF Link

LEMMA ArgumentIs ==
    ASSUME root \in Root, NEW page, Harmless(page), NEW key \in Character \ {"#"}, NEW chars,
           "?" \notin chars, key \notin chars, NEW u \in Link, Free(u, {"#"}), Free(u, {"&"}),
           NEW link, link = Join(Escaping(Join(Join(root, page), <<"?", key>>), chars), u)
    PROVE  FullUrl(link) = Join(root, page) /\ Argument(link, key) = Decode(u)
<1> DEFINE p == Escaping(Join(root, page), chars)
           q == Escaping(<<"?">>, chars)
           k == Escaping(<<key>>, chars)
           ku == Join(k, u)
           qku == Join(q, ku)
           pq == Join(p, q)
<1>1. Harmless(Join(root, page)) /\ Join(root, page) \in Text
    BY RootIsHarmless, HarmlessOfBoth DEF Harmless
<1>2. Whole(p) /\ Decode(p) = Join(root, page) /\ p \in Link /\ Free(p, {"#"}) /\ Free(p, {"?"})
    BY <1>1, HarmlessIsWhole DEF Whole
<1>3. "?" \in Character /\ <<"?">> \in Text /\ <<key>> \in Text
    BY CharacterIs DEF Character
<1>4. q \in Link /\ Len(q) = 1 /\ ~q[1].escaped /\ q[1].char = "?"
    BY <1>3, OneEscaped
<1>5. k \in Link /\ Len(k) = 1 /\ k[1] = [char |-> key, escaped |-> FALSE]
      /\ ~k[1].escaped /\ k[1].char = key
    BY OneEscaped
<1>6. Escaping(Join(Join(root, page), <<"?", key>>), chars) = Join(p, Join(q, k))
  <2>1. Join(<<"?">>, <<key>>) \in Text /\ Escaping(Join(<<"?">>, <<key>>), chars) = Join(q, k)
      BY <1>3, EscapingOfBoth
  <2>2. <<"?", key>> = Join(<<"?">>, <<key>>)
      BY TwoJoined
  <2>3. Escaping(Join(Join(root, page), <<"?", key>>), chars)
          = Join(p, Escaping(<<"?", key>>, chars))
    <3>1. ASSUME NEW v \in Text
          PROVE  Escaping(Join(Join(root, page), v), chars)
                   = Join(Escaping(Join(root, page), chars), Escaping(v, chars))
        BY <1>1, EscapingOfBoth
    <3>2. <<"?", key>> \in Text
        BY <2>1, <2>2
    <3> QED BY <3>1, <3>2
  <2> QED BY <2>1, <2>2, <2>3, Zenon
<1> HIDE DEF p, q, k
<1>7. ku \in Link /\ qku \in Link /\ pq \in Link /\ link = Join(p, qku) /\ Join(p, qku) = Join(pq, ku)
  <2>1. ku \in Link /\ Join(Join(q, k), u) = Join(q, ku) /\ Join(q, k) \in Link
      BY <1>4, <1>5, LinksOfThree
  <2>2. link = Join(Join(p, Join(q, k)), u)
      BY <1>6, Zenon
  <2>3. Join(Join(p, Join(q, k)), u) = Join(p, Join(Join(q, k), u))
      BY <1>2, <2>1, LinksOfThree, Zenon
  <2> HIDE DEF ku
  <2>4. qku \in Link /\ pq \in Link /\ Join(pq, ku) = Join(p, qku)
      BY <1>2, <1>4, <2>1, LinksOfThree
  <2> QED BY <2>1, <2>2, <2>3, <2>4, Zenon
<1>8. Free(link, {"#"})
  <2>1. Free(q, {"#"}) /\ Free(k, {"#"})
      BY <1>4, <1>5 DEF Free
  <2>2. Free(ku, {"#"})
      BY <1>5, <2>1, FreeOfBoth, Zenon
  <2>3. Free(qku, {"#"})
      BY <1>4, <1>7, <2>1, <2>2, FreeOfBoth, Zenon
  <2>4. p \in Link /\ qku \in Link /\ Free(p, {"#"}) /\ link = Join(p, qku)
      BY <1>2, <1>7, Zenon
  <2>5. Free(Join(p, qku), {"#"})
      BY <2>3, <2>4, FreeOfBoth, ZenonT(30)
  <2> QED BY <2>4, <2>5, Zenon
<1>9. ku # <<>> /\ Head(ku) = k[1] /\ Tail(ku) = u
    BY <1>5, HeadAndTail DEF Link
<1> HIDE DEF ku
<1>10. qku # <<>> /\ qku[1] = q[1]
    BY <1>4, <1>7, HeadAndTail DEF Link
<1> HIDE DEF qku
<1>11. link \in Link /\ Before(link, {"#"}) = link
  <2>1. link \in Link
      BY <1>2, <1>7, LinksJoin
  <2> QED BY <1>8, <2>1, BeforeNone
<1>12. Before(link, {"?"}) = p
    BY <1>2, <1>4, <1>7, <1>10, BeforeThat
<1>13. SubSeq(link, Len(p) + 2, Len(link)) = ku
  <2>1. Len(pq) = Len(p) + 1 /\ Len(p) \in Nat
    <3>1. p \in Link /\ q \in Link /\ Len(q) = 1
        BY <1>2, <1>4, Zenon
    <3>2. Len(p) \in Nat /\ Len(Join(p, q)) = Len(p) + Len(q)
        BY <3>1, LinksJoin, ZenonT(30)
    <3> QED BY <3>1, <3>2, Zenon
  <2> HIDE DEF pq
  <2>2. PICK m, n : m = Len(p) + 2 /\ n = Len(link)
      OBVIOUS
  <2>3. m = Len(pq) + 1 /\ link = Join(pq, ku) /\ n = Len(Join(pq, ku))
      BY <1>7, <2>1, <2>2
  <2>4. SubSeq(Join(pq, ku), m, n) = ku
      BY <1>7, <2>3, SecondPart DEF Link
  <2> QED BY <2>2, <2>3, <2>4, Zenon
<1>14. Before(u, {"&"}) = u
    BY BeforeNone
<1>15. FullUrl(link) = Join(root, page)
    BY <1>2, <1>11, <1>12, Zenon DEF FullUrl
<1>16. Argument(link, key) = Decode(u)
  <2>1. Head(ku) = [char |-> key, escaped |-> FALSE]
      BY <1>5, <1>9, Zenon
  <2> QED BY <1>9, <1>11, <1>12, <1>13, <1>14, <2>1, Zenon DEF Argument
<1> QED BY <1>15, <1>16

LEMMA EncodedIsWhole ==
    ASSUME NEW text \in Text, NEW chars,
           \A i \in 1 .. Len(text) : text[i] \in {"?", "#", "%20", "%26"} => text[i] \in chars
    PROVE  Whole(Escaping(text, chars)) /\ Decode(Escaping(text, chars)) = text
<1>1. Escaping(text, chars) \in Link
    BY EscapingIs
<1>2. Decode(Escaping(text, chars)) = text
    BY DecodedIsText
<1>3. ASSUME NEW char \in {"#", "?"} PROVE Free(Escaping(text, chars), {char})
    BY EscapingIsFree
<1> QED BY <1>1, <1>2, <1>3 DEF Whole

(* The name of a book in a link, as it is and encoded.                     *)
LEMMA NameIsWhole ==
    ASSUME name \in BookName
    PROVE  /\ PlainName => Whole(Raw(name)) /\ Decode(Raw(name)) = name
           /\ Whole(UrlEncode(name, TRUE)) /\ Decode(UrlEncode(name, TRUE)) = name
           /\ Free(UrlEncode(name, TRUE), {"&"})
<1>1. name \in Text
    BY TextsOfTheServer
<1>2. ASSUME PlainName PROVE Whole(Raw(name)) /\ Decode(Raw(name)) = name
  <2>1. Harmless(name)
      BY <1>1, <1>2, HasNot DEF Harmless, PlainName
  <2> QED BY <2>1, HarmlessIsWhole DEF Raw
<1>3. /\ Whole(UrlEncode(name, TRUE)) /\ Decode(UrlEncode(name, TRUE)) = name
  <2>1. {"?", "#", "%20", "%26"} \subseteq Unsafe \cup Reserved
      BY DEF Unsafe, Reserved
  <2>2. UrlEncode(name, TRUE) = Escaping(name, Unsafe \cup Reserved)
      BY DEF UrlEncode
  <2> QED BY <1>1, <2>1, <2>2, EncodedIsWhole
<1>4. Free(UrlEncode(name, TRUE), {"&"})
    BY <1>1, EscapingIsFree DEF UrlEncode, Reserved
<1> QED BY <1>2, <1>3, <1>4

LEMMA PathIsWhole ==
    ASSUME NEW path \in Text
    PROVE  /\ ~Has(path, {"?", "#", "%20", "%26"}) => Whole(Raw(path)) /\ Decode(Raw(path)) = path
           /\ ~Has(path, {"?", "#"}) => Whole(EncodeURI(path)) /\ Decode(EncodeURI(path)) = path
           /\ ~Has(path, {"?"}) => Whole(UrlEncode(path, FALSE)) /\ Decode(UrlEncode(path, FALSE)) = path
<1>1. ASSUME ~Has(path, {"?", "#", "%20", "%26"}) PROVE Whole(Raw(path)) /\ Decode(Raw(path)) = path
  <2>1. Harmless(path)
      BY <1>1, HasNot DEF Harmless
  <2> QED BY <2>1, HarmlessIsWhole DEF Raw
<1>2. ASSUME ~Has(path, {"?", "#"}) PROVE Whole(EncodeURI(path)) /\ Decode(EncodeURI(path)) = path
  <2>1. \A i \in 1 .. Len(path) : path[i] \notin {"?", "#"}
      BY <1>2, HasNot
  <2>2. {"%20", "%26"} \subseteq Unsafe \ {"#"}
      BY DEF Unsafe
  <2> QED BY <2>1, <2>2, EncodedIsWhole DEF EncodeURI
<1>3. ASSUME ~Has(path, {"?"}) PROVE Whole(UrlEncode(path, FALSE)) /\ Decode(UrlEncode(path, FALSE)) = path
  <2>1. \A i \in 1 .. Len(path) : path[i] \notin {"?"}
      BY <1>3, HasNot
  <2>2. {"#", "%20", "%26"} \subseteq Unsafe
      BY DEF Unsafe
  <2>3. UrlEncode(path, FALSE) = Escaping(path, Unsafe)
      BY DEF UrlEncode
  <2> QED BY <2>1, <2>2, <2>3, EncodedIsWhole
<1> QED BY <1>1, <1>2, <1>3

(* What the handler of contents makes of an entry, and of the book alone.  *)
LEMMA ContentIs ==
    ASSUME name \in BookName, NEW path \in DOMAIN Entries
    PROVE  \/ HandleContent(InBook(name, path)) = Redirect(Entries[path]) /\ Entries[path] # path
           \/ HandleContent(InBook(name, path)) = Answer(200, path) /\ Entries[path] = path
<1>1. name \in Text /\ name # <<>> /\ NameLike(name) /\ path \in Text /\ path # <<>>
    BY TextsOfTheServer, NamesAreNameLike DEF NameLike
<1>2. BookNameOf(InBook(name, path)) = name /\ PathOfUrl(InBook(name, path), name) = path
    BY <1>1, PartsOfUrl
<1>3. EntryAt(path) = path /\ path # NoEntry
    BY LinksAssumption DEF EntryAt
<1> DEFINE h == HandleContent(InBook(name, path))
<1>4. h = IF Entries[path] # path \/ path = <<>> THEN Redirect(Entries[path]) ELSE Answer(200, path)
    BY <1>1, <1>2, <1>3, Zenon DEF HandleContent
<1> HIDE DEF h
<1>5. \/ h = Redirect(Entries[path]) /\ Entries[path] # path
      \/ (h = Answer(200, path) /\ Entries[path] = path)
    BY <1>1, <1>4
<1> QED BY <1>5 DEF h

LEMMA ContentOfBook ==
    ASSUME name \in BookName
    PROVE  \/ MainEntry = NoEntry /\ HandleContent(InBook(name, <<>>)) = NotFound
           \/ MainEntry \in DOMAIN Entries
              /\ HandleContent(InBook(name, <<>>)) = Redirect(Entries[MainEntry])
<1>1. name \in Text /\ name # <<>> /\ NameLike(name) /\ <<>> \in Text /\ <<>> \notin DOMAIN Entries
    BY TextsOfTheServer, NamesAreNameLike DEF NameLike
<1>2. BookNameOf(InBook(name, <<>>)) = name /\ PathOfUrl(InBook(name, <<>>), name) = <<>>
    BY <1>1, PartsOfUrl
<1>3. EntryAt(<<>>) = MainEntry
    BY <1>1 DEF EntryAt
<1>4. HandleContent(InBook(name, <<>>))
        = IF MainEntry = NoEntry THEN NotFound ELSE Redirect(Entries[MainEntry])
    BY <1>1, <1>2, <1>3, Zenon DEF HandleContent
<1> QED BY <1>4, LinksAssumption

-----------------------------------------------------------------------------
(* Where the links lead.                                                   *)

LEMMA EntryLinkLeads ==
    ASSUME root \in Root, name \in BookName, PlainName, NEW path \in DOMAIN Entries,
           NEW bookLink, Whole(bookLink), Decode(bookLink) = name,
           NEW pathLink, Whole(pathLink), Decode(pathLink) = path,
           NEW link, link = Below(bookLink, pathLink)
    PROVE  \/ Answers(link) = {Redirect(Entries[path])} /\ Entries[path] # path
           \/ Answers(link) = {Answer(200, path)} /\ Entries[path] = path
<1>1. Answers(Below(bookLink, pathLink)) = {HandleContent(InBook(name, path))}
    BY BookAnswers
<1> QED BY <1>1, ContentIs, Zenon

LEMMA HomeLinkLeads ==
    ASSUME root \in Root, name \in BookName, PlainName
    PROVE  \/ Answers(HomeLink) = {NotFound} /\ MainEntry = NoEntry
           \/ Answers(HomeLink) = {Redirect(Entries[MainEntry])} /\ MainEntry \in DOMAIN Entries
<1>1. Whole(<<>>) /\ Decode(<<>>) = <<>>
  <2>1. <<>> \in Link /\ \A char : Free(<<>>, {char})
      BY DEF Link, Free
  <2>2. Decode(<<>>) \in Text /\ Len(Decode(<<>>)) = 0
      BY <2>1, DecodeIs
  <2> QED BY <2>1, <2>2, EmptySeq DEF Text, Whole
<1>2. Whole(Raw(name)) /\ Decode(Raw(name)) = name
    BY NameIsWhole
<1>3. Answers(HomeLink) = {HandleContent(InBook(name, <<>>))}
    BY <1>1, <1>2, BookAnswers, Zenon DEF HomeLink
<1> QED BY <1>3, ContentOfBook, Zenon

LEMMA RandomLinkLeads ==
    ASSUME root \in Root, name \in BookName
    PROVE  Answers(RandomLink) = {Redirect(Entries[path]) : path \in DOMAIN Entries}
<1> DEFINE page == <<"/", "random">>
           u == UrlEncode(name, TRUE)
<1>1. "random" \in Character /\ "/" \in Character /\ "content=" \in Character \ {"#"}
    BY DEF Character
<1>2. page = Join(Slash, <<"random">>) /\ <<"random">> \in Text
    BY <1>1, TwoJoined, CharacterIs DEF Slash
<1>3. Harmless(page)
  <2>1. page \in Text /\ Len(page) = 2
      BY <1>1 DEF Text
  <2> QED BY <2>1 DEF Harmless
<1>4. RandomLink = Join(Escaping(Join(Join(root, page), <<"?", "content=">>), {}), u)
  <2>1. root \in Text
      BY TextsOfTheServer
  <2>2. <<"?", "content=">> \in Text /\ page \in Text
      BY <1>1, <1>3 DEF Text, Character, Harmless
  <2>3. <<"/", "random", "?", "content=">> = Join(page, <<"?", "content=">>)
      BY DEF Join
  <2>4. Join(Join(root, page), <<"?", "content=">>) = root \o <<"/", "random", "?", "content=">>
    <3> DEFINE arg == <<"?", "content=">>
    <3>1. arg \in Text
        BY <2>2
    <3> HIDE DEF arg, page
    <3>2. Join(Join(root, page), arg) = Join(root, Join(page, arg))
        BY <2>1, <2>2, <3>1, TextsOfThree
    <3> QED BY <2>3, <3>2, Zenon DEF Join, arg
  <2> QED BY <2>4, Zenon DEF RandomLink, Raw, Join
<1>5. u \in Link /\ Free(u, {"#"}) /\ Free(u, {"&"}) /\ Decode(u) = name
    BY NameIsWhole DEF Whole
<1> HIDE DEF u
<1>6. FullUrl(RandomLink) = Join(root, page) /\ Argument(RandomLink, "content=") = name
    BY <1>1, <1>3, <1>4, <1>5, ArgumentIs
<1>7. LocalUrl(Join(root, page)) = page
    BY <1>2, LocalUrlIs, Zenon
<1>8. /\ page # <<>> /\ page # <<"/", "catch", "/", "external">>
      /\ page \notin {<<"/", other>> : other \in {"meta", "search", "suggest"}}
      /\ ~ \E other \in {"skin", "catalog"} : IsPrefix(<<"/", other, "/">>, page)
    BY DEF IsPrefix
<1>9. Answers(RandomLink) = HandleRandom(RandomLink)
    BY <1>6, <1>7, <1>8, Zenon DEF Answers
<1> QED BY <1>6, <1>9, Zenon DEF HandleRandom

LEMMA ShownAsItWas ==
    ASSUME NEW href \in External
    PROVE  Href(UrlDecode(href)) = href
<1>1. href \in Text /\ DOMAIN href = 1 .. Len(href) /\ \A i \in 1 .. Len(href) : href[i] # " "
    BY TextsOfTheServer, LinksAssumption, LenProperties DEF Text, Contains
<1>2. href = [i \in 1 .. Len(href) |-> href[i]]
  <2>1. href \in [1 .. Len(href) -> Character]
      BY <1>1, LenProperties DEF Text
  <2> QED BY <2>1
<1> DEFINE d == UrlDecode(href)
<1>3. d = [i \in 1 .. Len(href) |-> IF href[i] = "%20" THEN " " ELSE href[i]]
    BY <1>1 DEF UrlDecode
<1>4. Href(d) = [i \in 1 .. Len(href) |-> IF d[i] = " " THEN "%20" ELSE d[i]]
  <2>1. DOMAIN d = 1 .. Len(href)
      BY <1>3
  <2> QED BY <2>1, Zenon DEF Href
<1>5. ASSUME NEW i \in 1 .. Len(href) PROVE (IF d[i] = " " THEN "%20" ELSE d[i]) = href[i]
  <2>1. d[i] = IF href[i] = "%20" THEN " " ELSE href[i]
      BY <1>3
  <2> HIDE DEF d
  <2> QED BY <1>1, <2>1
<1> HIDE DEF d
<1>6. Href(d) = [i \in 1 .. Len(href) |-> href[i]]
    BY <1>4, <1>5
<1> QED BY <1>2, <1>6, Zenon DEF d

LEMMA CaptureLinkLeads ==
    ASSUME root \in Root, NEW href \in External, ~Has(href, {"#", "&"})
    PROVE  Answers(CaptureLink(href)) = {Answer(200, UrlDecode(href))}
<1> DEFINE page == <<"/", "catch", "/", "external">>
           arg == <<"?", "source=">>
           chars == Unsafe \ {"#"}
           u == EncodeURI(href)
           link == CaptureLink(href)
<1>1. "/" \in Character /\ "source=" \in Character \ {"#"} /\ "?" \in Character
      /\ "catch" \in Character /\ "external" \in Character
    BY DEF Character
<1>2. page \in Text /\ arg \in Text /\ <<"catch", "/", "external">> \in Text
    BY <1>1 DEF Text
<1>3. page = Join(Slash, <<"catch", "/", "external">>)
      /\ <<"/", "catch", "/", "external", "?", "source=">> = Join(page, arg)
    BY DEF Join, Slash
<1>4. Harmless(page)
  <2>1. Len(page) = 4
      OBVIOUS
  <2> QED BY <1>2, <2>1 DEF Harmless
<1>5. /\ page # <<>> /\ page # <<"/", "random">>
      /\ page \notin {<<"/", other>> : other \in {"meta", "search", "suggest"}}
      /\ ~ \E other \in {"skin", "catalog"} : IsPrefix(<<"/", other, "/">>, page)
    BY DEF IsPrefix
<1>6. root \in Text /\ href \in Text /\ href \notin {NoEntry, <<>>}
    BY TextsOfTheServer, LinksAssumption
<1> HIDE DEF page
<1>7. link = Join(Escaping(Join(Join(root, page), arg), chars), u)
  <2>1. Join(Join(root, page), arg) = Join(root, Join(page, arg)) /\ Join(Join(root, page), arg) \in Text
    <3> HIDE DEF arg
    <3>1. Join(root, page) \in Text /\ Join(Join(root, page), arg) = Join(root, Join(page, arg))
        BY <1>2, <1>6, TextsOfThree
    <3> QED BY <1>2, <3>1, TextsJoin
  <2> DEFINE front == Join(Join(root, page), arg)
  <2>2. link = EncodeURI(Join(front, href))
      BY <1>3, <2>1, Zenon DEF CaptureLink, Join
  <2> HIDE DEF front, link
  <2>3. front \in Text
      BY <2>1 DEF front
  <2>4. Escaping(Join(front, href), chars) = Join(Escaping(front, chars), Escaping(href, chars))
      BY <1>6, <2>3, EscapingOfBoth
  <2> QED BY <2>2, <2>4, Zenon DEF EncodeURI, front
<1>8. "?" \notin chars /\ "source=" \notin chars /\ {"%20", "%26"} \subseteq chars
    BY DEF Unsafe
<1> HIDE DEF chars
<1>9. \A i \in 1 .. Len(href) : href[i] \notin {"#", "&"}
    BY <1>6, HasNot
<1>10. u = Escaping(href, chars)
    BY DEF EncodeURI, chars
<1>11. u \in Link /\ Free(u, {"#"}) /\ Free(u, {"&"})
    BY <1>6, <1>9, <1>10, EscapingIs, EscapingIsFree
<1>12. Decode(u) = href
    BY <1>6, <1>8, <1>10, DecodedIsText
<1> HIDE DEF u
<1>13. FullUrl(link) = Join(root, page) /\ Argument(link, "source=") = href
  <2> HIDE DEF link
  <2> QED BY <1>1, <1>4, <1>7, <1>8, <1>11, <1>12, ArgumentIs
<1>14. LocalUrl(Join(root, page)) = page
    BY <1>2, <1>3, LocalUrlIs, Zenon
<1> HIDE DEF link
<1>15. Answers(link) = {HandleCapturedExternal(link)}
    BY <1>5, <1>13, <1>14, Zenon DEF Answers, page
<1> QED BY <1>6, <1>13, <1>15, Zenon DEF HandleCapturedExternal, link

-----------------------------------------------------------------------------
ToEntry == {"search result", "suggestion", "home button", "random button"}

(* The browser has got to what the link was made for, or is sent there.    *)
LedThere ==
    \/ /\ answer.status = 302 /\ meant.redirected = 0
       /\ \E item \in Targets : /\ item \in DOMAIN Entries /\ Entries[item] = item
                                /\ answer.location = RedirectTo(item)
    \/ answer.status = 200 /\ answer.shows \in Targets
    \/ answer.status = 404 /\ Targets = {}
    \/ meant.redirected > 0 /\ \E item \in Targets : Has(item, {"?"})

(* Where the browser is, as far as the maker of the link can be trusted; a *)
(* redirection is to an item, so that one is the last.                     *)
LinksInv ==
    /\ root \in Root /\ name \in BookName
    /\ meant \in [by : {"nobody", "external link"} \cup ToEntry, path : Text, redirected : Nat]
    /\ meant.by = "nobody" => answer = NoAnswer
    /\ meant.by = "external link" =>
          Has(meant.path, {"#", "&"}) \/ (answer.status = 200 /\ Href(answer.shows) = meant.path)
    /\ meant.by \in ToEntry => (PlainName /\ Trusted => LedThere)

LEMMA LinksBegin == LinksInit => LinksInv
<1> SUFFICES ASSUME LinksInit PROVE LinksInv
    OBVIOUS
<1>1. <<>> \in Text
    BY TextsOfTheServer
<1> QED BY <1>1 DEF LinksInit, LinksInv, ToEntry

(* What stays as it is as long as the server runs. *)
LEMMA SameServer ==
    ASSUME UNCHANGED <<root, name>>
    PROVE  (\A item : RedirectTo(item)' = RedirectTo(item)) /\ (PlainName' <=> PlainName)
BY DEF RedirectTo, Below, PlainName

(* A link to an entry has been followed, and its maker can be trusted. *)
LEMMA EntryIsShown ==
    ASSUME LinksInv, PlainName, UNCHANGED <<root, name>>, NEW path \in DOMAIN Entries,
           NEW by \in {"search result", "suggestion"},
           meant' = [by |-> by, path |-> path, redirected |-> 0],
           NEW answers, answer' \in answers,
           \/ answers = {Redirect(Entries[path])}
           \/ answers = {Answer(200, path)} /\ Entries[path] = path
    PROVE  LedThere'
<1>1. Targets' = {Entries[path]}
    BY DEF Targets
<1>2. meant'.redirected = 0
    OBVIOUS
<1>3. Entries[path] \in DOMAIN Entries /\ Entries[Entries[path]] = Entries[path]
    BY LinksAssumption
<1>4. CASE answer' = Redirect(Entries[path])
  <2>1. answer'.status = 302 /\ answer'.location = RedirectTo(Entries[path])'
      BY <1>4, SameServer DEF Redirect
  <2> QED BY <1>1, <1>2, <1>3, <2>1 DEF LedThere
<1>5. CASE answer' = Answer(200, path) /\ Entries[path] = path
  <2>1. answer'.status = 200 /\ answer'.shows = path
      BY <1>5 DEF Answer
  <2> QED BY <1>1, <1>5, <2>1 DEF LedThere
<1> QED BY <1>4, <1>5

LEMMA LinksStep == LinksInv /\ [LinksNext]_linkVars => LinksInv'
<1> SUFFICES ASSUME LinksInv, [LinksNext]_linkVars PROVE LinksInv'
    OBVIOUS
<1>1. root \in Root /\ name \in BookName
    BY DEF LinksInv
<1>2. DOMAIN Entries \subseteq Text /\ External \subseteq Text /\ <<>> \in Text
    BY TextsOfTheServer
<1>3. ASSUME NEW path \in DOMAIN Entries, FollowResult(path) PROVE LinksInv'
  <2>1. /\ answer' \in Answers(ResultLink(path)) /\ UNCHANGED <<root, name>>
        /\ meant' = [by |-> "search result", path |-> path, redirected |-> 0]
      BY <1>3 DEF FollowResult, Go
  <2>2. ASSUME PlainName', Trusted' PROVE LedThere'
    <3>1. PlainName
        BY <2>1, <2>2, SameServer
    <3>2. ~Has(path, {"?", "#", "%20", "%26"})
        BY <2>1, <2>2 DEF Trusted
    <3>3. Whole(Raw(path)) /\ Decode(Raw(path)) = path
        BY <1>2, <3>2, PathIsWhole
    <3>4. \/ Answers(ResultLink(path)) = {Redirect(Entries[path])} /\ Entries[path] # path
          \/ Answers(ResultLink(path)) = {Answer(200, path)} /\ Entries[path] = path
      <4>1. Whole(Raw(name)) /\ Decode(Raw(name)) = name
          BY <1>1, <3>1, NameIsWhole
      <4>2. ResultLink(path) = Below(Raw(name), Raw(path))
          BY DEF ResultLink
      <4> QED BY <1>1, <3>1, <3>3, <4>1, <4>2, EntryLinkLeads
    <3> QED BY <2>1, <3>1, <3>4, EntryIsShown
  <2> QED BY <1>1, <1>2, <2>1, <2>2 DEF LinksInv, ToEntry
<1>4. ASSUME NEW path \in DOMAIN Entries, NEW onSearchPage \in BOOLEAN,
             FollowSuggestion(path, onSearchPage)
      PROVE  LinksInv'
  <2>1. /\ answer' \in Answers(SuggestionLink(path, onSearchPage)) /\ UNCHANGED <<root, name>>
        /\ meant' = [by |-> "suggestion", path |-> path, redirected |-> 0]
      BY <1>4 DEF FollowSuggestion, Go
  <2>2. ASSUME PlainName', Trusted' PROVE LedThere'
    <3>1. PlainName
        BY <2>1, <2>2, SameServer
    <3>2. ~Has(path, {"?", "#"})
        BY <2>1, <2>2 DEF Trusted
    <3>3. Whole(EncodeURI(path)) /\ Decode(EncodeURI(path)) = path
        BY <1>2, <3>2, PathIsWhole
    <3> DEFINE bookLink == IF onSearchPage THEN Raw(name) ELSE UrlEncode(name, TRUE)
               link == SuggestionLink(path, onSearchPage)
    <3>4. Whole(bookLink) /\ Decode(bookLink) = name
      <4>1. CASE onSearchPage
          BY <1>1, <3>1, <4>1, NameIsWhole
      <4>2. CASE ~onSearchPage
          BY <1>1, <4>2, NameIsWhole
      <4> QED BY <4>1, <4>2
    <3>5. link = Below(bookLink, EncodeURI(path))
        BY DEF SuggestionLink
    <3> HIDE DEF bookLink, link
    <3>6. \/ Answers(link) = {Redirect(Entries[path])} /\ Entries[path] # path
          \/ Answers(link) = {Answer(200, path)} /\ Entries[path] = path
        BY <1>1, <3>1, <3>3, <3>4, <3>5, EntryLinkLeads
    <3>7. answer' \in Answers(link)
        BY <2>1 DEF link
    <3> QED BY <2>1, <3>1, <3>6, <3>7, EntryIsShown
  <2> QED BY <1>1, <1>2, <2>1, <2>2 DEF LinksInv, ToEntry
<1>5. CASE GoHome
  <2>1. /\ answer' \in Answers(HomeLink) /\ UNCHANGED <<root, name>>
        /\ meant' = [by |-> "home button", path |-> <<>>, redirected |-> 0]
      BY <1>5 DEF GoHome, Go
  <2>2. ASSUME PlainName' PROVE LedThere'
    <3>1. PlainName
        BY <2>1, <2>2, SameServer
    <3>2. Targets' = IF MainEntry = NoEntry THEN {} ELSE {Entries[MainEntry]}
        BY <2>1 DEF Targets
    <3>3. CASE Answers(HomeLink) = {NotFound} /\ MainEntry = NoEntry
      <4>1. answer' = NotFound
          BY <2>1, <3>3, Zenon
      <4>2. answer'.status = 404
          BY <4>1 DEF NotFound, Answer
      <4> QED BY <3>2, <3>3, <4>2 DEF LedThere
    <3>4. CASE Answers(HomeLink) = {Redirect(Entries[MainEntry])} /\ MainEntry \in DOMAIN Entries
      <4>1. answer'.status = 302 /\ answer'.location = RedirectTo(Entries[MainEntry])'
        <5>1. answer' = Redirect(Entries[MainEntry])
            BY <2>1, <3>4, Zenon
        <5>2. RedirectTo(Entries[MainEntry])' = RedirectTo(Entries[MainEntry])
            BY <2>1, SameServer
        <5> QED BY <5>1, <5>2 DEF Redirect
      <4>2. MainEntry # NoEntry /\ Entries[MainEntry] \in DOMAIN Entries
            /\ Entries[Entries[MainEntry]] = Entries[MainEntry]
          BY <3>4, LinksAssumption
      <4>3. meant'.redirected = 0
          BY <2>1
      <4> QED BY <3>2, <4>1, <4>2, <4>3 DEF LedThere
    <3> QED BY <1>1, <3>1, <3>3, <3>4, HomeLinkLeads
  <2> QED BY <1>1, <1>2, <2>1, <2>2 DEF LinksInv, ToEntry
<1>6. CASE GoToRandomEntry
  <2>1. /\ answer' \in Answers(RandomLink) /\ UNCHANGED <<root, name>>
        /\ meant' = [by |-> "random button", path |-> <<>>, redirected |-> 0]
      BY <1>6 DEF GoToRandomEntry, Go
  <2>2. LedThere'
    <3>1. Targets' = {Entries[path] : path \in DOMAIN Entries}
        BY <2>1 DEF Targets
    <3>2. PICK path \in DOMAIN Entries : answer' = Redirect(Entries[path])
        BY <1>1, <2>1, RandomLinkLeads
    <3>3. answer'.status = 302 /\ answer'.location = RedirectTo(Entries[path])'
        BY <2>1, <3>2, SameServer DEF Redirect
    <3>4. Entries[path] \in DOMAIN Entries /\ Entries[Entries[path]] = Entries[path]
        BY LinksAssumption
    <3>5. meant'.redirected = 0
        BY <2>1
    <3> QED BY <3>1, <3>3, <3>4, <3>5 DEF LedThere
  <2> QED BY <1>1, <1>2, <2>1, <2>2 DEF LinksInv, ToEntry
<1>7. ASSUME NEW href \in External, LeaveForSite(href) PROVE LinksInv'
  <2>1. /\ answer' \in Answers(CaptureLink(href)) /\ UNCHANGED <<root, name>>
        /\ meant' = [by |-> "external link", path |-> href, redirected |-> 0]
      BY <1>7 DEF LeaveForSite, Go
  <2>2. ASSUME ~Has(href, {"#", "&"})
        PROVE  answer'.status = 200 /\ Href(answer'.shows) = href
    <3>1. answer' = Answer(200, UrlDecode(href))
        BY <1>1, <2>1, <2>2, CaptureLinkLeads, Zenon
    <3>2. answer'.status = 200 /\ answer'.shows = UrlDecode(href)
        BY <3>1 DEF Answer
    <3> QED BY <3>2, ShownAsItWas
  <2> QED BY <1>1, <1>2, <2>1, <2>2 DEF LinksInv, ToEntry
<1>8. CASE FollowRedirect
  <2>1. /\ answer.status = 302 /\ answer' \in Answers(answer.location)
        /\ UNCHANGED <<root, name>> /\ meant' = [meant EXCEPT !.redirected = @ + 1]
      BY <1>8 DEF FollowRedirect
  <2>2. /\ meant'.by = meant.by /\ meant'.path = meant.path
        /\ meant'.redirected = meant.redirected + 1 /\ meant.redirected \in Nat
        /\ meant' \in [by : {"nobody", "external link"} \cup ToEntry, path : Text, redirected : Nat]
    <3> DEFINE By == {"nobody", "external link"} \cup ToEntry
    <3>1. meant \in [by : By, path : Text, redirected : Nat]
        BY Zenon DEF LinksInv
    <3> HIDE DEF By
    <3>2. meant' = [meant EXCEPT !.redirected = @ + 1]
        BY <2>1
    <3>3. meant'.by = meant.by /\ meant'.path = meant.path
          /\ meant'.redirected = meant.redirected + 1 /\ meant.redirected \in Nat
          /\ meant' \in [by : By, path : Text, redirected : Nat]
        BY <3>1, <3>2
    <3> QED BY <3>3 DEF By
  <2>3. Targets' = Targets /\ (Trusted' <=> Trusted) /\ (PlainName' <=> PlainName)
      BY <2>1, <2>2, SameServer DEF Targets, Trusted
  <2>4. meant.by # "nobody"
    <3>1. meant.by = "nobody" => answer = NoAnswer
        BY Zenon DEF LinksInv
    <3>2. NoAnswer.status = 0
        BY DEF NoAnswer, Answer
    <3>3. answer.status # 0
        BY <2>1
    <3> QED BY <3>1, <3>2, <3>3, Zenon
  <2>5. meant.by = "external link" => Has(meant.path, {"#", "&"})
    <3>1. meant.by = "external link" => Has(meant.path, {"#", "&"}) \/ answer.status = 200
        BY Zenon DEF LinksInv
    <3>2. answer.status # 200
        BY <2>1
    <3> QED BY <3>1, <3>2, Zenon
  <2>6. ASSUME meant.by \in ToEntry, PlainName, Trusted PROVE LedThere'
    <3>1. LedThere
        BY <2>6 DEF LinksInv
    <3>2. meant'.redirected > 0
      <4>1. PICK n : n = meant.redirected
          OBVIOUS
      <4>2. n \in Nat /\ meant'.redirected = n + 1
          BY <2>2, <4>1
      <4> QED BY <4>2
    <3>3. CASE \E item \in Targets : Has(item, {"?"})
        BY <2>3, <3>2, <3>3 DEF LedThere
    <3>4. CASE \A item \in Targets : ~Has(item, {"?"})
      <4>1. PICK item \in Targets : /\ item \in DOMAIN Entries /\ Entries[item] = item
                                    /\ answer.location = RedirectTo(item)
          BY <2>1, <3>1, <3>4 DEF LedThere
      <4>2. Whole(UrlEncode(item, FALSE)) /\ Decode(UrlEncode(item, FALSE)) = item
          BY <1>2, <3>4, <4>1, PathIsWhole
      <4>3. Answers(RedirectTo(item)) = {Answer(200, item)}
        <5>1. Whole(Raw(name)) /\ Decode(Raw(name)) = name
            BY <1>1, <2>6, NameIsWhole
        <5>2. RedirectTo(item) = Below(Raw(name), UrlEncode(item, FALSE))
            BY DEF RedirectTo
        <5> DEFINE pathLink == UrlEncode(item, FALSE)
        <5> HIDE DEF pathLink
        <5>3. Whole(pathLink) /\ Decode(pathLink) = item /\ RedirectTo(item) = Below(Raw(name), pathLink)
            BY <4>2, <5>2 DEF pathLink
        <5> QED BY <1>1, <2>6, <4>1, <5>1, <5>3, EntryLinkLeads
      <4>4. answer' = Answer(200, item)
          BY <2>1, <4>1, <4>3, Zenon
      <4>5. answer'.status = 200 /\ answer'.shows = item
          BY <4>4 DEF Answer
      <4> QED BY <2>3, <4>5 DEF LedThere
    <3> QED BY <3>3, <3>4
  <2> QED BY <1>1, <2>1, <2>2, <2>3, <2>4, <2>5, <2>6 DEF LinksInv
<1>9. CASE UNCHANGED linkVars
  <2>1. root' = root /\ name' = name /\ answer' = answer /\ meant' = meant
      BY <1>9 DEF linkVars
  <2>2. Targets' = Targets /\ (Trusted' <=> Trusted) /\ (PlainName' <=> PlainName)
        /\ \A item : RedirectTo(item)' = RedirectTo(item)
      BY <2>1, SameServer DEF Targets, Trusted
  <2>3. LedThere' <=> LedThere
      BY <2>1, <2>2, Zenon DEF LedThere
  <2> QED BY <2>1, <2>2, <2>3, Zenon DEF LinksInv
<1> QED BY <1>3, <1>4, <1>5, <1>6, <1>7, <1>8, <1>9 DEF LinksNext

(* The links lead where they say, whatever the path of an entry, the name  *)
(* of the book (but for what name_not_escaped is about) and the root: the  *)
(* browser gets the entry that the link was made for, with at most one     *)
(* redirection, or the page about the other site that it names.            *)
THEOREM LinksCorrect == LinksSpec => []LinksLeadWhereTheySay
<1>1. LinksInv => LinksLeadWhereTheySay
    BY DEF LinksInv, LinksLeadWhereTheySay, LedThere, ToEntry
<1> QED BY <1>1, LinksBegin, LinksStep, PTL DEF LinksSpec

-----------------------------------------------------------------------------
(***************************************************************************)
(* Proofs about Paths, for any names, files, books and current directory.  *)
(*                                                                         *)
(* Parts of paths are read as steps of a walk from the root.  What         *)
(* normalizeParts keeps of a path walks to the same place, and is without  *)
(* detours if the path never goes up from the root; so the relative path   *)
(* of an entry is the way from the one place to the other, and what        *)
(* computeAbsolutePath makes of it the path of the book.                   *)
(***************************************************************************)

(* Beginnings of sequences.                                                *)

Take(s, n) == SubSeq(s, 1, n)

LEMMA TakeIs ==
    ASSUME NEW S, NEW s \in Seq(S), NEW n \in 0 .. Len(s)
    PROVE  /\ Take(s, n) \in Seq(S) /\ Len(Take(s, n)) = n
           /\ \A i \in 1 .. n : Take(s, n)[i] = s[i]
<1>1. Len(s) \in Nat
    BY LenProperties
<1>2. \A i \in 1 .. n : s[i] \in S
    BY <1>1, ElementOfSeq
<1> QED BY <1>1, <1>2, SubSeqProperties DEF Take

LEMMA TakeAll ==
    ASSUME NEW S, NEW s \in Seq(S)
    PROVE  Take(s, Len(s)) = s /\ Take(s, 0) = <<>>
BY SubSeqFull, SubSeqEmpty DEF Take

LEMMA TakeOneMore ==
    ASSUME NEW S, NEW s \in Seq(S), NEW n \in Nat, n < Len(s)
    PROVE  Append(Take(s, n), s[n + 1]) = Take(s, n + 1)
<1>1. Len(s) \in Nat /\ n \in 0 .. Len(s) /\ n + 1 \in 0 .. Len(s) /\ s[n + 1] \in S
  <2>1. Len(s) \in Nat
      BY LenProperties
  <2> QED BY <2>1, ElementOfSeq
<1> DEFINE a == Take(s, n)
           b == Take(s, n + 1)
           c == Append(a, s[n + 1])
<1>2. /\ a \in Seq(S) /\ Len(a) = n /\ b \in Seq(S) /\ Len(b) = n + 1
      /\ \A i \in 1 .. n : a[i] = s[i]
      /\ \A i \in 1 .. n + 1 : b[i] = s[i]
    BY <1>1, TakeIs
<1> HIDE DEF a, b
<1>3. c \in Seq(S) /\ Len(c) = n + 1 /\ c[n + 1] = s[n + 1] /\ \A i \in 1 .. n : c[i] = a[i]
    BY <1>1, <1>2, AppendProperties
<1> HIDE DEF c
<1>4. ASSUME NEW i \in 1 .. n + 1 PROVE c[i] = b[i]
  <2>1. CASE i \in 1 .. n
      BY <1>2, <1>3, <2>1
  <2>2. CASE i = n + 1
      BY <1>2, <1>3, <2>2
  <2> QED BY <2>1, <2>2
<1>5. c = b
    BY <1>2, <1>3, <1>4, SeqEqual
<1> QED BY <1>5 DEF a, b, c

LEMMA FrontIs ==
    ASSUME NEW S, NEW s \in Seq(S), s # <<>>
    PROVE  /\ Len(s) \in Nat \ {0} /\ Front(s) \in Seq(S) /\ Len(Front(s)) = Len(s) - 1
           /\ \A i \in 1 .. Len(s) - 1 : Front(s)[i] = s[i]
           /\ Last(s) = s[Len(s)] /\ Last(s) \in S
<1>1. Len(s) \in Nat \ {0} /\ Len(s) - 1 \in 0 .. Len(s)
    BY LenProperties, EmptySeq
<1>2. Front(s) = Take(s, Len(s) - 1)
    BY DEF Front, Take
<1>3. Last(s) = s[Len(s)] /\ Last(s) \in S
    BY <1>1, ElementOfSeq DEF Last
<1>4. /\ Take(s, Len(s) - 1) \in Seq(S) /\ Len(Take(s, Len(s) - 1)) = Len(s) - 1
      /\ \A i \in 1 .. Len(s) - 1 : Take(s, Len(s) - 1)[i] = s[i]
    BY <1>1, TakeIs
<1> QED BY <1>1, <1>2, <1>3, <1>4, Zenon

LEMMA FrontTo ==
    ASSUME NEW S, NEW s \in Seq(S), NEW m \in Nat, Len(s) = m, m # 0
    PROVE  /\ s # <<>> /\ Front(s) \in Seq(S) /\ Len(Front(s)) = m - 1
           /\ \A i \in 1 .. m - 1 : Front(s)[i] = s[i]
           /\ Last(s) = s[m] /\ Last(s) \in S
<1>1. s # <<>>
    OBVIOUS
<1>2. /\ Front(s) \in Seq(S) /\ Len(Front(s)) = Len(s) - 1
      /\ \A i \in 1 .. Len(s) - 1 : Front(s)[i] = s[i]
      /\ Last(s) = s[Len(s)] /\ Last(s) \in S
    BY <1>1, FrontIs, Zenon
<1> QED BY <1>1, <1>2, Zenon

LEMMA LenIs ==
    ASSUME NEW S, NEW s \in Seq(S)
    PROVE  \E m \in Nat : Len(s) = m /\ (m = 0 <=> s = <<>>)
<1>1. Len(s) \in Nat /\ (Len(s) = 0 <=> s = <<>>)
    BY LenProperties, EmptySeq
<1> QED BY <1>1, Zenon

LEMMA TakeOneLess ==
    ASSUME NEW S, NEW s \in Seq(S), NEW n \in 1 .. Len(s)
    PROVE  /\ Take(s, n) # <<>> /\ Front(Take(s, n)) = Take(s, n - 1) /\ Last(Take(s, n)) = s[n]
<1>1. n \in Nat /\ n # 0 /\ n \in 0 .. Len(s) /\ n - 1 \in 0 .. Len(s) /\ n \in 1 .. n
  <2>1. PICK m \in Nat : m = Len(s)
      BY LenProperties
  <2>2. n \in 1 .. m
      BY <2>1
  <2>3. n \in Nat /\ n # 0 /\ n \in 0 .. m /\ n - 1 \in 0 .. m /\ n \in 1 .. n
      BY <2>2
  <2> QED BY <2>1, <2>3, Zenon
<1> DEFINE a == Take(s, n)
           b == Take(s, n - 1)
<1>2. /\ a \in Seq(S) /\ Len(a) = n /\ b \in Seq(S) /\ Len(b) = n - 1
      /\ \A i \in 1 .. n : a[i] = s[i]
      /\ \A i \in 1 .. n - 1 : b[i] = s[i]
    BY <1>1, TakeIs
<1> HIDE DEF a, b
<1>3. /\ a # <<>> /\ Front(a) \in Seq(S) /\ Len(Front(a)) = n - 1 /\ Last(a) = a[n]
      /\ \A i \in 1 .. n - 1 : Front(a)[i] = a[i]
    BY <1>1, <1>2, FrontTo
<1>4. \A i \in 1 .. n - 1 : Front(a)[i] = b[i]
  <2>1. \A i \in 1 .. n - 1 : i \in 1 .. n
      BY <1>1
  <2> QED BY <1>2, <1>3, <2>1
<1>5. Front(a) = b
    BY <1>2, <1>3, <1>4, SeqEqual
<1> QED BY <1>1, <1>2, <1>3, <1>5 DEF a, b

-----------------------------------------------------------------------------
(* Parts of paths.                                                         *)

Part == Name \cup {"", ".", ".."}
Parts == Seq(Part)

LEMMA NamesAreParts ==
    /\ "" \notin Name /\ "." \notin Name /\ ".." \notin Name
    /\ \A names \in Seq(Name) : names \in Parts
    /\ FileName \subseteq Parts \ {<<>>} /\ Book \subseteq Parts /\ Cwd \in Parts
    /\ Empty \in Parts /\ Len(Empty) = 1 /\ Empty[1] = "" /\ Empty # <<>>
<1>1. \A names \in Seq(Name) : names \in Parts
    BY SeqMonotonic DEF Parts, Part
<1>2. "" \notin Name /\ "." \notin Name /\ ".." \notin Name
    BY PathsAssumption
<1>3. FileName \subseteq Parts \ {<<>>} /\ Book \subseteq Parts /\ Cwd \in Parts
    BY PathsAssumption DEF Parts, Part
<1>4. Empty \in Parts /\ Len(Empty) = 1 /\ Empty[1] = "" /\ Empty # <<>>
    BY DEF Empty, Parts, Part
<1> QED BY <1>1, <1>2, <1>3, <1>4

(* A path from the root. *)
Rooted(names) == Join(Empty, names)

LEMMA RootedIs ==
    ASSUME NEW names \in Parts, NEW m \in Nat, Len(names) = m
    PROVE  /\ Rooted(names) \in Parts /\ Len(Rooted(names)) = m + 1
           /\ Rooted(names) # <<>> /\ Rooted(names)[1] = ""
           /\ \A i \in 1 .. m : Rooted(names)[i + 1] = names[i]
<1> DEFINE r == Rooted(names)
<1>1. Empty \in Parts /\ Len(Empty) = 1 /\ Empty[1] = ""
    BY NamesAreParts
<1>2. /\ r \in Parts /\ Len(r) = 1 + m
      /\ \A i \in 1 .. 1 + m : r[i] = IF i <= 1 THEN Empty[i] ELSE names[i - 1]
  <2>1. /\ r \in Parts /\ Len(r) = Len(Empty) + Len(names)
        /\ \A i \in 1 .. Len(Empty) + Len(names) :
              r[i] = IF i <= Len(Empty) THEN Empty[i] ELSE names[i - Len(Empty)]
      BY <1>1, JoinIs DEF Parts, Rooted
  <2> HIDE DEF r
  <2> QED BY <1>1, <2>1, Zenon
<1> HIDE DEF r
<1>3. Len(r) = m + 1 /\ r[1] = ""
  <2>1. 1 + m = m + 1 /\ 1 \in 1 .. 1 + m /\ 1 <= 1
      OBVIOUS
  <2> QED BY <1>1, <1>2, <2>1, Zenon
<1>4. r # <<>>
    BY <1>2
<1>5. ASSUME NEW i \in 1 .. m PROVE r[i + 1] = names[i]
  <2>1. i + 1 \in 1 .. 1 + m /\ ~(i + 1 <= 1) /\ (i + 1) - 1 = i
      OBVIOUS
  <2> QED BY <1>2, <2>1
<1> QED BY <1>2, <1>3, <1>4, <1>5 DEF r

LEMMA RootedEmpty ==
    ASSUME NEW names \in Parts
    PROVE  /\ Rooted(<<>>) = Empty
           /\ Rooted(names) = Empty <=> names = <<>>
           /\ Len(Rooted(names)) > 1 <=> names # <<>>
<1>1. Rooted(<<>>) = Empty
    BY NamesAreParts, ConcatEmptySeq DEF Rooted, Join, Parts
<1>2. PICK m \in Nat : Len(names) = m /\ (m = 0 <=> names = <<>>)
    BY LenIs DEF Parts
<1>3. Len(Rooted(names)) = m + 1 /\ Len(Empty) = 1
    BY <1>2, RootedIs, NamesAreParts
<1>4. CASE names = <<>>
    BY <1>1, <1>2, <1>3, <1>4
<1>5. CASE names # <<>>
  <2>1. m + 1 > 1 /\ m + 1 # 1
      BY <1>2, <1>5
  <2> QED BY <1>1, <1>3, <1>5, <2>1
<1> QED BY <1>4, <1>5

LEMMA RootedAppend ==
    ASSUME NEW names \in Parts, NEW part \in Part
    PROVE  Append(Rooted(names), part) = Rooted(Append(names, part))
<1> DEFINE n == Append(names, part)
           r == Rooted(names)
           a == Append(r, part)
           b == Rooted(n)
<1>1. PICK m \in Nat : Len(names) = m
    BY LenIs DEF Parts
<1>2. /\ r \in Parts /\ Len(r) = m + 1
      /\ r[1] = "" /\ \A i \in 1 .. m : r[i + 1] = names[i]
    BY <1>1, RootedIs
<1> HIDE DEF r
<1>3. /\ n \in Parts /\ Len(n) = m + 1 /\ n[m + 1] = part
      /\ \A i \in 1 .. m : n[i] = names[i]
    BY <1>1, AppendProperties DEF Parts
<1>4. /\ a \in Parts /\ Len(a) = m + 2 /\ a[m + 2] = part
      /\ \A i \in 1 .. m + 1 : a[i] = r[i]
  <2>1. (m + 1) + 1 = m + 2
      OBVIOUS
  <2>2. /\ a \in Seq(Part) /\ Len(a) = Len(r) + 1 /\ a[Len(r) + 1] = part
        /\ \A i \in 1 .. Len(r) : a[i] = r[i]
    <3>1. r \in Seq(Part)
        BY <1>2, Zenon DEF Parts
    <3> QED BY <3>1, AppendProperties
  <2> HIDE DEF a
  <2> QED BY <1>2, <2>1, <2>2, Zenon DEF Parts
<1> HIDE DEF n, a
<1>5. /\ b \in Parts /\ Len(b) = (m + 1) + 1 /\ b[1] = ""
      /\ \A i \in 1 .. m + 1 : b[i + 1] = n[i]
  <2>1. m + 1 \in Nat
      OBVIOUS
  <2> QED BY <1>3, <2>1, RootedIs, Zenon
<1> HIDE DEF b
<1>6. ASSUME NEW i \in 1 .. m + 2 PROVE a[i] = b[i]
  <2>1. CASE i = 1
    <3>1. 1 \in 1 .. m + 1
        OBVIOUS
    <3> QED BY <1>2, <1>4, <1>5, <2>1, <3>1, Zenon
  <2>2. CASE i = m + 2
    <3>1. m + 1 \in 1 .. m + 1 /\ (m + 1) + 1 = m + 2
        OBVIOUS
    <3> QED BY <1>3, <1>4, <1>5, <2>2, <3>1
  <2>3. CASE i - 1 \in 1 .. m
    <3>1. i - 1 \in 1 .. m + 1 /\ (i - 1) + 1 = i /\ i \in 1 .. m + 1
        BY <2>3
    <3>2. b[i] = n[i - 1] /\ n[i - 1] = names[i - 1] /\ r[i] = names[i - 1]
        BY <1>2, <1>3, <1>5, <2>3, <3>1
    <3> QED BY <1>4, <3>1, <3>2
  <2> QED BY <2>1, <2>2, <2>3
<1>7. a = b
  <2>1. (m + 1) + 1 = m + 2
      OBVIOUS
  <2> QED BY <1>4, <1>5, <1>6, <2>1, SeqEqual DEF Parts
<1> QED BY <1>7 DEF a, b, n, r

LEMMA RootedFront ==
    ASSUME NEW names \in Parts, names # <<>>
    PROVE  Front(Rooted(names)) = Rooted(Front(names)) /\ Last(Rooted(names)) = Last(names)
<1> DEFINE n == Front(names)
           r == Rooted(names)
           a == Front(r)
           b == Rooted(n)
<1>1. PICK m \in Nat : Len(names) = m /\ m # 0
    BY LenIs DEF Parts
<1>2. /\ n \in Parts /\ Len(n) = m - 1 /\ \A i \in 1 .. m - 1 : n[i] = names[i]
      /\ Last(names) = names[m]
    BY <1>1, FrontTo DEF Parts
<1> HIDE DEF n
<1>3. /\ r \in Parts /\ Len(r) = m + 1
      /\ r[1] = "" /\ \A i \in 1 .. m : r[i + 1] = names[i]
    BY <1>1, RootedIs
<1> HIDE DEF r
<1>4. /\ a \in Parts /\ Len(a) = m /\ \A i \in 1 .. m : a[i] = r[i]
      /\ Last(r) = r[m + 1]
  <2>1. PICK k \in Nat : k = m + 1 /\ k # 0 /\ k - 1 = m
    <3>1. m + 1 \in Nat /\ m + 1 # 0 /\ (m + 1) - 1 = m
        OBVIOUS
    <3> QED BY <3>1, Zenon
  <2>2. r \in Seq(Part) /\ Len(r) = k
      BY <1>3, <2>1, Zenon DEF Parts
  <2>3. /\ a \in Seq(Part) /\ Len(a) = k - 1 /\ \A i \in 1 .. k - 1 : a[i] = r[i]
        /\ Last(r) = r[k]
      BY <2>1, <2>2, FrontTo, SMTT(30)
  <2> QED BY <2>1, <2>3, Zenon DEF Parts
<1> HIDE DEF a
<1>5. /\ b \in Parts /\ Len(b) = m /\ b[1] = ""
      /\ \A i \in 1 .. m - 1 : b[i + 1] = n[i]
  <2>1. m - 1 \in Nat /\ (m - 1) + 1 = m
      BY <1>1
  <2> QED BY <1>2, <2>1, RootedIs
<1> HIDE DEF b
<1>6. ASSUME NEW i \in 1 .. m PROVE a[i] = b[i]
  <2>1. CASE i = 1
      BY <1>3, <1>4, <1>5, <2>1
  <2>2. CASE i # 1
    <3>1. i - 1 \in 1 .. m - 1 /\ i - 1 \in 1 .. m /\ (i - 1) + 1 = i
        BY <2>2
    <3>2. b[i] = n[i - 1] /\ n[i - 1] = names[i - 1] /\ r[i] = names[i - 1]
        BY <1>2, <1>3, <1>5, <3>1
    <3> QED BY <1>4, <3>2
  <2> QED BY <2>1, <2>2
<1>7. a = b
    BY <1>4, <1>5, <1>6, SeqEqual DEF Parts
<1>8. Last(r) = Last(names)
  <2>1. m \in 1 .. m
      BY <1>1
  <2> QED BY <1>2, <1>3, <1>4, <2>1, Zenon
<1> QED BY <1>7, <1>8 DEF a, b, n, r

-----------------------------------------------------------------------------
(* Where a walk leads.                                                     *)

Places == Seq(Name)

(* The walk from one place through the parts of a path to another place.   *)
Goes(at, from, path, to) ==
    /\ at \in [0 .. Len(path) -> Places]
    /\ at[0] = from /\ at[Len(path)] = to
    /\ \A n \in 1 .. Len(path) : at[n] = Walk(at[n - 1], path[n])

Leads(from, path, to) == \E at : Goes(at, from, path, to)

LEMMA WalkIs ==
    ASSUME NEW x \in Places, NEW part \in Part
    PROVE  Walk(x, part) \in Places
<1>1. CASE part \in {"", "."}
    BY <1>1 DEF Walk
<1>2. CASE part = ".." /\ part \notin {"", "."}
  <2>1. x # <<>> => Front(x) \in Places
      BY FrontIs DEF Places
  <2> QED BY <1>2, <2>1 DEF Walk
<1>3. CASE part \notin {"", ".", ".."}
  <2>1. part \in Name
      BY <1>3 DEF Part
  <2>2. Append(x, part) \in Places
      BY <2>1, AppendProperties DEF Places
  <2>3. Walk(x, part) = Append(x, part)
      BY <1>3 DEF Walk
  <2> QED BY <2>2, <2>3
<1> QED BY <1>1, <1>2, <1>3

LEMMA LeadsSomewhere ==
    ASSUME NEW path \in Parts, NEW x \in Places
    PROVE  \E y \in Places : Leads(x, path, y)
<1>1. PICK N \in Nat : Len(path) = N
    BY LenIs DEF Parts
<1>2. \A n \in 1 .. N : path[n] \in Part
    BY <1>1, ElementOfSeq DEF Parts
<1> DEFINE step == [n \in 1 .. N |-> [at \in Places |-> Walk(at, path[n])]]
<1>3. step \in [1 .. N -> [Places -> Places]]
    BY <1>2, WalkIs
<1>4. \A n \in 1 .. N, at \in Places : step[n][at] = Walk(at, path[n])
    OBVIOUS
<1> HIDE DEF step
<1>5. PICK f \in [0 .. N -> Places] : Recurs(f, N, x, step)
    BY <1>3, RecursionExists
<1>6. f[0] = x /\ N \in 0 .. N /\ f[N] \in Places
  <2>1. N \in 0 .. N /\ 0 \in 0 .. N
      OBVIOUS
  <2> QED BY <1>5, <2>1, Zenon DEF Recurs
<1>7. ASSUME NEW n \in 1 .. N PROVE f[n] = Walk(f[n - 1], path[n])
  <2>1. n \in 0 .. N /\ n # 0 /\ n - 1 \in 0 .. N
      OBVIOUS
  <2>2. f[n] = step[n][f[n - 1]]
      BY <1>5, <2>1, Zenon DEF Recurs
  <2> QED BY <1>4, <2>1, <2>2
<1>8. Goes(f, x, path, f[N])
    BY <1>1, <1>6, <1>7, Zenon DEF Goes
<1> QED BY <1>6, <1>8, Zenon DEF Leads

LEMMA NamesAre ==
    ASSUME NEW path \in Parts, NEW y, Leads(<<>>, path, y)
    PROVE  Names(path) = y
<1>1. PICK N \in Nat : Len(path) = N
    BY LenIs DEF Parts
<1>2. PICK f : Goes(f, <<>>, path, y)
    BY Zenon DEF Leads
<1>3. /\ f \in [0 .. N -> Places] /\ f[0] = <<>> /\ f[N] = y
      /\ \A n \in 1 .. N : f[n] = Walk(f[n - 1], path[n])
    BY <1>1, <1>2, Zenon DEF Goes
<1> DEFINE Eqn(g) == g = [n \in 0 .. Len(path) |-> IF n = 0 THEN <<>> ELSE Walk(g[n - 1], path[n])]
           it == CHOOSE g : Eqn(g)
<1>4. Names(path) = it[Len(path)]
    BY Zenon DEF Names
<1>5. Eqn(f)
  <2>1. ASSUME NEW n \in 0 .. N PROVE f[n] = IF n = 0 THEN <<>> ELSE Walk(f[n - 1], path[n])
    <3>1. n = 0 \/ (n # 0 /\ n \in 1 .. N)
        OBVIOUS
    <3> QED BY <1>3, <3>1, Zenon
  <2>2. f = [n \in 0 .. N |-> f[n]]
      BY <1>3
  <2>3. f = [n \in 0 .. N |-> IF n = 0 THEN <<>> ELSE Walk(f[n - 1], path[n])]
      BY <2>1, <2>2, Zenon
  <2> QED BY <1>1, <2>3, Zenon
<1>6. Eqn(it)
    BY <1>5, Zenon
<1> HIDE DEF it
<1>7. it[0] = <<>>
  <2>1. 0 \in 0 .. N
      OBVIOUS
  <2> QED BY <1>1, <1>6, <2>1, Zenon
<1>8. ASSUME NEW n \in 1 .. N PROVE it[n] = Walk(it[n - 1], path[n])
  <2>1. n \in 0 .. N /\ n # 0
      OBVIOUS
  <2> QED BY <1>1, <1>6, <2>1, Zenon
<1> HIDE DEF Eqn
<1> DEFINE T == {n \in 0 .. N : it[n] = f[n]}
<1>9. 0 \in T
    BY <1>3, <1>7
<1>10. ASSUME NEW n \in 0 .. N - 1, n \in T PROVE n + 1 \in T
  <2>1. n + 1 \in 1 .. N /\ n + 1 \in 0 .. N /\ (n + 1) - 1 = n
      OBVIOUS
  <2>2. it[n] = f[n]
      BY <1>10
  <2>3. it[n + 1] = Walk(it[n], path[n + 1]) /\ f[n + 1] = Walk(f[n], path[n + 1])
    <3>1. it[n + 1] = Walk(it[(n + 1) - 1], path[n + 1]) /\ f[n + 1] = Walk(f[(n + 1) - 1], path[n + 1])
        BY <1>3, <1>8, <2>1, Zenon
    <3> QED BY <2>1, <3>1, Zenon
  <2> QED BY <2>1, <2>2, <2>3, Zenon
<1> HIDE DEF T
<1>11. \A n \in 0 .. N : n \in T
    BY <1>9, <1>10, BoundedInduction
<1>12. N \in T
  <2>1. N \in 0 .. N
      OBVIOUS
  <2> QED BY <1>11, <2>1, Zenon
<1>13. it[N] = f[N]
    BY <1>12, Zenon DEF T
<1> QED BY <1>1, <1>3, <1>4, <1>13, Zenon

LEMMA NamesExist ==
    ASSUME NEW path \in Parts
    PROVE  Names(path) \in Places /\ Leads(<<>>, path, Names(path))
<1>1. <<>> \in Places
    BY EmptySeq DEF Places
<1>2. PICK y \in Places : Leads(<<>>, path, y)
    BY <1>1, LeadsSomewhere
<1> QED BY <1>2, NamesAre, Zenon

(* What normalizeParts makes of the parts, part by part.                   *)
PutsInTurn(f, path, N, absolute) ==
    /\ f = [n \in 0 .. N |-> f[n]] /\ f[0] = <<>>
    /\ \A n \in 1 .. N : f[n] = Put(f[n - 1], path, n, absolute)

Settled(kept, absolute) == IF absolute /\ kept = Empty THEN <<"", "">> ELSE kept

LEMMA NormalizedIs ==
    ASSUME NEW path \in Parts, NEW absolute \in BOOLEAN, NEW N \in Nat, Len(path) = N, NEW f,
           PutsInTurn(f, path, N, absolute),
           NEW kept, kept = f[N], NEW norm, norm = NormalizeParts(path, absolute)
    PROVE  norm = Settled(kept, absolute)
<1> DEFINE Eqn(g) == g = [n \in 0 .. Len(path) |-> IF n = 0 THEN <<>> ELSE Put(g[n - 1], path, n, absolute)]
           it == CHOOSE g : Eqn(g)
<1>3. /\ f = [n \in 0 .. N |-> f[n]] /\ f[0] = <<>>
      /\ \A n \in 1 .. N : f[n] = Put(f[n - 1], path, n, absolute)
    BY Zenon DEF PutsInTurn
<1>4. NormalizeParts(path, absolute) =
          IF absolute /\ it[Len(path)] = Empty THEN <<"", "">> ELSE it[Len(path)]
    BY Zenon DEF NormalizeParts
<1>5. Eqn(f)
  <2>1. ASSUME NEW n \in 0 .. N PROVE f[n] = IF n = 0 THEN <<>> ELSE Put(f[n - 1], path, n, absolute)
    <3>1. n = 0 \/ (n # 0 /\ n \in 1 .. N)
        OBVIOUS
    <3> QED BY <1>3, <3>1, Zenon
  <2>3. f = [n \in 0 .. N |-> IF n = 0 THEN <<>> ELSE Put(f[n - 1], path, n, absolute)]
      BY <1>3, <2>1, Zenon
  <2> QED BY <2>3, Zenon
<1>6. Eqn(it)
    BY <1>5, Zenon
<1> HIDE DEF it
<1>7. it[0] = <<>>
  <2>1. 0 \in 0 .. N
      OBVIOUS
  <2> QED BY <1>6, <2>1, Zenon
<1>8. ASSUME NEW n \in 1 .. N PROVE it[n] = Put(it[n - 1], path, n, absolute)
  <2>1. n \in 0 .. N /\ n # 0
      OBVIOUS
  <2> QED BY <1>6, <2>1, Zenon
<1> HIDE DEF Eqn
<1> DEFINE T == {n \in 0 .. N : it[n] = f[n]}
<1>9. 0 \in T
    BY <1>3, <1>7
<1>10. ASSUME NEW n \in 0 .. N - 1, n \in T PROVE n + 1 \in T
  <2>1. n + 1 \in 1 .. N /\ n + 1 \in 0 .. N /\ (n + 1) - 1 = n
      OBVIOUS
  <2>2. it[n] = f[n]
      BY <1>10
  <2>3. it[n + 1] = Put(it[n], path, n + 1, absolute) /\ f[n + 1] = Put(f[n], path, n + 1, absolute)
    <3>1. it[n + 1] = Put(it[(n + 1) - 1], path, n + 1, absolute)
          /\ f[n + 1] = Put(f[(n + 1) - 1], path, n + 1, absolute)
        BY <1>3, <1>8, <2>1, Zenon
    <3> QED BY <2>1, <3>1, Zenon
  <2> QED BY <2>1, <2>2, <2>3, Zenon
<1> HIDE DEF T
<1>11. \A n \in 0 .. N : n \in T
    BY <1>9, <1>10, BoundedInduction
<1>12. N \in T
  <2>1. N \in 0 .. N
      OBVIOUS
  <2> QED BY <1>11, <2>1, Zenon
<1>13. it[N] = f[N]
    BY <1>12, Zenon DEF T
<1>14. norm = IF absolute /\ it[N] = Empty THEN <<"", "">> ELSE it[N]
    BY <1>4
<1> QED BY <1>13, <1>14 DEF Settled

(* One part more of a path from the root.                                  *)
LEMMA PutIs ==
    ASSUME NEW path \in Parts, NEW n \in 1 .. Len(path), NEW absolute \in BOOLEAN, NEW x \in Places,
           absolute = FALSE /\ path[n] = ".." => x # <<>>
    PROVE  Put(Rooted(x), path, n, absolute) = Rooted(Walk(x, path[n]))
<1>1. path[n] \in Part /\ x \in Parts
    BY ElementOfSeq, NamesAreParts DEF Parts, Places
<1> DEFINE r == Rooted(x)
<1>0. PICK put : put = Put(r, path, n, absolute)
    OBVIOUS
<1>2. r \in Parts /\ r # <<>>
  <2>1. PICK m \in Nat : Len(x) = m
      BY <1>1, LenIs DEF Parts
  <2> QED BY <1>1, <2>1, RootedIs
<1>3. (Len(r) > 1 <=> x # <<>>) /\ (x = <<>> => r = Empty)
    BY <1>1, RootedEmpty
<1>4. x # <<>> => Front(r) = Rooted(Front(x)) /\ Last(r) = Last(x) /\ Last(x) # ".."
  <2>1. x # <<>> => Last(x) \in Name
      BY FrontIs DEF Places
  <2> QED BY <1>1, <2>1, RootedFront, NamesAreParts
<1>5. Append(r, path[n]) = Rooted(Append(x, path[n]))
    BY <1>1, RootedAppend
<1> HIDE DEF r
<1>6. ASSUME path[n] = ".." PROVE put = Rooted(Walk(x, path[n]))
  <2>1. put = Up(r, absolute)
      BY <1>0, <1>6 DEF Put
  <2>2. CASE x = <<>>
    <3>1. absolute /\ ~(Len(r) > 1)
        BY <1>3, <1>6, <2>2, Zenon
    <3>2. put = r
        BY <2>1, <3>1 DEF Up
    <3>3. Walk(x, path[n]) = x
        BY <1>6, <2>2 DEF Walk
    <3> QED BY <3>2, <3>3, Zenon DEF r
  <2>3. CASE x # <<>>
    <3>1. put = Front(r)
        BY <1>2, <1>3, <1>4, <2>1, <2>3 DEF Up
    <3>2. Walk(x, path[n]) = Front(x)
        BY <1>6, <2>3 DEF Walk
    <3> QED BY <1>4, <2>3, <3>1, <3>2, Zenon
  <2> QED BY <2>2, <2>3
<1>7. ASSUME path[n] = "" \/ path[n] = "." PROVE put = Rooted(Walk(x, path[n]))
  <2>1. Walk(x, path[n]) = x
      BY <1>7 DEF Walk
  <2>2. put = r
      BY <1>0, <1>2, <1>7 DEF Put
  <2> QED BY <2>1, <2>2, Zenon DEF r
<1>8. ASSUME path[n] \notin {"", ".", ".."} PROVE put = Rooted(Walk(x, path[n]))
  <2>1. Walk(x, path[n]) = Append(x, path[n])
      BY <1>8 DEF Walk
  <2>2. put = Append(r, path[n])
      BY <1>0, <1>8 DEF Put
  <2> QED BY <1>5, <2>1, <2>2, Zenon
<1>9. put = Rooted(Walk(x, path[n]))
    BY <1>6, <1>7, <1>8, Zenon
<1> QED BY <1>0, <1>9 DEF r

(* Never up from the root.                                                 *)
StaysInside(path, absolute) ==
    /\ path # <<>> /\ path[1] = ""
    /\ \/ absolute
       \/ /\ Len(path) > 1
          /\ \A i \in DOMAIN path : path[i] = ".." => Names(SubSeq(path, 1, i - 1)) # <<>>

LEMMA FromTheRoot ==
    ASSUME NEW path \in Parts, NEW absolute \in BOOLEAN, StaysInside(path, absolute)
    PROVE  NormalizeParts(path, absolute) = IF absolute THEN Absolute(Names(path)) ELSE Rooted(Names(path))
<1>0. path # <<>> /\ path[1] = ""
    BY Zenon DEF StaysInside
<1>1. PICK N \in Nat : Len(path) = N /\ N # 0
    BY <1>0, LenIs DEF Parts
<1>2. PICK g : Goes(g, <<>>, path, Names(path))
    BY NamesExist, Zenon DEF Leads
<1>3. /\ g \in [0 .. N -> Places] /\ g[0] = <<>> /\ g[N] = Names(path)
      /\ \A n \in 1 .. N : g[n] = Walk(g[n - 1], path[n])
    BY <1>1, <1>2, Zenon DEF Goes
<1> DEFINE f == [n \in 0 .. N |-> IF n = 0 THEN <<>> ELSE Rooted(g[n])]
<1>4. ASSUME NEW n \in 1 .. N, path[n] = "..", absolute = FALSE PROVE g[n - 1] # <<>>
  <2>1. n \in DOMAIN path /\ n - 1 \in Nat /\ n - 1 \in 0 .. N
      BY <1>1, LenProperties DEF Parts
  <2>2. Names(Take(path, n - 1)) # <<>>
      BY <1>4, <2>1, Zenon DEF Take, StaysInside
  <2> DEFINE b == Take(path, n - 1)
  <2>3. b \in Parts /\ Len(b) = n - 1 /\ \A i \in 1 .. n - 1 : b[i] = path[i]
      BY <1>1, <2>1, TakeIs DEF Parts
  <2>4. Leads(<<>>, b, g[n - 1])
    <3> DEFINE h == [i \in 0 .. n - 1 |-> g[i]]
    <3>1. /\ \A i \in 0 .. n - 1 : i \in 0 .. N
          /\ \A i \in 1 .. n - 1 : i \in 1 .. N /\ i - 1 \in 0 .. n - 1 /\ i \in 0 .. n - 1
          /\ 0 \in 0 .. n - 1 /\ n - 1 \in 0 .. n - 1
        BY <2>1
    <3>2. h \in [0 .. n - 1 -> Places] /\ h[0] = <<>> /\ h[n - 1] = g[n - 1]
        BY <1>3, <3>1
    <3>3. \A i \in 1 .. n - 1 : h[i] = g[i] /\ h[i - 1] = g[i - 1]
        BY <3>1
    <3> HIDE DEF h, b
    <3>4. \A i \in 1 .. n - 1 : h[i] = Walk(h[i - 1], b[i])
        BY <1>3, <2>3, <3>1, <3>3, Zenon
    <3>5. Goes(h, <<>>, b, g[n - 1])
        BY <2>3, <3>2, <3>4, Zenon DEF Goes
    <3> QED BY <3>5, Zenon DEF Leads
  <2>5. Names(b) = g[n - 1]
    <3> HIDE DEF b
    <3> QED BY <2>3, <2>4, NamesAre
  <2> QED BY <2>2, <2>5, Zenon
<1>5. \A n \in 1 .. N : n \in 0 .. N /\ n # 0 /\ (n # 1 => n - 1 \in 1 .. N) /\ n - 1 \in 0 .. N
    BY <1>1
<1>6. f = [n \in 0 .. N |-> f[n]] /\ f[0] = <<>> /\ \A n \in 1 .. N : f[n] = Rooted(g[n])
    BY <1>5
<1> HIDE DEF f
<1>7. ASSUME NEW n \in 1 .. N PROVE f[n] = Put(f[n - 1], path, n, absolute)
  <2>1. CASE n = 1
    <3>1. g[1] = <<>> /\ f[1] = Rooted(<<>>)
      <4>1. g[1] = Walk(<<>>, "")
        <5>1. 1 \in 1 .. N /\ 1 - 1 = 0
            BY <2>1
        <5>2. g[1] = Walk(g[1 - 1], path[1])
            BY <1>3, <5>1, Zenon
        <5> QED BY <1>0, <1>3, <5>1, <5>2, Zenon
      <4> QED BY <1>6, <2>1, <4>1 DEF Walk
    <3>2. Rooted(<<>>) = Empty
        BY RootedEmpty, NamesAreParts
    <3>3. (absolute \/ 1 < Len(path)) /\ path[1] = ""
        BY DEF StaysInside
    <3>4. Put(<<>>, path, 1, absolute) = Empty
        BY <3>3 DEF Put
    <3>5. n - 1 = 0
        BY <2>1
    <3> QED BY <1>6, <2>1, <3>1, <3>2, <3>4, <3>5, Zenon
  <2>2. CASE n # 1
    <3>1. n - 1 \in 1 .. N /\ n \in 1 .. Len(path) /\ g[n - 1] \in Places
        BY <1>1, <1>3, <1>5, <2>2
    <3>2. absolute = FALSE /\ path[n] = ".." => g[n - 1] # <<>>
        BY <1>4
    <3>3. Put(Rooted(g[n - 1]), path, n, absolute) = Rooted(Walk(g[n - 1], path[n]))
        BY <3>1, <3>2, PutIs
    <3> QED BY <1>3, <1>6, <3>1, <3>3, Zenon
  <2> QED BY <2>1, <2>2
<1>8. PICK kept, norm : kept = f[N] /\ norm = NormalizeParts(path, absolute)
    OBVIOUS
<1>9. norm = Settled(kept, absolute)
  <2>1. PutsInTurn(f, path, N, absolute)
      BY <1>6, <1>7, Zenon DEF PutsInTurn
  <2>2. kept = f[N] /\ norm = NormalizeParts(path, absolute) /\ Len(path) = N
      BY <1>1, <1>8
  <2> QED BY <2>1, <2>2, NormalizedIs, SMTT(30)
<1>10. kept = Rooted(Names(path)) /\ (kept = Empty <=> Names(path) = <<>>)
  <2>1. N \in 1 .. N
      BY <1>1
  <2>2. f[N] = Rooted(Names(path))
      BY <1>3, <1>6, <2>1, Zenon
  <2>3. Names(path) \in Parts
      BY NamesExist, NamesAreParts DEF Places
  <2> QED BY <1>8, <2>2, <2>3, RootedEmpty, Zenon
<1>11. norm = IF absolute THEN Absolute(Names(path)) ELSE Rooted(Names(path))
    BY <1>9, <1>10 DEF Settled, Absolute, Rooted, Join
<1> QED BY <1>8, <1>11

Ups(k) == [i \in 1 .. k |-> ".."]

Rest(b, c) == SubSeq(b, c + 1, Len(b))

LEMMA UpsIs ==
    ASSUME NEW k \in Nat
    PROVE  Ups(k) \in Parts /\ Len(Ups(k)) = k /\ \A i \in 1 .. k : Ups(k)[i] = ".."
<1>1. ".." \in Part
    BY DEF Part
<1>2. Ups(k) \in [1 .. k -> Part] /\ \A i \in 1 .. k : Ups(k)[i] = ".."
    BY <1>1 DEF Ups
<1> HIDE DEF Ups
<1>3. Ups(k) \in Seq(Part) /\ Len(Ups(k)) = k
    BY <1>2
<1> QED BY <1>2, <1>3, Zenon DEF Parts

LEMMA RestIs ==
    ASSUME NEW S, NEW b \in Seq(S), NEW m \in Nat, Len(b) = m, NEW c \in 0 .. m
    PROVE  /\ Rest(b, c) \in Seq(S) /\ Len(Rest(b, c)) = m - c
           /\ \A i \in 1 .. m - c : Rest(b, c)[i] = b[c + i]
<1>1. c + 1 \in Nat \ {0} /\ c + 1 <= m + 1 /\ m - (c + 1) + 1 = m - c /\ c + 1 \in 1 .. m + 1
      /\ \A i \in 1 .. m - c : (c + 1) + i - 1 = c + i
    OBVIOUS
<1>2. \A i \in c + 1 .. m : b[i] \in S
  <2>1. \A i \in c + 1 .. m : i \in 1 .. m
      OBVIOUS
  <2> QED BY <2>1, ElementOfSeq, Zenon
<1> DEFINE r == Rest(b, c)
<1>3. r = SubSeq(b, c + 1, m)
    BY Zenon DEF Rest
<1>4. /\ SubSeq(b, c + 1, m) \in Seq(S)
      /\ Len(SubSeq(b, c + 1, m)) = IF c + 1 <= m THEN m - (c + 1) + 1 ELSE 0
      /\ \A i \in 1 .. m - (c + 1) + 1 : SubSeq(b, c + 1, m)[i] = b[(c + 1) + i - 1]
    BY <1>1, <1>2, SubSeqProperties
<1> HIDE DEF r
<1>5. (IF c + 1 <= m THEN m - (c + 1) + 1 ELSE 0) = m - c
    OBVIOUS
<1>6. r \in Seq(S) /\ Len(r) = m - c
    BY <1>3, <1>4, <1>5, Zenon
<1>7. ASSUME NEW i \in 1 .. m - c PROVE r[i] = b[c + i]
  <2>1. i \in 1 .. m - (c + 1) + 1 /\ (c + 1) + i - 1 = c + i
      BY <1>1
  <2>2. r[i] = b[(c + 1) + i - 1]
      BY <1>3, <1>4, <2>1, Zenon
  <2> QED BY <2>1, <2>2, Zenon
<1> QED BY <1>6, <1>7 DEF r

-----------------------------------------------------------------------------

LEMMA LeadsBoth ==
    ASSUME NEW p \in Parts, NEW q \in Parts, NEW x, NEW y, NEW z, Leads(x, p, y), Leads(y, q, z)
    PROVE  Join(p, q) \in Parts /\ Leads(x, Join(p, q), z)
<1>1. PICK P \in Nat, Q \in Nat : Len(p) = P /\ Len(q) = Q
  <2>1. (\E P \in Nat : Len(p) = P) /\ (\E Q \in Nat : Len(q) = Q)
      BY LenIs DEF Parts
  <2> QED BY <2>1, Zenon
<1>2. PICK g : /\ g \in [0 .. P -> Places] /\ g[0] = x /\ g[P] = y
               /\ \A n \in 1 .. P : g[n] = Walk(g[n - 1], p[n])
    BY <1>1, Zenon DEF Leads, Goes
<1>3. PICK h : /\ h \in [0 .. Q -> Places] /\ h[0] = y /\ h[Q] = z
               /\ \A n \in 1 .. Q : h[n] = Walk(h[n - 1], q[n])
    BY <1>1, Zenon DEF Leads, Goes
<1> DEFINE r == Join(p, q)
           at == [n \in 0 .. P + Q |-> IF n <= P THEN g[n] ELSE h[n - P]]
<1>4. /\ r \in Parts /\ Len(r) = P + Q
      /\ \A i \in 1 .. P + Q : r[i] = IF i <= P THEN p[i] ELSE q[i - P]
  <2>1. /\ r \in Parts /\ Len(r) = Len(p) + Len(q)
        /\ \A i \in 1 .. Len(p) + Len(q) : r[i] = IF i <= Len(p) THEN p[i] ELSE q[i - Len(p)]
      BY JoinIs, Zenon DEF Parts
  <2> HIDE DEF r
  <2> QED BY <1>1, <2>1, Zenon
<1> HIDE DEF r
<1>5. at \in [0 .. P + Q -> Places]
    BY <1>2, <1>3
<1>6. /\ \A n \in 0 .. P : at[n] = g[n]
      /\ \A n \in 0 .. Q : at[n + P] = h[n]
  <2>1. \A n \in 0 .. P : n \in 0 .. P + Q /\ n <= P
      OBVIOUS
  <2>2. ASSUME NEW n \in 0 .. Q PROVE at[n + P] = h[n]
    <3>1. n + P \in 0 .. P + Q /\ (n + P) - P = n /\ (n + P <= P => n = 0 /\ n + P = P)
        OBVIOUS
    <3> QED BY <1>2, <1>3, <3>1
  <2> QED BY <2>1, <2>2
<1> HIDE DEF at
<1>7. at[0] = x /\ at[P + Q] = z
  <2>1. 0 \in 0 .. P /\ Q \in 0 .. Q /\ Q + P = P + Q
      OBVIOUS
  <2> QED BY <1>2, <1>3, <1>6, <2>1
<1>8. ASSUME NEW n \in 1 .. P + Q PROVE at[n] = Walk(at[n - 1], r[n])
  <2>1. CASE n <= P
    <3>1. n \in 0 .. P /\ n \in 1 .. P /\ n - 1 \in 0 .. P
        BY <2>1
    <3> QED BY <1>2, <1>4, <1>6, <2>1, <3>1
  <2>2. CASE ~(n <= P)
    <3> DEFINE k == n - P
    <3>1. k \in 1 .. Q /\ k \in 0 .. Q /\ k - 1 \in 0 .. Q /\ k + P = n /\ (k - 1) + P = n - 1
        BY <2>2
    <3>2. r[n] = q[k]
        BY <1>4, <2>2
    <3> HIDE DEF k
    <3>3. at[n] = h[k] /\ at[n - 1] = h[k - 1]
        BY <1>6, <3>1
    <3> QED BY <1>3, <3>1, <3>2, <3>3
  <2> QED BY <2>1, <2>2
<1>9. Goes(at, x, r, z)
    BY <1>4, <1>5, <1>7, <1>8, Zenon DEF Goes
<1> QED BY <1>4, <1>9, Zenon DEF Leads, r

LEMMA LeadsUp ==
    ASSUME NEW x \in Places, NEW m \in Nat, Len(x) = m, NEW k \in 0 .. m
    PROVE  Leads(x, Ups(k), Take(x, m - k))
<1> DEFINE u == Ups(k)
           at == [n \in 0 .. k |-> Take(x, m - n)]
<1>1. u \in Parts /\ Len(u) = k /\ \A i \in 1 .. k : u[i] = ".."
    BY UpsIs
<1> HIDE DEF u
<1>2. \A n \in 0 .. k : m - n \in 0 .. m
    OBVIOUS
<1>3. \A j \in 0 .. m : Take(x, j) \in Places
    BY TakeIs, Zenon DEF Places
<1>4. at \in [0 .. k -> Places] /\ \A n \in 0 .. k : at[n] = Take(x, m - n)
    BY <1>2, <1>3
<1> HIDE DEF at
<1>5. at[0] = x /\ at[k] = Take(x, m - k)
  <2>1. Take(x, m) = x
      BY TakeAll, Zenon DEF Places
  <2>2. 0 \in 0 .. k /\ k \in 0 .. k /\ m - 0 = m
      OBVIOUS
  <2> QED BY <1>4, <2>1, <2>2, Zenon
<1>6. ASSUME NEW n \in 1 .. k PROVE at[n] = Walk(at[n - 1], u[n])
  <2>1. n \in 0 .. k /\ n - 1 \in 0 .. k /\ m - (n - 1) \in 1 .. m /\ (m - (n - 1)) - 1 = m - n
      OBVIOUS
  <2> DEFINE j == m - (n - 1)
  <2>2. Take(x, j) # <<>> /\ Front(Take(x, j)) = Take(x, j - 1)
      BY <2>1, TakeOneLess DEF Places
  <2>3. Walk(Take(x, j), "..") = Take(x, j - 1)
      BY <2>2 DEF Walk
  <2> QED BY <1>1, <1>4, <2>1, <2>3, Zenon
<1>7. Goes(at, x, u, Take(x, m - k))
    BY <1>1, <1>4, <1>5, <1>6, Zenon DEF Goes
<1> QED BY <1>7, Zenon DEF Leads, u

LEMMA LeadsOn ==
    ASSUME NEW b \in Places, NEW m \in Nat, Len(b) = m, NEW c \in 0 .. m
    PROVE  Leads(Take(b, c), Rest(b, c), b)
<1> DEFINE r == Rest(b, c)
           at == [n \in 0 .. m - c |-> Take(b, c + n)]
<1>1. r \in Places /\ Len(r) = m - c /\ \A i \in 1 .. m - c : r[i] = b[c + i]
    BY RestIs, Zenon DEF Places
<1> HIDE DEF r
<1>2. \A n \in 0 .. m - c : c + n \in 0 .. m
    OBVIOUS
<1>3. \A j \in 0 .. m : Take(b, j) \in Places
    BY TakeIs, Zenon DEF Places
<1>4. at \in [0 .. m - c -> Places] /\ \A n \in 0 .. m - c : at[n] = Take(b, c + n)
    BY <1>2, <1>3
<1> HIDE DEF at
<1>5. at[0] = Take(b, c) /\ at[m - c] = b
  <2>1. Take(b, m) = b
      BY TakeAll, Zenon DEF Places
  <2>2. 0 \in 0 .. m - c /\ m - c \in 0 .. m - c /\ c + 0 = c /\ c + (m - c) = m
      OBVIOUS
  <2> QED BY <1>4, <2>1, <2>2, Zenon
<1>6. ASSUME NEW n \in 1 .. m - c PROVE at[n] = Walk(at[n - 1], r[n])
  <2> DEFINE j == c + (n - 1)
  <2>1. /\ n \in 0 .. m - c /\ n - 1 \in 0 .. m - c /\ j \in Nat /\ j < m /\ j + 1 = c + n
        /\ c + n \in 1 .. m
      OBVIOUS
  <2>2. at[n - 1] = Take(b, j) /\ at[n] = Take(b, c + n)
      BY <1>4, <2>1, Zenon
  <2> HIDE DEF j
  <2>3. Append(Take(b, j), b[j + 1]) = Take(b, j + 1)
      BY <2>1, TakeOneMore DEF Places
  <2>4. b[j + 1] \in Name
      BY <2>1, ElementOfSeq DEF Places
  <2>5. Walk(Take(b, j), b[j + 1]) = Take(b, j + 1)
    <3>1. b[j + 1] \notin {"", ".", ".."}
        BY <2>4, NamesAreParts
    <3> QED BY <2>3, <3>1 DEF Walk
  <2> QED BY <1>1, <2>1, <2>2, <2>5, Zenon
<1>7. Goes(at, Take(b, c), r, b)
    BY <1>1, <1>4, <1>5, <1>6, Zenon DEF Goes
<1> QED BY <1>7, Zenon DEF Leads, r

LEMMA LeadsFromRoot ==
    ASSUME NEW b \in Places
    PROVE  Leads(<<>>, Rooted(b), b)
<1>1. Leads(<<>>, Empty, <<>>)
  <2> DEFINE at == [n \in 0 .. 1 |-> <<>>]
  <2>1. <<>> \in Places /\ Len(Empty) = 1 /\ Empty[1] = ""
    <3>1. <<>> \in Places
        BY EmptySeq, Zenon DEF Places
    <3> QED BY <3>1, NamesAreParts, Zenon
  <2>2. Walk(<<>>, "") = <<>>
      BY DEF Walk
  <2>3. at \in [0 .. 1 -> Places] /\ at[0] = <<>> /\ at[1] = <<>>
    <3>1. 0 \in 0 .. 1 /\ 1 \in 0 .. 1
        OBVIOUS
    <3> QED BY <2>1, <3>1, Zenon
  <2> HIDE DEF at
  <2>4. \A n \in 1 .. 1 : at[n] = Walk(at[n - 1], Empty[n])
    <3>1. 1 - 1 = 0 /\ \A n \in 1 .. 1 : n = 1
        OBVIOUS
    <3> QED BY <2>1, <2>2, <2>3, <3>1, Zenon
  <2>5. Goes(at, <<>>, Empty, <<>>)
      BY <2>1, <2>3, <2>4, Zenon DEF Goes
  <2> QED BY <2>5, Zenon DEF Leads
<1>2. Leads(<<>>, b, b)
  <2>1. PICK m \in Nat : Len(b) = m
      BY LenIs DEF Places
  <2>2. 0 \in 0 .. m
      OBVIOUS
  <2>3. Leads(Take(b, 0), Rest(b, 0), b)
      BY <2>1, <2>2, LeadsOn
  <2>4. Take(b, 0) = <<>> /\ Rest(b, 0) = b
    <3>1. Take(b, 0) = <<>> /\ Take(b, Len(b)) = b
        BY TakeAll, Zenon DEF Places
    <3>2. 0 + 1 = 1
        OBVIOUS
    <3> QED BY <3>1, <3>2, Zenon DEF Rest, Take
  <2> QED BY <2>3, <2>4, Zenon
<1> QED BY <1>1, <1>2, LeadsBoth, NamesAreParts, Zenon DEF Rooted, Places

Tidied(path) == NormalizeParts(path, FALSE)
TidiedRooted(path) == NormalizeParts(path, TRUE)

LEMMA NormalizedFromRoot ==
    ASSUME NEW path \in Parts, path # <<>>, path[1] = ""
    PROVE  TidiedRooted(path) = Absolute(Names(path))
<1>1. ASSUME NEW absolute \in BOOLEAN, absolute = TRUE, NEW norm, norm = NormalizeParts(path, absolute)
      PROVE  norm = Absolute(Names(path))
  <2>1. StaysInside(path, absolute)
      BY <1>1 DEF StaysInside
  <2>2. norm = IF absolute THEN Absolute(Names(path)) ELSE Rooted(Names(path))
      BY <1>1, <2>1, FromTheRoot
  <2> QED BY <1>1, <2>2
<1> QED BY <1>1 DEF TidiedRooted

LEMMA NormalizedInside ==
    ASSUME NEW path \in Parts, StaysInside(path, FALSE)
    PROVE  Tidied(path) = Rooted(Names(path))
<1>1. ASSUME NEW absolute \in BOOLEAN, absolute = FALSE, NEW norm, norm = NormalizeParts(path, absolute)
      PROVE  norm = Rooted(Names(path))
  <2>1. StaysInside(path, absolute)
      BY <1>1
  <2>2. norm = IF absolute THEN Absolute(Names(path)) ELSE Rooted(Names(path))
      BY <1>1, <2>1, FromTheRoot
  <2> QED BY <1>1, <2>2
<1> QED BY <1>1 DEF Tidied

LEMMA NamesOfRooted ==
    ASSUME NEW b \in Places
    PROVE  /\ Rooted(b) \in Parts /\ Names(Rooted(b)) = b
           /\ Absolute(b) \in Parts /\ Names(Absolute(b)) = b
<1>1. Rooted(b) \in Parts /\ b \in Parts
  <2>1. b \in Parts
      BY NamesAreParts DEF Places
  <2>2. PICK m \in Nat : Len(b) = m
      BY LenIs DEF Places
  <2> QED BY <2>1, <2>2, RootedIs
<1>2. Names(Rooted(b)) = b
    BY <1>1, LeadsFromRoot, NamesAre
<1>3. CASE b # <<>>
  <2>1. Absolute(b) = Rooted(b)
      BY <1>3, Zenon DEF Absolute, Rooted, Join
  <2> QED BY <1>1, <1>2, <2>1, Zenon
<1>4. CASE b = <<>>
  <2> DEFINE p == <<"", "">>
             at == [n \in 0 .. 2 |-> <<>>]
  <2>1. p \in Parts /\ Len(p) = 2
      BY DEF Parts, Part
  <2>2. \A n \in 1 .. 2 : p[n] = ""
    <3>1. p[1] = "" /\ p[2] = ""
        OBVIOUS
    <3> HIDE DEF p
    <3>2. \A n \in 1 .. 2 : n = 1 \/ n = 2
        OBVIOUS
    <3> QED BY <3>1, <3>2, Zenon
  <2> HIDE DEF p
  <2>3. <<>> \in Places /\ Walk(<<>>, "") = <<>>
      BY <1>4 DEF Walk
  <2>4. \A n \in 1 .. 2 : n \in 0 .. 2 /\ n - 1 \in 0 .. 2
      OBVIOUS
  <2>5. at \in [0 .. 2 -> Places] /\ \A n \in 0 .. 2 : at[n] = <<>>
      BY <2>3, Zenon
  <2> HIDE DEF at
  <2>6. at[0] = <<>> /\ at[2] = <<>> /\ \A n \in 1 .. 2 : at[n] = Walk(at[n - 1], p[n])
    <3>1. 0 \in 0 .. 2 /\ 2 \in 0 .. 2
        OBVIOUS
    <3> QED BY <2>2, <2>3, <2>4, <2>5, <3>1, Zenon
  <2>7. Goes(at, <<>>, p, <<>>)
      BY <2>1, <2>5, <2>6, Zenon DEF Goes
  <2>8. Names(p) = <<>> /\ Absolute(b) = p
    <3>1. Leads(<<>>, p, <<>>)
        BY <2>7, Zenon DEF Leads
    <3> QED BY <1>4, <2>1, <3>1, NamesAre, Zenon DEF Absolute, p
  <2> QED BY <1>1, <1>2, <1>4, <2>1, <2>8, Zenon
<1> QED BY <1>3, <1>4

LEMMA RootedIsPlaced ==
    ASSUME NEW b \in Places, b # <<>>
    PROVE  /\ Rooted(b) \in Parts \ {<<>>} /\ Absolute(b) = Rooted(b)
           /\ IsAbsolute(Rooted(b)) /\ WellPlaced(Rooted(b)) /\ Rooted(b) # Empty
           /\ Tidied(Rooted(b)) = Rooted(b)
           /\ TidiedRooted(Rooted(b)) = Rooted(b)
<1> DEFINE r == Rooted(b)
<1>1. PICK m \in Nat : Len(b) = m /\ m # 0
    BY LenIs DEF Places
<1>2. b \in Parts /\ \A i \in 1 .. m : b[i] \in Name
    BY <1>1, NamesAreParts, ElementOfSeq DEF Places
<1>3. /\ r \in Parts /\ Len(r) = m + 1 /\ r # <<>> /\ r[1] = ""
      /\ \A i \in 1 .. m : r[i + 1] = b[i]
    BY <1>1, <1>2, RootedIs
<1>4. /\ r # Empty /\ Len(r) > 1 /\ Names(r) = b /\ Absolute(b) = r /\ Last(r) = Last(b)
      /\ Last(b) \in Name
  <2>1. Last(b) \in Name
      BY FrontIs DEF Places
  <2> QED BY <1>2, <2>1, RootedEmpty, RootedFront, NamesOfRooted, Zenon DEF Absolute, Rooted, Join
<1> HIDE DEF r
<1>5. \A i \in DOMAIN r : r[i] # ".."
  <2>1. DOMAIN r = 1 .. m + 1
      BY <1>3, LenProperties DEF Parts
  <2>2. ASSUME NEW i \in 1 .. m + 1 PROVE r[i] # ".."
    <3>1. CASE i = 1
        BY <1>3, <3>1
    <3>2. CASE i # 1
      <4>1. i - 1 \in 1 .. m /\ (i - 1) + 1 = i
          BY <3>2
      <4>2. r[i] \in Name
          BY <1>2, <1>3, <4>1
      <4> QED BY <4>2, NamesAreParts
    <3> QED BY <3>1, <3>2
  <2> QED BY <2>1, <2>2
<1>6. StaysInside(r, FALSE)
    BY <1>3, <1>4, <1>5, Zenon DEF StaysInside
<1>7. Tidied(r) = r /\ TidiedRooted(r) = r
  <2>1. Rooted(b) = r
      BY DEF r
  <2> QED BY <1>3, <1>4, <1>6, <2>1, NormalizedInside, NormalizedFromRoot, Zenon
<1>8. IsAbsolute(r) /\ WellPlaced(r)
    BY <1>3, <1>4, <1>5, Zenon DEF IsAbsolute, WellPlaced
<1> QED BY <1>3, <1>4, <1>7, <1>8, Zenon DEF r

(* Nothing to normalise.                                                   *)
Plain(path) ==
    \A i \in 1 .. Len(path) : path[i] \in Name \/ (path[i] = ".." /\ (i # 1 => path[i - 1] = ".."))

LEMMA NormalizedPlain ==
    ASSUME NEW path \in Parts, Plain(path)
    PROVE  Tidied(path) = path
<1>1. ASSUME NEW absolute \in BOOLEAN, absolute = FALSE, NEW norm, norm = NormalizeParts(path, absolute)
      PROVE  norm = path
  <2>1. PICK N \in Nat : Len(path) = N
      BY LenIs DEF Parts
  <2> DEFINE f == [n \in 0 .. N |-> Take(path, n)]
  <2>2. f = [n \in 0 .. N |-> f[n]] /\ \A n \in 0 .. N : f[n] = Take(path, n)
      OBVIOUS
  <2> HIDE DEF f
  <2>3. Take(path, 0) = <<>> /\ Take(path, N) = path
      BY <2>1, TakeAll, Zenon DEF Parts
  <2>4. f[0] = <<>> /\ f[N] = path
    <3>1. 0 \in 0 .. N /\ N \in 0 .. N
        OBVIOUS
    <3> QED BY <2>2, <2>3, <3>1, Zenon
  <2>5. ASSUME NEW n \in 1 .. N PROVE f[n] = Put(f[n - 1], path, n, absolute)
    <3>1. n \in 0 .. N /\ n - 1 \in 0 .. N /\ n - 1 \in Nat /\ n - 1 < N /\ (n - 1) + 1 = n
          /\ (n # 1 => n - 1 \in 1 .. N) /\ (n = 1 => n - 1 = 0)
        OBVIOUS
    <3> DEFINE a == Take(path, n - 1)
    <3>2. Append(a, path[n]) = Take(path, n)
      <4>1. Append(Take(path, n - 1), path[(n - 1) + 1]) = Take(path, (n - 1) + 1)
          BY <2>1, <3>1, TakeOneMore DEF Parts
      <4> QED BY <3>1, <4>1, Zenon
    <3>3. n # 1 => Last(a) = path[n - 1]
        BY <2>1, <3>1, TakeOneLess DEF Parts
    <3>4. n = 1 => a = <<>>
        BY <2>3, <3>1, Zenon
    <3> HIDE DEF a
    <3>5. CASE path[n] \in Name
      <4>1. path[n] \notin {"", ".", ".."}
          BY <3>5, NamesAreParts
      <4>2. Put(a, path, n, absolute) = Append(a, path[n])
          BY <4>1 DEF Put
      <4> QED BY <2>2, <3>1, <3>2, <4>2, Zenon DEF a
    <3>6. CASE path[n] = ".." /\ (n # 1 => path[n - 1] = "..")
      <4>1. Up(a, absolute) = Append(a, "..")
          BY <1>1, <3>3, <3>4, <3>6 DEF Up
      <4>2. Put(a, path, n, absolute) = Append(a, path[n])
          BY <3>6, <4>1 DEF Put
      <4> QED BY <2>2, <3>1, <3>2, <4>2, Zenon DEF a
    <3>7. path[n] \in Name \/ (path[n] = ".." /\ (n # 1 => path[n - 1] = ".."))
        BY <2>1, Zenon DEF Plain
    <3> QED BY <3>5, <3>6, <3>7
  <2>6. PutsInTurn(f, path, N, absolute)
      BY <2>2, <2>4, <2>5, Zenon DEF PutsInTurn
  <2>7. norm = Settled(path, absolute)
    <3>1. PICK kept : kept = f[N]
        OBVIOUS
    <3>2. absolute \in BOOLEAN
        BY <1>1
    <3>3. norm = NormalizeParts(path, absolute)
        BY <1>1
    <3>4. norm = Settled(kept, absolute)
        BY <2>1, <2>6, <3>1, <3>2, <3>3, NormalizedIs, SMTT(30)
    <3> QED BY <2>4, <3>1, <3>4, Zenon
  <2> QED BY <1>1, <2>7 DEF Settled
<1> QED BY <1>1 DEF Tidied

-----------------------------------------------------------------------------
(* Where the ways to two places part.                                      *)

Parted(s, t, c) ==
    /\ c \in Nat /\ c <= Len(s) /\ c <= Len(t)
    /\ \A i \in 1 .. c : s[i] = t[i]
    /\ c < Len(s) /\ c < Len(t) => s[c + 1] # t[c + 1]

LEMMA PartSomewhere ==
    ASSUME NEW S, NEW s \in Seq(S), NEW t \in Seq(S)
    PROVE  \E c \in Nat : Parted(s, t, c)
<1>1. PICK m \in Nat, n \in Nat : Len(s) = m /\ Len(t) = n
  <2>1. (\E m \in Nat : Len(s) = m) /\ (\E n \in Nat : Len(t) = n)
      BY LenIs
  <2> QED BY <2>1, Zenon
<1>2. SUFFICES ASSUME \A c \in Nat : ~Parted(s, t, c) PROVE FALSE
    OBVIOUS
<1> DEFINE T == {c \in Nat : c <= m /\ c <= n /\ \A i \in 1 .. c : s[i] = t[i]}
<1>3. 0 \in T
    OBVIOUS
<1>4. ASSUME NEW c \in Nat, c \in T PROVE c + 1 \in T
  <2>1. c <= m /\ c <= n /\ \A i \in 1 .. c : s[i] = t[i]
      BY <1>4
  <2>2. c < m /\ c < n /\ s[c + 1] = t[c + 1]
      BY <1>1, <1>2, <2>1, Zenon DEF Parted
  <2>3. c + 1 <= m /\ c + 1 <= n /\ \A i \in 1 .. c + 1 : i \in 1 .. c \/ i = c + 1
      BY <2>2
  <2>4. \A i \in 1 .. c + 1 : s[i] = t[i]
      BY <2>1, <2>2, <2>3, Zenon
  <2>5. c + 1 \in Nat
      OBVIOUS
  <2> QED BY <2>3, <2>4, <2>5, Zenon
<1> HIDE DEF T
<1>5. \A c \in Nat : c \in T
    BY <1>3, <1>4, Induction
<1>6. m + 1 \in T
  <2>1. m + 1 \in Nat
      OBVIOUS
  <2> QED BY <1>5, <2>1, Zenon
<1>7. m + 1 <= m
    BY <1>6, Zenon DEF T
<1> QED BY <1>7

LEMMA PrefixIs ==
    ASSUME NEW S, NEW s \in Seq(S), NEW t \in Seq(S), NEW m \in Nat, NEW n \in Nat, Len(s) = m, Len(t) = n
    PROVE  IsPrefix(s, t) <=> m <= n /\ \A i \in 1 .. m : s[i] = t[i]
<1>1. IsPrefix(s, t) <=> m <= n /\ Take(s, m) = Take(t, m)
    BY Zenon DEF IsPrefix, Take
<1>2. Take(s, m) = s
    BY TakeAll, Zenon
<1>3. CASE ~(m <= n)
    BY <1>1, <1>3, Zenon
<1>4. CASE m <= n
  <2> DEFINE b == Take(t, m)
  <2>1. m \in 0 .. n
      BY <1>4
  <2>2. b \in Seq(S) /\ Len(b) = m /\ \A i \in 1 .. m : b[i] = t[i]
      BY <2>1, TakeIs
  <2> HIDE DEF b
  <2>3. s = b <=> \A i \in 1 .. m : s[i] = b[i]
      BY <2>2, SeqEqual
  <2>4. (\A i \in 1 .. m : s[i] = b[i]) <=> (\A i \in 1 .. m : s[i] = t[i])
      BY <2>2, Zenon
  <2>5. IsPrefix(s, t) <=> s = b
      BY <1>1, <1>2, <1>4, Zenon DEF b
  <2> QED BY <1>4, <2>3, <2>4, <2>5, Zenon
<1> QED BY <1>3, <1>4

LEMMA CommonIs ==
    ASSUME NEW S, NEW s \in Seq(S), NEW t \in Seq(S), NEW c, Parted(s, t, c)
    PROVE  Len(LongestCommonPrefix({s, t})) = c
<1>1. PICK m \in Nat, n \in Nat : Len(s) = m /\ Len(t) = n
  <2>1. (\E m \in Nat : Len(s) = m) /\ (\E n \in Nat : Len(t) = n)
      BY LenIs
  <2> QED BY <2>1, Zenon
<1>2. /\ c \in Nat /\ c <= m /\ c <= n
      /\ \A i \in 1 .. c : s[i] = t[i]
      /\ c < m /\ c < n => s[c + 1] # t[c + 1]
    BY <1>1, Zenon DEF Parted
<1> DEFINE All == CommonPrefixes({s, t})
           own == Take(s, c)
<1>3. c \in 0 .. m
    BY <1>2
<1>4. own \in Seq(S) /\ Len(own) = c /\ \A i \in 1 .. c : own[i] = s[i]
    BY <1>1, <1>3, TakeIs
<1>5. own \in Prefixes(s)
    BY <1>1, <1>3, Zenon DEF Prefixes, Take
<1> HIDE DEF own
<1>6. IsPrefix(own, s) /\ IsPrefix(own, t)
  <2>1. \A i \in 1 .. c : own[i] = t[i]
      BY <1>2, <1>4, Zenon
  <2> QED BY <1>1, <1>2, <1>4, <2>1, PrefixIs, Zenon
<1>7. own \in All
    BY <1>5, <1>6, Zenon DEF CommonPrefixes
<1>8. ASSUME NEW p \in All PROVE Len(p) \in Nat /\ Len(p) <= c
  <2>1. (p \in Prefixes(s) \/ p \in Prefixes(t)) /\ IsPrefix(p, s) /\ IsPrefix(p, t)
      BY <1>8, Zenon DEF CommonPrefixes
  <2>2. p \in Seq(S)
    <3>1. (\E l \in 0 .. m : p = Take(s, l)) \/ (\E l \in 0 .. n : p = Take(t, l))
        BY <1>1, <2>1, Zenon DEF Prefixes, Take
    <3>2. \A l \in 0 .. m : Take(s, l) \in Seq(S)
        BY <1>1, TakeIs, Zenon
    <3>3. \A l \in 0 .. n : Take(t, l) \in Seq(S)
        BY <1>1, TakeIs, Zenon
    <3> QED BY <3>1, <3>2, <3>3, Zenon
  <2>3. PICK l \in Nat : Len(p) = l
      BY <2>2, LenIs
  <2>4. l <= m /\ l <= n /\ (\A i \in 1 .. l : p[i] = s[i]) /\ (\A i \in 1 .. l : p[i] = t[i])
    <3>1. l <= m /\ \A i \in 1 .. l : p[i] = s[i]
      <4>1. IsPrefix(p, s)
          BY <2>1
      <4>2. Len(s) = m /\ Len(p) = l
          BY <1>1, <2>3
      <4>3. IsPrefix(p, s) <=> l <= m /\ \A i \in 1 .. l : p[i] = s[i]
          BY <2>2, <2>3, <1>1, <4>2, PrefixIs, ZenonT(30)
      <4> QED BY <4>1, <4>3, Zenon
    <3>2. l <= n /\ \A i \in 1 .. l : p[i] = t[i]
      <4>1. IsPrefix(p, t)
          BY <2>1
      <4>2. Len(t) = n /\ Len(p) = l
          BY <1>1, <2>3
      <4>3. IsPrefix(p, t) <=> l <= n /\ \A i \in 1 .. l : p[i] = t[i]
          BY <2>2, <2>3, <1>1, <4>2, PrefixIs, ZenonT(30)
      <4> QED BY <4>1, <4>3, Zenon
    <3> QED BY <3>1, <3>2, Zenon
  <2>5. ASSUME ~(l <= c) PROVE FALSE
    <3>1. c + 1 \in 1 .. l /\ c < m /\ c < n
        BY <1>2, <2>4, <2>5
    <3>2. p[c + 1] = s[c + 1] /\ p[c + 1] = t[c + 1]
        BY <2>4, <3>1, Zenon
    <3> QED BY <1>2, <3>1, <3>2, Zenon
  <2> QED BY <2>3, <2>5, Zenon
<1> HIDE DEF All
<1> DEFINE chosen == CHOOSE longest \in All : \A other \in All : Len(other) <= Len(longest)
<1>9. chosen \in All /\ \A other \in All : Len(other) <= Len(chosen)
  <2>1. \A other \in All : Len(other) <= Len(own)
      BY <1>4, <1>8, Zenon
  <2> QED BY <1>7, <2>1, Zenon
<1>10. LongestCommonPrefix({s, t}) = chosen
    BY Zenon DEF LongestCommonPrefix, All
<1> HIDE DEF chosen
<1>11. PICK k \in Nat : k = Len(chosen) /\ k <= c /\ c <= k
    BY <1>4, <1>7, <1>8, <1>9, Zenon
<1>12. k = c
    BY <1>2, <1>11
<1> QED BY <1>10, <1>11, <1>12, Zenon

(* The directory of the library file, as writeToFile computes it.          *)
Directory(f) == IF IsAbsolute(f) THEN Front(Names(f)) ELSE <<>>

LEMMA EndsWithName ==
    ASSUME NEW f \in Parts \ {<<>>}, Last(f) \in Name
    PROVE  Names(f) \in Places \ {<<>>}
<1>1. PICK N \in Nat : Len(f) = N /\ N # 0
    BY LenIs DEF Parts
<1>2. PICK g : Goes(g, <<>>, f, Names(f))
    BY NamesExist, Zenon DEF Leads
<1>3. N \in 1 .. N /\ N - 1 \in 0 .. N
    BY <1>1
<1>4. g[N] = Names(f) /\ g[N] = Walk(g[N - 1], f[N]) /\ g[N - 1] \in Places
    BY <1>1, <1>2, <1>3, Zenon DEF Goes
<1>5. f[N] \in Name
  <2>1. Last(f) = f[N]
      BY <1>1, FrontTo DEF Parts
  <2> QED BY <2>1
<1>6. Walk(g[N - 1], f[N]) = Append(g[N - 1], f[N])
  <2>1. f[N] \notin {"", ".", ".."}
      BY <1>5, NamesAreParts
  <2> QED BY <2>1 DEF Walk
<1>7. Append(g[N - 1], f[N]) # <<>>
  <2> DEFINE a == g[N - 1]
  <2>1. a \in Seq(Name) /\ f[N] \in Name
      BY <1>4, <1>5, Zenon DEF Places
  <2> HIDE DEF a
  <2>2. Append(a, f[N]) # <<>>
      BY <2>1, AppendProperties
  <2> QED BY <2>2 DEF a
<1> QED BY <1>4, <1>6, <1>7, NamesExist, Zenon

LEMMA NormalizedEmpty == Tidied(Empty) = <<>>
<1>1. ASSUME NEW absolute \in BOOLEAN, absolute = FALSE, NEW norm, norm = NormalizeParts(Empty, absolute)
      PROVE  norm = <<>>
  <2> DEFINE f == [n \in 0 .. 1 |-> <<>>]
  <2>1. f = [n \in 0 .. 1 |-> f[n]] /\ \A n \in 0 .. 1 : f[n] = <<>>
      OBVIOUS
  <2> HIDE DEF f
  <2>2. Put(<<>>, Empty, 1, absolute) = <<>>
    <3>1. ~(1 < 1)
        OBVIOUS
    <3> QED BY <1>1, <3>1, NamesAreParts DEF Put
  <2>3. /\ f[0] = <<>> /\ f[1] = <<>>
        /\ \A n \in 1 .. 1 : f[n] = Put(f[n - 1], Empty, n, absolute)
    <3>1. 0 \in 0 .. 1 /\ 1 \in 0 .. 1 /\ 1 - 1 = 0 /\ \A n \in 1 .. 1 : n = 1
        OBVIOUS
    <3> QED BY <2>1, <2>2, <3>1, Zenon
  <2>4. PutsInTurn(f, Empty, 1, absolute)
      BY <2>1, <2>3, Zenon DEF PutsInTurn
  <2>5. PICK kept : kept = f[1]
      OBVIOUS
  <2>6. norm = Settled(kept, absolute)
    <3>1. absolute \in BOOLEAN
        BY <1>1
    <3>2. norm = NormalizeParts(Empty, absolute)
        BY <1>1
    <3>3. PICK N \in Nat : N = 1
        OBVIOUS
    <3>4. Empty \in Parts /\ Len(Empty) = N /\ PutsInTurn(f, Empty, N, absolute) /\ kept = f[N]
        BY <2>4, <2>5, <3>3, NamesAreParts, Zenon
    <3> QED BY <3>1, <3>2, <3>4, NormalizedIs, SMTT(30)
  <2> QED BY <1>1, <2>3, <2>5, <2>6 DEF Settled
<1> QED BY <1>1 DEF Tidied

LEMMA DirectoryIs ==
    ASSUME NEW f \in Parts \ {<<>>}, WellPlaced(f)
    PROVE  Directory(f) \in Places /\ RemoveLastPathElement(f) = Rooted(Directory(f))
<1>1. Last(f) \in Name
    BY Zenon DEF WellPlaced
<1>2. Rooted(<<>>) = Empty
    BY RootedEmpty, NamesAreParts
<1>3. CASE IsAbsolute(f)
  <2> DEFINE n == Names(f)
  <2>1. n \in Places /\ n # <<>>
      BY <1>1, EndsWithName
  <2>2. Len(f) > 1 /\ f[1] = ""
      BY <1>3, Zenon DEF IsAbsolute
  <2>3. StaysInside(f, FALSE)
    <3>1. ~(Len(f) = 1)
      <4>1. PICK m : m = Len(f)
          OBVIOUS
      <4>2. m > 1
          BY <2>2, <4>1
      <4>3. ~(m = 1)
          BY <4>2
      <4> QED BY <4>1, <4>3
    <3>2. \A i \in DOMAIN f : f[i] = ".." => Names(SubSeq(f, 1, i - 1)) # <<>>
        BY <3>1, Zenon DEF WellPlaced
    <3> QED BY <2>2, <3>2, Zenon DEF StaysInside
  <2>4. Tidied(f) = Rooted(n)
      BY <2>3, NormalizedInside
  <2> HIDE DEF n
  <2>5. n \in Parts /\ Front(n) \in Places /\ Front(n) \in Parts
      BY <2>1, NamesAreParts, FrontIs DEF Places
  <2>6. Front(Rooted(n)) = Rooted(Front(n)) /\ Rooted(n) # <<>> /\ Rooted(Front(n)) # <<>>
    <3>1. \A p \in Parts : Rooted(p) # <<>>
      <4> SUFFICES ASSUME NEW p \in Parts PROVE Rooted(p) # <<>>
          OBVIOUS
      <4>1. PICK m \in Nat : Len(p) = m
          BY LenIs DEF Parts
      <4> QED BY <4>1, RootedIs
    <3> QED BY <2>1, <2>5, <3>1, RootedFront, Zenon
  <2>7. RemoveLastPathElement(f) = Rooted(Front(n))
      BY <2>4, <2>6, Zenon DEF RemoveLastPathElement, Tidied, Joined
  <2> QED BY <1>3, <2>5, <2>7, Zenon DEF Directory, n
<1>4. CASE ~IsAbsolute(f)
  <2>1. Len(f) = 1
      BY <1>4, Zenon DEF WellPlaced
  <2>2. f[1] \in Name /\ f = <<f[1]>>
    <3>1. Last(f) = f[1]
        BY <2>1, Zenon DEF Last
    <3>2. f[1] \in Name
        BY <1>1, <3>1
    <3> QED BY <2>1, <3>2 DEF Parts
  <2>3. Tidied(f) = f
    <3>1. Plain(f)
      <4>1. \A i \in 1 .. 1 : i = 1
          OBVIOUS
      <4> QED BY <2>1, <2>2, <4>1, Zenon DEF Plain
    <3> QED BY <3>1, NormalizedPlain
  <2>4. Front(f) = <<>>
    <3>1. Front(f) = Take(f, 0)
      <4>1. 1 - 1 = 0
          OBVIOUS
      <4> QED BY <2>1, <4>1, Zenon DEF Front, Take
    <3> QED BY <3>1, TakeAll, Zenon DEF Parts
  <2>5. RemoveLastPathElement(f) = Empty
      BY <2>3, <2>4, Zenon DEF RemoveLastPathElement, Tidied, Joined
  <2>6. <<>> \in Places
      BY EmptySeq, Zenon DEF Places
  <2> QED BY <1>2, <1>4, <2>5, <2>6, Zenon DEF Directory
<1> QED BY <1>3, <1>4

(* The way from a directory to a book that part after c names.             *)
Way(d, b, c) == Join(Ups(Len(d) - c), Rest(b, c))

LEMMA WayIs ==
    ASSUME NEW k \in Nat, NEW b \in Places, NEW m \in Nat, Len(b) = m, NEW c \in 0 .. m, c # m,
           NEW way, way = Join(Ups(k), Rest(b, c))
    PROVE  /\ way \in Parts /\ way # <<>> /\ way # Empty /\ ~IsAbsolute(way)
           /\ Tidied(way) = way
<1> DEFINE u == Ups(k)
           r == Rest(b, c)
           n == m - c
<1>1. u \in Parts /\ Len(u) = k /\ \A i \in 1 .. k : u[i] = ".."
    BY UpsIs
<1>2. /\ r \in Places /\ Len(r) = n
      /\ \A i \in 1 .. n : r[i] \in Name
  <2>1. r \in Places /\ Len(r) = n
      BY RestIs, Zenon DEF Places
  <2> HIDE DEF r, n
  <2> QED BY <2>1, ElementOfSeq DEF Places
<1>3. n \in Nat /\ n # 0
    OBVIOUS
<1> HIDE DEF u, r, n
<1> DEFINE w == Join(u, r)
<1>4. /\ w \in Parts /\ Len(w) = k + n
      /\ \A i \in 1 .. k + n : w[i] = IF i <= k THEN u[i] ELSE r[i - k]
  <2>1. r \in Parts
      BY <1>2, NamesAreParts DEF Places
  <2>2. /\ w \in Parts /\ Len(w) = Len(u) + Len(r)
        /\ \A i \in 1 .. Len(u) + Len(r) : w[i] = IF i <= Len(u) THEN u[i] ELSE r[i - Len(u)]
      BY <1>1, <2>1, JoinIs, Zenon DEF Parts
  <2> HIDE DEF w
  <2> QED BY <1>1, <1>2, <2>2, Zenon
<1> HIDE DEF w
<1>5. ASSUME NEW i \in 1 .. k + n
      PROVE  w[i] \in Name \/ (w[i] = ".." /\ (i # 1 => w[i - 1] = ".."))
  <2>1. CASE i <= k
    <3>1. i \in 1 .. k /\ (i # 1 => i - 1 \in 1 .. k /\ i - 1 <= k /\ i - 1 \in 1 .. k + n)
        BY <1>3, <2>1
    <3> QED BY <1>1, <1>4, <2>1, <3>1, Zenon
  <2>2. CASE ~(i <= k)
    <3>1. i - k \in 1 .. n
        BY <1>3, <2>2
    <3> QED BY <1>2, <1>4, <2>2, <3>1, Zenon
  <2> QED BY <2>1, <2>2
<1>6. w # <<>> /\ w[1] # ""
  <2>1. k + n # 0 /\ 1 \in 1 .. k + n
      BY <1>3
  <2>2. w[1] \in Name \/ w[1] = ".."
      BY <1>5, <2>1, Zenon
  <2>3. w[1] # ""
      BY <2>2, NamesAreParts
  <2>4. w # <<>>
      BY <1>4, <2>1
  <2> QED BY <2>3, <2>4
<1>7. w # Empty /\ ~IsAbsolute(w)
    BY <1>6, NamesAreParts, Zenon DEF IsAbsolute
<1>8. Tidied(w) = w
  <2>1. Plain(w)
      BY <1>4, <1>5, Zenon DEF Plain
  <2> QED BY <1>4, <2>1, NormalizedPlain
<1>9. way = w
    BY Zenon DEF w, u, r
<1> QED BY <1>4, <1>6, <1>7, <1>8, <1>9, Zenon

(* A path from the root to a place, and ways that part before a place.     *)
LeadsTo(path, b) == path \in Parts /\ path # <<>> /\ path[1] = "" /\ Names(path) = b

PartBefore(d, b, c) == Parted(d, b, c) /\ c # Len(b)

LEMMA PartBeforeIs ==
    ASSUME NEW d, NEW b, NEW c, PartBefore(d, b, c), NEW m \in Nat, NEW n \in Nat, Len(d) = m, Len(b) = n
    PROVE  /\ c \in Nat /\ c <= m /\ c < n /\ c \in 0 .. m /\ c \in 0 .. n /\ c # n
           /\ \A i \in 1 .. c : d[i] = b[i]
           /\ c < m => d[c + 1] # b[c + 1]
<1>1. c \in Nat /\ c <= m /\ c <= n /\ c # n
    BY Zenon DEF PartBefore, Parted
<1>2. c < n /\ c \in 0 .. m /\ c \in 0 .. n
    BY <1>1
<1> QED BY <1>1, <1>2, Zenon DEF PartBefore, Parted

LEMMA NormalizedBook ==
    ASSUME NEW path, NEW b \in Places, b # <<>>, LeadsTo(path, b)
    PROVE  TidiedRooted(path) = Rooted(b)
<1>1. TidiedRooted(path) = Absolute(b)
  <2>1. path \in Parts /\ path # <<>> /\ path[1] = "" /\ Names(path) = b
      BY Zenon DEF LeadsTo
  <2> QED BY <2>1, NormalizedFromRoot
<1> QED BY <1>1, RootedIsPlaced, Zenon

LEMMA RelativeParts ==
    ASSUME NEW path, NEW book_, NEW from, NEW to, NEW c, NEW k,
           from = Tidied(path), to = TidiedRooted(book_),
           Len(LongestCommonPrefix({from, to})) = c, Len(from) - c = k
    PROVE  ComputeRelativePath(path, book_) = Joined(Tidied(Join(Ups(k), Rest(to, c))))
BY Zenon DEF ComputeRelativePath, Tidied, TidiedRooted, Join, Ups, Rest

LEMMA FromNowhere ==
    ASSUME NEW path, NEW b \in Places, b # <<>>, LeadsTo(path, b)
    PROVE  ComputeRelativePath(Empty, path) = Absolute(b)
<1>1. PICK to : to = Rooted(b)
    OBVIOUS
<1>2. TidiedRooted(path) = to /\ Tidied(Empty) = <<>>
    BY <1>1, NormalizedBook, NormalizedEmpty, Zenon
<1>3. to \in Parts /\ to # <<>> /\ Absolute(b) = to /\ Tidied(to) = to
    BY <1>1, RootedIsPlaced, Zenon
<1>4. <<>> \in Parts /\ Len(<<>>) = 0
  <2>1. <<>> \in Parts
      BY EmptySeq, Zenon DEF Parts
  <2> QED BY <2>1
<1>5. Len(LongestCommonPrefix({<<>>, to})) = 0
  <2>1. PICK n \in Nat : Len(to) = n
      BY <1>3, LenIs DEF Parts
  <2>2. Parted(<<>>, to, 0)
    <3>1. 1 .. 0 = {} /\ 0 \in Nat /\ 0 <= 0 /\ ~(0 < 0) /\ 0 <= n
        OBVIOUS
    <3> QED BY <1>4, <2>1, <3>1, Zenon DEF Parted
  <2> QED BY <1>3, <1>4, <2>2, CommonIs, Zenon DEF Parts
<1>6. Len(<<>>) - 0 = 0
    BY <1>4
<1>7. ComputeRelativePath(Empty, path) = Joined(Tidied(Join(Ups(0), Rest(to, 0))))
    BY <1>2, <1>5, <1>6, RelativeParts
<1>8. Ups(0) = <<>>
  <2>1. Len(Ups(0)) = 0 /\ Ups(0) \in Parts
      BY UpsIs
  <2> QED BY <2>1, EmptySeq DEF Parts
<1>9. Rest(to, 0) = to
  <2>1. Take(to, Len(to)) = to
      BY <1>3, TakeAll, Zenon DEF Parts
  <2>2. 0 + 1 = 1
      OBVIOUS
  <2> QED BY <2>1, <2>2, Zenon DEF Rest, Take
<1>10. Join(<<>>, to) = to
    BY <1>3, ConcatEmptySeq DEF Join, Parts
<1> QED BY <1>3, <1>7, <1>8, <1>9, <1>10, Zenon DEF Joined

LEMMA RestOfParts ==
    ASSUME NEW b \in Parts, NEW m \in Nat, Len(b) = m, NEW c \in 0 .. m
    PROVE  /\ Rest(b, c) \in Parts /\ Len(Rest(b, c)) = m - c
           /\ \A i \in 1 .. m - c : Rest(b, c)[i] = b[c + i]
<1>1. b \in Seq(Part)
    BY DEF Parts
<1>2. /\ Rest(b, c) \in Seq(Part) /\ Len(Rest(b, c)) = m - c
      /\ \A i \in 1 .. m - c : Rest(b, c)[i] = b[c + i]
    BY <1>1, RestIs
<1> QED BY <1>2, Zenon DEF Parts

LEMMA RootedParts ==
    ASSUME NEW d \in Places, NEW b \in Places, NEW c, PartBefore(d, b, c)
    PROVE  /\ Parted(Rooted(d), Rooted(b), c + 1) /\ c \in Nat
           /\ Rest(Rooted(b), c + 1) = Rest(b, c)
           /\ Len(Rooted(d)) - (c + 1) = Len(d) - c /\ Len(d) - c \in Nat
<1>1. PICK m \in Nat, n \in Nat : Len(d) = m /\ Len(b) = n
  <2>1. (\E m \in Nat : Len(d) = m) /\ (\E n \in Nat : Len(b) = n)
      BY LenIs DEF Places
  <2> QED BY <2>1, Zenon
<1>2. d \in Parts /\ b \in Parts
    BY NamesAreParts DEF Places
<1>3. c \in Nat /\ c <= m /\ c < n /\ c \in 0 .. n
    BY <1>1, PartBeforeIs
<1>4. (\A i \in 1 .. c : d[i] = b[i]) /\ (c < m => d[c + 1] # b[c + 1])
    BY <1>1, PartBeforeIs
<1> DEFINE from == Rooted(d)
           to == Rooted(b)
<1>5. from \in Parts /\ Len(from) = m + 1 /\ from[1] = "" /\ \A i \in 1 .. m : from[i + 1] = d[i]
    BY <1>1, <1>2, RootedIs, Zenon
<1>6. to \in Parts /\ Len(to) = n + 1 /\ to[1] = "" /\ \A i \in 1 .. n : to[i + 1] = b[i]
    BY <1>1, <1>2, RootedIs, Zenon
<1> HIDE DEF from, to
<1>7. Parted(from, to, c + 1)
  <2>1. c + 1 \in Nat /\ c + 1 <= m + 1 /\ c + 1 <= n + 1
      BY <1>3
  <2>2. ASSUME NEW i \in 1 .. c + 1 PROVE from[i] = to[i]
    <3>1. CASE i = 1
        BY <1>5, <1>6, <3>1, Zenon
    <3>2. CASE i # 1
      <4>1. i - 1 \in 1 .. c /\ i - 1 \in 1 .. m /\ i - 1 \in 1 .. n /\ (i - 1) + 1 = i
          BY <1>3, <3>2
      <4>2. from[(i - 1) + 1] = d[i - 1] /\ to[(i - 1) + 1] = b[i - 1] /\ d[i - 1] = b[i - 1]
          BY <1>4, <1>5, <1>6, <4>1, Zenon
      <4> QED BY <4>1, <4>2, Zenon
    <3> QED BY <3>1, <3>2
  <2>3. ASSUME c + 1 < m + 1 PROVE from[(c + 1) + 1] # to[(c + 1) + 1]
    <3>1. c < m /\ c + 1 \in 1 .. m /\ c + 1 \in 1 .. n
        BY <1>3, <2>3
    <3>2. from[(c + 1) + 1] = d[c + 1] /\ to[(c + 1) + 1] = b[c + 1]
        BY <1>5, <1>6, <3>1, Zenon
    <3> QED BY <1>4, <3>1, <3>2, Zenon
  <2> QED BY <1>5, <1>6, <2>1, <2>2, <2>3, Zenon DEF Parted
<1>8. Len(from) - (c + 1) = m - c /\ m - c \in Nat
  <2>1. (m + 1) - (c + 1) = m - c /\ m - c \in Nat
      BY <1>3
  <2> QED BY <1>5, <2>1, Zenon
<1>9. Rest(to, c + 1) = Rest(b, c)
  <2> DEFINE p == Rest(to, c + 1)
             q == Rest(b, c)
  <2>1. PICK k \in Nat, e \in Nat, l \in Nat : k = n + 1 /\ e = c + 1 /\ l = n - c
    <3>1. n + 1 \in Nat /\ c + 1 \in Nat /\ n - c \in Nat
        BY <1>3
    <3> QED BY <3>1, Zenon
  <2>2. e \in 0 .. k /\ k - e = l
      BY <1>3, <2>1
  <2>3. p \in Parts /\ Len(p) = l /\ \A i \in 1 .. l : p[i] = to[e + i]
    <3>1. k \in Nat /\ to \in Parts /\ Len(to) = k /\ e \in 0 .. k /\ k - e = l /\ e = c + 1
        BY <1>6, <2>1, <2>2, Zenon
    <3>2. /\ Rest(to, e) \in Parts /\ Len(Rest(to, e)) = k - e
          /\ \A i \in 1 .. k - e : Rest(to, e)[i] = to[e + i]
        BY <3>1, RestOfParts, ZenonT(30)
    <3> QED BY <3>1, <3>2, Zenon
  <2>4. q \in Parts /\ Len(q) = l /\ \A i \in 1 .. l : q[i] = b[c + i]
    <3>1. n \in Nat /\ b \in Parts /\ Len(b) = n /\ c \in 0 .. n /\ l = n - c
        BY <1>1, <1>2, <1>3, <2>1, Zenon
    <3>2. /\ Rest(b, c) \in Parts /\ Len(Rest(b, c)) = n - c
          /\ \A i \in 1 .. n - c : Rest(b, c)[i] = b[c + i]
        BY <3>1, RestOfParts, ZenonT(30)
    <3> QED BY <3>1, <3>2, Zenon
  <2> HIDE DEF p, q
  <2>5. ASSUME NEW i \in 1 .. l PROVE p[i] = q[i]
    <3>1. c + i \in 1 .. n /\ e + i = (c + i) + 1
        BY <1>3, <2>1
    <3> QED BY <1>6, <2>3, <2>4, <3>1, Zenon
  <2>6. p = q
      BY <2>3, <2>4, <2>5, SeqEqual DEF Parts
  <2> QED BY <2>6 DEF p, q
<1> QED BY <1>1, <1>3, <1>7, <1>8, <1>9, Zenon DEF from, to

LEMMA RelativeIs ==
    ASSUME NEW d \in Places, d # <<>>, NEW path, NEW b \in Places, LeadsTo(path, b),
           NEW c, PartBefore(d, b, c)
    PROVE  ComputeRelativePath(Rooted(d), path) = Way(d, b, c)
<1>1. PICK m \in Nat, n \in Nat : Len(d) = m /\ Len(b) = n /\ (n = 0 <=> b = <<>>)
  <2>1. (\E m \in Nat : Len(d) = m) /\ (\E n \in Nat : Len(b) = n /\ (n = 0 <=> b = <<>>))
      BY LenIs DEF Places
  <2> QED BY <2>1, Zenon
<1>2. c \in 0 .. n /\ c # n /\ b # <<>>
  <2>1. c \in Nat /\ c < n /\ c \in 0 .. n
      BY <1>1, PartBeforeIs
  <2>2. n # 0 /\ c # n
      BY <2>1
  <2> QED BY <1>1, <2>1, <2>2, Zenon
<1>3. PICK from, to, k : from = Rooted(d) /\ to = Rooted(b) /\ k = m - c
    OBVIOUS
<1>4. TidiedRooted(path) = to /\ Tidied(from) = from
      /\ from \in Parts /\ to \in Parts
  <2>1. TidiedRooted(path) = to
      BY <1>2, <1>3, NormalizedBook, Zenon
  <2>2. Tidied(from) = from /\ from \in Parts
      BY <1>3, RootedIsPlaced, Zenon
  <2>3. to \in Parts
      BY <1>2, <1>3, RootedIsPlaced, Zenon
  <2> QED BY <2>1, <2>2, <2>3
<1>5. /\ Parted(from, to, c + 1) /\ Rest(to, c + 1) = Rest(b, c)
      /\ Len(from) - (c + 1) = k /\ k \in Nat
    BY <1>1, <1>3, RootedParts, Zenon
<1>6. Len(LongestCommonPrefix({from, to})) = c + 1
    BY <1>4, <1>5, CommonIs, Zenon DEF Parts
<1>7. ComputeRelativePath(from, path) = Joined(Tidied(Join(Ups(k), Rest(to, c + 1))))
    BY <1>4, <1>5, <1>6, RelativeParts
<1>8. PICK way : way = Join(Ups(k), Rest(b, c))
    OBVIOUS
<1>9. Tidied(way) = way /\ way # <<>>
    BY <1>1, <1>2, <1>5, <1>8, WayIs
<1> QED BY <1>1, <1>3, <1>5, <1>7, <1>8, <1>9, Zenon DEF Joined, Way

LEMMA AbsoluteParts ==
    ASSUME NEW path, NEW relativePath, path # Empty,
           TidiedRooted(path) = path, Tidied(relativePath) = relativePath
    PROVE  ComputeAbsolutePath(path, relativePath) = Joined(TidiedRooted(Join(path, relativePath)))
BY Zenon DEF ComputeAbsolutePath, Tidied, TidiedRooted, Join

LEMMA AbsoluteIs ==
    ASSUME NEW d \in Places, d # <<>>, NEW b \in Places, NEW c, PartBefore(d, b, c)
    PROVE  /\ IsRelativePath(Way(d, b, c))
           /\ ComputeAbsolutePath(Rooted(d), Way(d, b, c)) = Absolute(b)
<1>1. PICK m \in Nat, n \in Nat : Len(d) = m /\ Len(b) = n
  <2>1. (\E m \in Nat : Len(d) = m) /\ (\E n \in Nat : Len(b) = n)
      BY LenIs DEF Places
  <2> QED BY <2>1, Zenon
<1>2. c \in Nat /\ c <= m /\ c < n /\ c # n /\ c \in 0 .. n /\ c \in 0 .. m
    BY <1>1, PartBeforeIs
<1>3. PICK k \in Nat : k = m - c /\ k \in 0 .. m /\ m - k = c
    BY <1>2
<1>0. \A i \in 1 .. c : d[i] = b[i]
    BY <1>1, PartBeforeIs, Zenon
<1>13. PICK way : way = Join(Ups(k), Rest(b, c))
    OBVIOUS
<1> DEFINE all == Join(Rooted(d), way)
<1>4. Way(d, b, c) = way
    BY <1>1, <1>3, <1>13, Zenon DEF Way
<1>5. way \in Parts /\ way # Empty /\ ~IsAbsolute(way) /\ Tidied(way) = way
    BY <1>1, <1>2, <1>3, <1>13, WayIs
<1>6. /\ Rooted(d) \in Parts /\ Rooted(d) # Empty /\ TidiedRooted(Rooted(d)) = Rooted(d)
      /\ Rooted(d)[1] = "" /\ Len(Rooted(d)) = m + 1
  <2>1. Rooted(d) \in Parts /\ Rooted(d) # Empty /\ TidiedRooted(Rooted(d)) = Rooted(d)
      BY RootedIsPlaced
  <2>2. d \in Parts
      BY NamesAreParts DEF Places
  <2> QED BY <1>1, <2>1, <2>2, RootedIs
<1>7. Take(d, c) = Take(b, c)
  <2> DEFINE p == Take(d, c)
             q == Take(b, c)
  <2>1. p \in Places /\ Len(p) = c /\ \A i \in 1 .. c : p[i] = d[i]
      BY <1>1, <1>2, TakeIs, Zenon DEF Places
  <2>2. q \in Places /\ Len(q) = c /\ \A i \in 1 .. c : q[i] = b[i]
      BY <1>1, <1>2, TakeIs, Zenon DEF Places
  <2> HIDE DEF p, q
  <2>3. \A i \in 1 .. c : p[i] = q[i]
      BY <1>0, <2>1, <2>2, Zenon
  <2>4. p = q
      BY <2>1, <2>2, <2>3, SeqEqual DEF Places
  <2> QED BY <2>4 DEF p, q
<1>8. Names(all) = b /\ all \in Parts
  <2>1. Leads(<<>>, Rooted(d), d)
      BY LeadsFromRoot
  <2>2. Leads(d, Ups(k), Take(b, c))
      BY <1>1, <1>3, <1>7, LeadsUp, Zenon
  <2>3. Leads(Take(b, c), Rest(b, c), b)
      BY <1>1, <1>2, LeadsOn, Zenon
  <2>4. Ups(k) \in Parts /\ Rest(b, c) \in Parts
    <3>1. Rest(b, c) \in Places
        BY <1>1, <1>2, RestIs, Zenon DEF Places
    <3>2. Rest(b, c) \in Parts
        BY <3>1, NamesAreParts DEF Places
    <3> QED BY <3>2, UpsIs
  <2>5. Leads(d, way, b)
      BY <1>13, <2>2, <2>3, <2>4, LeadsBoth, Zenon
  <2>6. all \in Parts /\ Leads(<<>>, all, b)
      BY <1>5, <1>6, <2>1, <2>5, LeadsBoth, Zenon
  <2> HIDE DEF all
  <2> QED BY <2>6, NamesAre
<1>9. all # <<>> /\ all[1] = ""
  <2>1. PICK l \in Nat : Len(way) = l
      BY <1>5, LenIs DEF Parts
  <2>2. /\ Len(all) = (m + 1) + l
        /\ \A i \in 1 .. (m + 1) + l : all[i] = IF i <= m + 1 THEN Rooted(d)[i] ELSE way[i - (m + 1)]
    <3>1. /\ Len(all) = Len(Rooted(d)) + Len(way)
          /\ \A i \in 1 .. Len(Rooted(d)) + Len(way) :
                all[i] = IF i <= Len(Rooted(d)) THEN Rooted(d)[i] ELSE way[i - Len(Rooted(d))]
        BY <1>5, <1>6, JoinIs, Zenon DEF Parts
    <3> HIDE DEF all
    <3> QED BY <1>6, <2>1, <3>1, Zenon
  <2> HIDE DEF all
  <2>3. 1 \in 1 .. (m + 1) + l /\ 1 <= m + 1 /\ (m + 1) + l # 0
      OBVIOUS
  <2>4. all[1] = ""
      BY <1>6, <2>2, <2>3, Zenon
  <2>5. all # <<>>
      BY <2>2, <2>3
  <2> QED BY <2>4, <2>5
<1> HIDE DEF all
<1>10. TidiedRooted(all) = Absolute(b)
    BY <1>8, <1>9, NormalizedFromRoot
<1>11. Absolute(b) # <<>>
  <2>1. <<"", "">> # <<>>
      OBVIOUS
  <2>2. Rooted(b) # <<>>
    <3>1. b \in Parts
        BY NamesAreParts DEF Places
    <3> QED BY <1>1, <3>1, RootedIs
  <2> QED BY <2>1, <2>2, Zenon DEF Absolute, Rooted, Join
<1>12. ComputeAbsolutePath(Rooted(d), way) = Joined(TidiedRooted(all))
  <2>1. PICK base : base = Rooted(d)
      OBVIOUS
  <2>2. ComputeAbsolutePath(base, way) = Joined(TidiedRooted(Join(base, way)))
    <3>1. base # Empty /\ TidiedRooted(base) = base
        BY <1>6, <2>1, Zenon
    <3>2. Tidied(way) = way
        BY <1>5
    <3> QED BY <3>1, <3>2, AbsoluteParts
  <2> QED BY <2>1, <2>2, Zenon DEF all
<1> QED BY <1>4, <1>5, <1>10, <1>11, <1>12, Zenon DEF Joined, IsRelativePath

(* A place with one name changed.                                          *)
Renamed(x, n, name_) == [x EXCEPT ![n] = name_]

(* y is x with its n-th name changed.                                      *)
IsRenamed(y, x, m, n, new) ==
    /\ y \in Places /\ Len(x) = m /\ Len(y) = m /\ y # <<>>
    /\ \A i \in 1 .. m : y[i] = IF i = n THEN new ELSE x[i]

LEMMA RenamedIs ==
    ASSUME NEW x \in Places, NEW m \in Nat, Len(x) = m, NEW n \in 1 .. m, NEW new \in Name
    PROVE  IsRenamed(Renamed(x, n, new), x, m, n, new)
<1> DEFINE y == Renamed(x, n, new)
<1>1. x \in [1 .. m -> Name]
    BY LenProperties DEF Places
<1>2. y \in [1 .. m -> Name] /\ \A i \in 1 .. m : y[i] = IF i = n THEN new ELSE x[i]
    BY <1>1 DEF Renamed
<1> HIDE DEF y
<1>3. y \in Seq(Name) /\ Len(y) = m
    BY <1>2
<1>4. y # <<>>
    BY <1>3
<1> QED BY <1>2, <1>3, <1>4, Zenon DEF IsRenamed, Places, y

LEMMA MovedWay ==
    ASSUME NEW d \in Places, NEW b \in Places, NEW c, PartBefore(d, b, c),
           NEW n \in 1 .. c, NEW new \in Name,
           NEW m, NEW l, m \in Nat, l \in Nat,
           NEW e, IsRenamed(e, d, m, n, new), NEW a, IsRenamed(a, b, l, n, new)
    PROVE  PartBefore(e, a, c) /\ Way(e, a, c) = Way(d, b, c)
<1>1. Len(d) = m /\ Len(b) = l /\ e \in Places /\ a \in Places
    BY Zenon DEF IsRenamed
<1>2. c \in Nat /\ c <= m /\ c < l /\ c # l /\ c \in 0 .. l
    BY <1>1, PartBeforeIs
<1>3. (\A i \in 1 .. c : d[i] = b[i]) /\ (c < m => d[c + 1] # b[c + 1])
    BY <1>1, PartBeforeIs, SMTT(30)
<1>4. /\ Len(e) = m /\ \A i \in 1 .. m : e[i] = IF i = n THEN new ELSE d[i]
      /\ Len(a) = l /\ \A i \in 1 .. l : a[i] = IF i = n THEN new ELSE b[i]
    BY Zenon DEF IsRenamed
<1>5. \A i \in 1 .. c : e[i] = a[i]
  <2>1. \A i \in 1 .. c : i \in 1 .. m /\ i \in 1 .. l
      BY <1>2
  <2> QED BY <1>3, <1>4, <2>1, Zenon
<1>6. c < m => e[c + 1] # a[c + 1]
  <2> SUFFICES ASSUME c < m PROVE e[c + 1] # a[c + 1]
      OBVIOUS
  <2>1. c + 1 \in 1 .. m /\ c + 1 \in 1 .. l /\ c + 1 # n
      BY <1>2
  <2> QED BY <1>3, <1>4, <2>1, Zenon
<1>7. PartBefore(e, a, c)
  <2>1. c <= l
      BY <1>2
  <2> QED BY <1>2, <1>4, <1>5, <1>6, <2>1, Zenon DEF PartBefore, Parted
<1>8. Rest(a, c) = Rest(b, c)
  <2> DEFINE p == Rest(a, c)
             q == Rest(b, c)
  <2>1. p \in Places /\ Len(p) = l - c /\ \A i \in 1 .. l - c : p[i] = a[c + i]
    <3>1. Len(a) = l /\ a \in Seq(Name)
        BY <1>1, <1>4, Zenon DEF Places
    <3> QED BY <1>2, <3>1, RestIs, ZenonT(60) DEF Places
  <2>2. q \in Places /\ Len(q) = l - c /\ \A i \in 1 .. l - c : q[i] = b[c + i]
    <3>1. Len(b) = l /\ b \in Seq(Name)
        BY <1>1, Zenon DEF Places
    <3> QED BY <1>2, <3>1, RestIs, ZenonT(60) DEF Places
  <2> HIDE DEF p, q
  <2>3. ASSUME NEW i \in 1 .. l - c PROVE p[i] = q[i]
    <3>1. c + i \in 1 .. l /\ c + i # n
        BY <1>2
    <3> QED BY <1>4, <2>1, <2>2, <3>1, Zenon
  <2>4. p = q
      BY <2>1, <2>2, <2>3, SeqEqual DEF Places
  <2> QED BY <2>4 DEF p, q
<1> QED BY <1>1, <1>4, <1>7, <1>8, Zenon DEF Way

-----------------------------------------------------------------------------

(* The entry that was written leads from the directory of the library file *)
(* to the book, wherever the tree that holds them has gone.                *)
Entered ==
    LET d == Directory(file)
        b == Names(book)
    IN  IF d = <<>> THEN entry = Absolute(b)
        ELSE \E c : PartBefore(d, b, c) /\ entry = Way(d, b, c)

(* What has been written is where the book is as seen from the library     *)
(* file, and what has been read is where it is.                            *)
PathsInv ==
    /\ file \in Parts \ {<<>>} /\ WellPlaced(file)
    /\ book \in Parts /\ IsAbsolute(book)
    /\ stage \in {"loaded", "written", "read"}
    /\ stage = "loaded" => ~IsPrefix(Names(book), Opened(file))
    /\ stage = "written" => Names(book) # <<>> /\ Entered
    /\ stage = "read" => found = Absolute(Names(book))

LEMMA BookPath ==
    ASSUME NEW path \in Parts, IsAbsolute(path)
    PROVE  LeadsTo(path, Names(path)) /\ Names(path) \in Places /\ Opened(path) = Names(path)
<1>1. Len(path) > 1 /\ path[1] = ""
    BY Zenon DEF IsAbsolute
<1>2. path # <<>>
  <2>1. PICK m \in Nat : Len(path) = m /\ (m = 0 <=> path = <<>>)
      BY LenIs DEF Parts
  <2>2. m > 1
      BY <1>1, <2>1, Zenon
  <2>3. m # 0
      BY <2>2
  <2> QED BY <2>1, <2>3, Zenon
<1>3. Opened(path) = Names(path)
    BY Zenon DEF Opened
<1> QED BY <1>1, <1>2, <1>3, NamesExist, Zenon DEF LeadsTo

LEMMA FilePath ==
    ASSUME NEW f \in Parts \ {<<>>}, WellPlaced(f)
    PROVE  /\ Opened(f) \in Places
           /\ IsAbsolute(f) => Opened(f) = Names(f) /\ Names(f) # <<>> /\ Directory(f) = Front(Names(f))
           /\ ~IsAbsolute(f) => Directory(f) = <<>>
<1>1. IsAbsolute(f) => Opened(f) = Names(f) /\ Directory(f) = Front(Names(f))
    BY Zenon DEF Opened, Directory
<1>2. ~IsAbsolute(f) => Directory(f) = <<>> /\ Opened(f) = Names(Join(Cwd, f))
    BY Zenon DEF Opened, Directory, Join
<1>3. Join(Cwd, f) \in Parts
    BY NamesAreParts, JoinIs, Zenon DEF Parts
<1>4. Names(f) \in Places \ {<<>>}
    BY EndsWithName, Zenon DEF WellPlaced
<1>5. Names(Join(Cwd, f)) \in Places
    BY <1>3, NamesExist
<1> QED BY <1>1, <1>2, <1>4, <1>5

LEMMA PathsBegin == PathsInit => PathsInv
<1> SUFFICES ASSUME PathsInit PROVE PathsInv
    OBVIOUS
<1>1. file \in Parts \ {<<>>} /\ WellPlaced(file) /\ book \in Parts /\ IsAbsolute(book)
    BY NamesAreParts, PathsAssumption DEF PathsInit
<1>2. stage = "loaded" /\ ~IsPrefix(Opened(book), Opened(file))
    BY DEF PathsInit
<1>3. Opened(book) = Names(book)
    BY <1>1, BookPath
<1> QED BY <1>1, <1>2, <1>3 DEF PathsInv

LEMMA WriteKeeps ==
    ASSUME PathsInv, WritePaths
    PROVE  PathsInv'
<1>1. /\ stage = "loaded" /\ stage' = "written" /\ file' = file /\ book' = book /\ found' = found
      /\ entry' = ComputeRelativePath(RemoveLastPathElement(file), book)
    BY DEF WritePaths
<1>2. file \in Parts \ {<<>>} /\ WellPlaced(file) /\ book \in Parts /\ IsAbsolute(book)
    BY DEF PathsInv
<1>3. PICK d, b, f : d = Directory(file) /\ b = Names(book) /\ f = Opened(file)
    OBVIOUS
<1>4. d \in Places /\ RemoveLastPathElement(file) = Rooted(d)
    BY <1>2, <1>3, DirectoryIs
<1>5. b \in Places /\ LeadsTo(book, b)
    BY <1>2, <1>3, BookPath
<1>6. f \in Places /\ ~IsPrefix(b, f)
    BY <1>1, <1>2, <1>3, FilePath DEF PathsInv
<1>7. PICK l \in Nat, k \in Nat : Len(b) = l /\ (l = 0 <=> b = <<>>) /\ Len(f) = k
  <2>1. (\E l \in Nat : Len(b) = l /\ (l = 0 <=> b = <<>>)) /\ (\E k \in Nat : Len(f) = k)
      BY <1>5, <1>6, LenIs DEF Places
  <2> QED BY <2>1, Zenon
<1>8. ~(l <= k /\ \A i \in 1 .. l : b[i] = f[i])
  <2>1. IsPrefix(b, f) <=> l <= k /\ \A i \in 1 .. l : b[i] = f[i]
      BY <1>5, <1>6, <1>7, PrefixIs, Zenon DEF Places
  <2> QED BY <1>6, <2>1, Zenon
<1>9. b # <<>>
  <2>1. l = 0 => l <= k /\ \A i \in 1 .. l : b[i] = f[i]
      OBVIOUS
  <2> QED BY <1>7, <1>8, <2>1, Zenon
<1>10. IF d = <<>> THEN entry' = Absolute(b) ELSE \E c : PartBefore(d, b, c) /\ entry' = Way(d, b, c)
  <2>1. CASE d = <<>>
    <3>1. Rooted(d) = Empty
        BY <2>1, RootedEmpty, NamesAreParts
    <3>2. ComputeRelativePath(Empty, book) = Absolute(b)
        BY <1>5, <1>9, FromNowhere
    <3> QED BY <1>1, <1>4, <2>1, <3>1, <3>2, Zenon
  <2>2. CASE d # <<>>
    <3>1. f # <<>> /\ d = Front(f)
        BY <1>2, <1>3, <2>2, FilePath
    <3>2. PICK m \in Nat : Len(d) = m /\ m + 1 = k /\ \A i \in 1 .. m : d[i] = f[i]
      <4>1. k # 0
          BY <1>6, <1>7, <3>1 DEF Places
      <4>2. Len(d) = k - 1 /\ \A i \in 1 .. k - 1 : d[i] = f[i]
          BY <1>6, <1>7, <3>1, <4>1, FrontTo DEF Places
      <4>3. k - 1 \in Nat /\ (k - 1) + 1 = k
          BY <4>1
      <4> QED BY <4>2, <4>3, Zenon
    <3>3. PICK c : Parted(d, b, c)
        BY <1>4, <1>5, PartSomewhere, Zenon DEF Places
    <3>4. c \in Nat /\ c <= m /\ \A i \in 1 .. c : d[i] = b[i]
        BY <3>2, <3>3, Zenon DEF Parted
    <3>5. c # l
      <4> SUFFICES ASSUME c = l PROVE FALSE
          OBVIOUS
      <4>1. l <= k /\ \A i \in 1 .. l : i \in 1 .. m
          BY <3>2, <3>4
      <4>2. \A i \in 1 .. l : b[i] = f[i]
          BY <3>2, <3>4, <4>1, Zenon
      <4> QED BY <1>8, <4>1, <4>2, Zenon
    <3>6. PartBefore(d, b, c)
        BY <1>7, <3>3, <3>5, Zenon DEF PartBefore
    <3>7. ComputeRelativePath(Rooted(d), book) = Way(d, b, c)
        BY <1>4, <1>5, <2>2, <3>6, RelativeIs
    <3> QED BY <1>1, <1>4, <2>2, <3>6, <3>7, Zenon
  <2> QED BY <2>1, <2>2
<1>11. Entered'
    BY <1>1, <1>3, <1>10 DEF Entered
<1> QED BY <1>1, <1>2, <1>3, <1>9, <1>11 DEF PathsInv

LEMMA ReadKeeps ==
    ASSUME PathsInv, ReadPaths
    PROVE  PathsInv'
<1>1. /\ stage = "written" /\ stage' = "read" /\ file' = file /\ book' = book /\ entry' = entry
      /\ found' = IF IsRelativePath(entry)
                  THEN ComputeAbsolutePath(RemoveLastPathElement(file), entry)
                  ELSE entry
    BY DEF ReadPaths
<1>2. file \in Parts \ {<<>>} /\ WellPlaced(file) /\ book \in Parts /\ IsAbsolute(book)
    BY DEF PathsInv
<1>3. PICK d, b : d = Directory(file) /\ b = Names(book)
    OBVIOUS
<1>4. d \in Places /\ RemoveLastPathElement(file) = Rooted(d)
    BY <1>2, <1>3, DirectoryIs
<1>5. b \in Places /\ b # <<>>
    BY <1>1, <1>2, <1>3, BookPath DEF PathsInv
<1>6. IF d = <<>> THEN entry = Absolute(b) ELSE \E c : PartBefore(d, b, c) /\ entry = Way(d, b, c)
    BY <1>1, <1>3, Zenon DEF PathsInv, Entered
<1>7. found' = Absolute(b)
  <2>1. CASE d = <<>>
    <3>1. entry = Absolute(b)
        BY <1>6, <2>1
    <3>2. IsAbsolute(Absolute(b))
        BY <1>5, RootedIsPlaced
    <3> QED BY <1>1, <3>1, <3>2, Zenon DEF IsRelativePath
  <2>2. CASE d # <<>>
    <3>1. PICK c : PartBefore(d, b, c) /\ entry = Way(d, b, c)
        BY <1>6, <2>2, Zenon
    <3>2. IsRelativePath(entry) /\ ComputeAbsolutePath(Rooted(d), entry) = Absolute(b)
        BY <1>4, <1>5, <2>2, <3>1, AbsoluteIs, Zenon
    <3> QED BY <1>1, <1>4, <3>2, Zenon
  <2> QED BY <2>1, <2>2
<1> QED BY <1>1, <1>2, <1>3, <1>7 DEF PathsInv

LEMMA MoveKeeps ==
    ASSUME PathsInv, MoveTree
    PROVE  PathsInv'
<1>1. file \in Parts \ {<<>>} /\ WellPlaced(file) /\ book \in Parts /\ IsAbsolute(book)
    BY DEF PathsInv
<1>2. PICK f, b, d : f = Names(file) /\ b = Names(book) /\ d = Directory(file)
    OBVIOUS
<1>3. stage = "written" /\ stage' = "written" /\ entry' = entry /\ IsAbsolute(file)
    BY DEF MoveTree
<1>4. Opened(file) = f /\ f # <<>> /\ d = Front(f) /\ f \in Places
    BY <1>1, <1>2, <1>3, FilePath, Zenon
<1>5. Opened(book) = b /\ b \in Places /\ b # <<>>
    BY <1>1, <1>2, <1>3, BookPath DEF PathsInv
<1>6. PICK n \in 1 .. Len(LongestCommonPrefix({d, b})), new \in Name :
          file' = Absolute(Renamed(f, n, new)) /\ book' = Absolute(Renamed(b, n, new))
    BY <1>4, <1>5, Zenon DEF MoveTree, Renamed
<1>7. PICK k \in Nat, l \in Nat : Len(f) = k /\ Len(b) = l /\ k # 0
  <2>1. (\E k \in Nat : Len(f) = k /\ (k = 0 <=> f = <<>>)) /\ (\E l \in Nat : Len(b) = l)
      BY <1>4, <1>5, LenIs DEF Places
  <2> QED BY <1>4, <2>1, Zenon
<1>8. PICK m \in Nat : m = k - 1 /\ d \in Places /\ Len(d) = m /\ (\A i \in 1 .. m : d[i] = f[i])
                       /\ (m = 0 <=> d = <<>>)
  <2>1. d \in Places /\ Len(d) = k - 1 /\ (\A i \in 1 .. k - 1 : d[i] = f[i])
      BY <1>4, <1>7, FrontTo DEF Places
  <2>2. PICK m \in Nat : Len(d) = m /\ (m = 0 <=> d = <<>>)
      BY <2>1, LenIs DEF Places
  <2>3. m = k - 1
      BY <2>1, <2>2, Zenon
  <2> QED BY <2>1, <2>2, <2>3, Zenon
<1>9. PICK e : Parted(d, b, e)
    BY <1>5, <1>8, PartSomewhere, Zenon DEF Places
<1>10. Len(LongestCommonPrefix({d, b})) = e
    BY <1>5, <1>8, <1>9, CommonIs, Zenon DEF Places
<1>11. e \in Nat /\ e <= m /\ e <= l
    BY <1>7, <1>8, <1>9, Zenon DEF Parted
<1>12. n \in 1 .. e /\ n \in 1 .. m /\ n \in 1 .. l /\ n \in 1 .. k /\ m # 0
  <2>1. n \in 1 .. e
      BY <1>6, <1>10, Zenon
  <2> QED BY <1>7, <1>8, <1>11, <2>1
<1>13. PICK c : PartBefore(d, b, c) /\ entry = Way(d, b, c)
  <2>1. d # <<>>
      BY <1>8, <1>12
  <2> QED BY <1>2, <1>3, <2>1, Zenon DEF PathsInv, Entered
<1>14. n \in 1 .. c
  <2>1. Parted(d, b, c)
      BY <1>13, Zenon DEF PartBefore
  <2>2. c = e
      BY <1>5, <1>8, <1>10, <2>1, CommonIs, Zenon DEF Places
  <2> QED BY <1>12, <2>2, Zenon
<1>15. PICK g, a : g = Renamed(f, n, new) /\ a = Renamed(b, n, new)
    OBVIOUS
<1>16. IsRenamed(g, f, k, n, new) /\ g \in Places /\ Len(g) = k /\ g # <<>>
       /\ \A i \in 1 .. k : g[i] = IF i = n THEN new ELSE f[i]
  <2>1. IsRenamed(g, f, k, n, new)
      BY <1>4, <1>7, <1>12, <1>15, RenamedIs
  <2> QED BY <2>1, Zenon DEF IsRenamed
<1>17. IsRenamed(a, b, l, n, new) /\ a \in Places /\ a # <<>>
  <2>1. IsRenamed(a, b, l, n, new)
      BY <1>5, <1>7, <1>12, <1>15, RenamedIs
  <2> QED BY <2>1, Zenon DEF IsRenamed
<1>18. /\ file' = Rooted(g) /\ Names(file') = g
       /\ file' \in Parts \ {<<>>} /\ WellPlaced(file') /\ IsAbsolute(file')
    BY <1>6, <1>15, <1>16, RootedIsPlaced, NamesOfRooted, Zenon
<1>19. /\ book' = Rooted(a) /\ Names(book') = a /\ book' \in Parts /\ IsAbsolute(book')
    BY <1>6, <1>15, <1>17, RootedIsPlaced, NamesOfRooted, Zenon
<1>20. PICK h : h = Directory(file')
    OBVIOUS
<1>21. h = Front(g)
    BY <1>18, <1>20, Zenon DEF Directory
<1>22. /\ h \in Places /\ Len(h) = m /\ h # <<>>
       /\ \A i \in 1 .. m : h[i] = IF i = n THEN new ELSE d[i]
  <2>1. h \in Places /\ Len(h) = k - 1 /\ \A i \in 1 .. k - 1 : h[i] = g[i]
      BY <1>7, <1>16, <1>21, FrontTo DEF Places
  <2>2. h # <<>>
      BY <1>8, <1>12, <2>1
  <2>3. \A i \in 1 .. m : i \in 1 .. k
      BY <1>8
  <2> QED BY <1>8, <1>16, <2>1, <2>2, <2>3, Zenon
<1>23. PartBefore(h, a, c) /\ Way(h, a, c) = Way(d, b, c)
  <2>1. IsRenamed(h, d, m, n, new)
      BY <1>8, <1>22, Zenon DEF IsRenamed
  <2>2. IsRenamed(a, b, l, n, new) /\ PartBefore(d, b, c) /\ d \in Places
      BY <1>8, <1>13, <1>17
  <2>3. b \in Places
      BY <1>5
  <2>4. n \in 1 .. c
      BY <1>14
  <2> QED BY <2>1, <2>2, <2>3, <2>4, MovedWay, SMTT(30)
<1>24. Entered'
    BY <1>3, <1>13, <1>19, <1>20, <1>22, <1>23 DEF Entered
<1> QED BY <1>3, <1>17, <1>18, <1>19, <1>24 DEF PathsInv

LEMMA PathsStep == PathsInv /\ [PathsNext]_pathVars => PathsInv'
<1> SUFFICES ASSUME PathsInv, [PathsNext]_pathVars PROVE PathsInv'
    OBVIOUS
<1>1. CASE WritePaths
    BY <1>1, WriteKeeps
<1>2. CASE MoveTree
    BY <1>2, MoveKeeps
<1>3. CASE ReadPaths
    BY <1>3, ReadKeeps
<1>4. CASE UNCHANGED pathVars
    BY <1>4 DEF pathVars, PathsInv, Entered
<1> QED BY <1>1, <1>2, <1>3, <1>4 DEF PathsNext

(* A book whose path was written relative to the directory of the library  *)
(* file and made absolute again has its own path back, normalised, for     *)
(* paths of any length with any detours, and also when the tree with both  *)
(* has got another name meanwhile.                                         *)
THEOREM PathsCorrect == PathsSpec => []BookIsFoundAgain
<1>1. PathsInv => BookIsFoundAgain
    BY BookPath DEF PathsInv, BookIsFoundAgain
<1> QED BY <1>1, PathsBegin, PathsStep, PTL DEF PathsSpec

================================================================================
