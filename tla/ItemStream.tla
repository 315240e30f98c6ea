------------------------------ MODULE ItemStream ------------------------------
(***************************************************************************)
(* How an entry of a ZIM file is sent: the Range header is parsed and      *)
(* resolved against the size (src/src/server/byte_range.cpp), the response *)
(* is chosen (ItemResponse::build), and libmicrohttpd asks a callback for  *)
(* one block of the body after the other (response.cpp).                   *)
(*                                                                         *)
(* A byte of the item is represented by its offset.  Integers have their   *)
(* widths: first and last are int64_t, the callback keeps the start of the *)
(* range in an int and computes with uint64_t.                             *)
(***************************************************************************)
EXTENDS Integers

CONSTANTS
    IntMax,     \* INT_MAX
    Int64Max,   \* INT64_MAX
    MaxSize,    \* bound on the size of an item
    Block,      \* the size of libmicrohttpd's buffer
    NoRange     \* a request without a Range header

ASSUME WidthAssumption ==
    /\ IntMax \in Nat /\ Int64Max \in Nat /\ MaxSize \in Nat
    /\ Block \in Nat \ {0}
    /\ IntMax < Int64Max
    /\ MaxSize < Int64Max

(* What the parser reads in a Range header.  "other" is all it refuses:    *)
(* another unit, several ranges, a zero suffix, text after the range, a    *)
(* first position that is no int64_t.  A last position that is too large   *)
(* is read as INT64_MAX.                                                   *)
RangeHeader ==
    [form : {"other"}]
    \cup [form : {"suffix"}, length : 1 .. Int64Max]
    \cup [form : {"from"}, first : 0 .. Int64Max]
    \cup [form : {"fromTo"}, first : 0 .. Int64Max, last : (0 - Int64Max) .. Int64Max]

VARIABLES
    size,          \* item.getSize()
    compressible,  \* is_compressible_mime_type
    header,        \* the Range header
    pc,            \* "asked", "sending", "sent", "failed" or "closed"
    response,      \* the response that was chosen
    pos,           \* the bytes libmicrohttpd has got from the callback
    body           \* the bytes of the item they are

vars == <<size, compressible, header, pc, response, pos, body>>

(* A ByteRange as its constructor asserts it to be, but for a suffix. *)
ResolvedRange ==
    [kind : {"NONE", "RESOLVED_FULL_CONTENT", "RESOLVED_UNSATISFIABLE",
             "RESOLVED_PARTIAL_CONTENT"},
     first : Nat, last : Nat \cup {-1}]

ByteRange(kind, first, last) == [kind |-> kind, first |-> first, last |-> last]

Smaller(a, b) == IF a < b THEN a ELSE b
Greater(a, b) == IF a < b THEN b ELSE a

-----------------------------------------------------------------------------
Parse(h) ==
    IF h = NoRange THEN ByteRange("NONE", 0, Int64Max)
    ELSE IF h.form = "suffix" THEN ByteRange("PARSED", 0 - h.length, Int64Max)
    ELSE IF h.form = "from" THEN ByteRange("PARSED", h.first, Int64Max)
    ELSE IF h.form = "fromTo" /\ h.first <= h.last THEN ByteRange("PARSED", h.first, h.last)
    ELSE ByteRange("INVALID", 0, Int64Max)

(* Mutant of ByteRange::resolve: the last position may be the size.        *)
ResolveToSize(range, contentSize) ==
    LET first == IF range.first < 0 THEN Greater(0, contentSize + range.first)
                 ELSE range.first
        last == Smaller(contentSize, range.last)
    IN IF range.kind = "NONE" THEN ByteRange("RESOLVED_FULL_CONTENT", 0, contentSize - 1)
       ELSE IF range.kind = "PARSED" /\ first <= last
       THEN ByteRange("RESOLVED_PARTIAL_CONTENT", first, last)
       ELSE ByteRange("RESOLVED_UNSATISFIABLE", 0, contentSize - 1)

Resolve(range, contentSize) ==
    LET first == IF range.first < 0 THEN Greater(0, contentSize + range.first)
                 ELSE range.first
        last == Smaller(contentSize - 1, range.last)
    IN IF range.kind = "NONE" THEN ByteRange("RESOLVED_FULL_CONTENT", 0, contentSize - 1)
       ELSE IF range.kind = "PARSED" /\ first <= last
       THEN ByteRange("RESOLVED_PARTIAL_CONTENT", first, last)
       ELSE ByteRange("RESOLVED_UNSATISFIABLE", 0, contentSize - 1)

RangeLength(range) == range.last + 1 - range.first

(* Conversions to int and to uint64_t. *)
ToInt(n) == ((n + IntMax + 1) % (2 * (IntMax + 1))) - (IntMax + 1)
ToUInt64(n) == n % (2 * (Int64Max + 1))

Bytes(first, n) == [i \in 0 .. n - 1 |-> first + i]

-----------------------------------------------------------------------------
Init ==
    /\ size \in 0 .. MaxSize
    /\ compressible \in BOOLEAN
    /\ header \in RangeHeader \cup {NoRange}
    /\ pc = "asked"
    /\ response = [status |-> 0, range |-> ByteRange("NONE", 0, Int64Max), rangeStart |-> 0]
    /\ pos = 0
    /\ body = Bytes(0, 0)

Request == <<size, compressible, header>>

(* ItemResponse::build: all of a compressible item is copied into a        *)
(* ContentResponse, a range that cannot be satisfied gets 416, anything    *)
(* else is sent by the callback, which keeps an int.                       *)
BuildResponse ==
    /\ pc = "asked"
    /\ LET range == Resolve(Parse(header), size) IN
       \/ /\ range.kind = "RESOLVED_FULL_CONTENT" /\ compressible
          /\ response' = [status |-> 200, range |-> range, rangeStart |-> 0]
          /\ pc' = "sent"
          /\ pos' = size
          /\ body' = Bytes(0, size)
       \/ /\ range.kind = "RESOLVED_UNSATISFIABLE"
          /\ response' = [status |-> 416, range |-> range, rangeStart |-> 0]
          /\ pc' = "sent"
          /\ UNCHANGED <<pos, body>>
       \/ /\ \/ range.kind = "RESOLVED_FULL_CONTENT" /\ ~compressible
             \/ range.kind = "RESOLVED_PARTIAL_CONTENT"
          /\ response' = [status |-> IF range.kind = "RESOLVED_PARTIAL_CONTENT"
                                     THEN 206 ELSE 200,
                          range |-> range, rangeStart |-> ToInt(range.first)]
          /\ pc' = IF RangeLength(range) = 0 THEN "sent" ELSE "sending"
          /\ UNCHANGED <<pos, body>>
    /\ UNCHANGED Request

(* Mutant: what is left of the item is one byte too little. *)
ReadLengthShort(max) ==
    Smaller(max, ToUInt64(size - 1 - pos - response.rangeStart))

(* callback_reader_from_item(pos, max): the number of bytes it copies.     *)
ReadLength(max) == Smaller(max, ToUInt64(size - pos - response.rangeStart))

(* Mutant: the offset is taken from the start of the range only. *)
ReadOffsetOfRange == ToUInt64(response.rangeStart)

ReadOffset == ToUInt64(response.rangeStart + pos)

(* libmicrohttpd asks for as much as it has room for and the announced     *)
(* length lets it.  The callback gives up when there is nothing left, and  *)
(* item.getData throws beyond the end of the item.                         *)
ReadBlock ==
    /\ pc = "sending"
    /\ \E max \in 1 .. Smaller(Block, RangeLength(response.range) - pos) :
          LET n == ReadLength(max) IN
          \/ /\ n = 0 \/ ReadOffset + n > size
             /\ pc' = "failed"
             /\ UNCHANGED <<pos, body>>
          \/ /\ n > 0 /\ ReadOffset + n <= size
             /\ body' = [i \in 0 .. pos + n - 1 |->
                            IF i < pos THEN body[i] ELSE ReadOffset + (i - pos)]
             /\ pos' = pos + n
             /\ pc' = IF pos + n = RangeLength(response.range) THEN "sent" ELSE "sending"
    /\ UNCHANGED <<size, compressible, header, response>>

(* The client closes the connection. *)
Close ==
    /\ pc = "sending"
    /\ pc' = "closed"
    /\ UNCHANGED <<size, compressible, header, response, pos, body>>

Next == BuildResponse \/ ReadBlock \/ Close

Spec == Init /\ [][Next]_vars /\ WF_vars(BuildResponse \/ ReadBlock)

-----------------------------------------------------------------------------
(* Properties.                                                             *)

TypeOK ==
    /\ size \in 0 .. MaxSize
    /\ compressible \in BOOLEAN
    /\ header \in RangeHeader \cup {NoRange}
    /\ pc \in {"asked", "sending", "sent", "failed", "closed"}
    /\ response \in [status : {0, 200, 206, 416}, range : ResolvedRange, rangeStart : Int]
    /\ pos \in 0 .. size
    /\ body \in [0 .. pos - 1 -> 0 .. size - 1]

(* The bytes a Range header names, of an item of this size.                *)
Asked(h, contentSize) ==
    {i \in 0 .. contentSize - 1 :
        \/ h = NoRange
        \/ h # NoRange /\ h.form = "suffix" /\ i >= contentSize - h.length
        \/ h # NoRange /\ h.form = "from" /\ i >= h.first
        \/ h # NoRange /\ h.form = "fromTo" /\ i >= h.first /\ i <= h.last}

(* The range that is announced is the range that was asked for: 206 with   *)
(* just the bytes that the header names, 416 if and only if it names none, *)
(* and all of the item without a Range header, however the first and last  *)
(* position lie to each other and to the size.                             *)
AnnouncesWhatIsAsked ==
    LET range == response.range IN
    /\ response.status \in {200, 206} =>
          range.first .. range.last = Asked(header, size)
    /\ response.status = 416 => header # NoRange /\ Asked(header, size) = {}
    /\ response.status = 200 => header = NoRange
    /\ response.status = 206 => header # NoRange /\ range.first <= range.last

(* What the client has got is the beginning of what was announced, however *)
(* the body is cut into blocks, and all of it at the end; the callback     *)
(* does not give up and does not read beyond the end of the item.          *)
BodyIsTheRange ==
    /\ body = Bytes(response.range.first, pos)
    /\ pos <= RangeLength(response.range)
    /\ pc = "sent" /\ response.status # 416 => pos = RangeLength(response.range)
    /\ pc # "failed"

(* An item whose bytes an int can number. *)
Small == size <= IntMax + 1

(* The body of every small item is sent right, for every range.            *)
SmallBodyIsTheRange == Small /\ pc # "asked" => BodyIsTheRange

(* ... and unless the client closes the connection, all of it is sent.     *)
SmallBodyIsCompleted == Small /\ pc = "sending" ~> pc \in {"sent", "closed"}

(* What the repository says: the body of a range is that part of the item  *)
(* ("EXPECT_EQ(full->body.substr(20000), p->body);", test/server.cpp:470), *)
(* whatever its size.                                                      *)
LargeBodyIsTheRange == pc # "asked" => BodyIsTheRange

=============================================================================
