------------------------------- MODULE Bindings -------------------------------
(***************************************************************************)
(* The heap of one Request(): which blocks cabi_realloc hands out while the *)
(* generated bindings (http_client.c) lift a result, which C struct refers  *)
(* to them, and which *_free function gives them back.  A local of          *)
(* Request() that is declared without an initialiser starts as "wild".      *)
(* A block is named by the field of the lifted value that points to it.     *)
(***************************************************************************)
EXTENDS Naturals, Sequences

CONSTANT MaxEntries        \* bound: response headers of one answer
ASSUME MaxEntriesAssumption == MaxEntries \in Nat

VARIABLES
  pc,        \* the statement of Request() that is next
  code,      \* send_err, fin_err or got: the error code of this exit
  dbg,       \* the string of error.to-debug-string
  entries,   \* OwnedHeaderEntries::list
  i,         \* the entries done by the loop that runs over them
  chunk,     \* the list<u8> of the last blocking-read
  heap,      \* the blocks that are allocated
  broken,    \* a free or a read of memory that is not a live block
  threw      \* a handler of DuckDB threw

vars == <<pc, code, dbg, entries, i, chunk, heap, broken, threw>>

\* A string or list as the C struct has it: "empty" has length 0 and a dangling
\* pointer (cabi_realloc of 0 bytes allocates nothing), "block" a block.
Lengths == {"empty", "block"}
Lists   == Lengths \cup {"wild"}

Tags == 0 .. 38
Members == {"none", "option_u64", "option_u32", "dns", "tls_alert",
            "field_size", "option_field_size", "option_string"}

\* The member of the union that lifting an error code writes, by tag ...
LiftMember(t) ==
  CASE t = 1                -> "dns"
    [] t = 14               -> "tls_alert"
    [] t \in {17, 28}         -> "option_u64"
    [] t \in {21, 23, 26, 29} -> "option_u32"
    [] t = 22               -> "option_field_size"
    [] t \in {24, 27, 30}     -> "field_size"
    [] t \in {31, 32, 38}     -> "option_string"
    [] OTHER                -> "none"

\* Faulty variant: an option taken for its payload.
FreeMemberFlat(t)  == IF t = 22 THEN "field_size" ELSE LiftMember(t)

\* ... and the member that wasi_http_types_error_code_free reads.
FreeMember(t) ==
  CASE t = 1                -> "dns"
    [] t = 14               -> "tls_alert"
    [] t \in {17, 28}         -> "option_u64"
    [] t \in {21, 23, 26, 29} -> "option_u32"
    [] t = 22               -> "option_field_size"
    [] t \in {24, 27, 30}     -> "field_size"
    [] t \in {31, 32, 38}     -> "option_string"
    [] OTHER                -> "none"

\* The members that hold an option<string>; one sits in an option of its own.
Textual   == {"dns", "tls_alert", "field_size", "option_field_size",
              "option_string"}
Outer     == "option_field_size"

\* some: the outer option, or TRUE.  text: the string, where there is one.
Codes == [tag : Tags, member : Members, some : BOOLEAN,
          text : Lists \cup {"absent"}]
NoCode == [tag |-> 0, member |-> "none", some |-> FALSE, text |-> "wild"]

LiftedCodes ==
  {c \in Codes :
     /\ c.member = LiftMember(c.tag)
     /\ c.some \/ c.member = Outer
     /\ IF c.member \in Textual /\ c.some
        THEN c.text \in Lengths \cup {"absent"}
        ELSE c.text = "wild"}

Entry == [key : Lengths, val : Lengths]
Entries == UNION {[1 .. n -> Entry] : n \in 0 .. MaxEntries}

Text     == <<"text", 0>>
Dbg      == <<"dbg", 0>>
Chunk    == <<"chunk", 0>>
List     == <<"list", 0>>
Key(k)   == <<"key", k>>
Val(k)   == <<"val", k>>
Blocks   == {Text, Dbg, Chunk, List} \cup ({"key", "val"} \X (1 .. MaxEntries))

\* The blocks a list or string of length class s has, if b is the one.
Has(s, b) == IF s = "block" THEN {b} ELSE {}

EntryBlocks(es, done) ==
  UNION {Has(es[k].key, Key(k)) \cup Has(es[k].val, Val(k)) :
           k \in {j \in 1 .. Len(es) : j > done}}
ListBlocks(es) == IF es = <<>> THEN {} ELSE {List}

\* Reading or freeing the bytes of s, held in block b.
Bad(s, b) == s = "wild" \/ (s = "block" /\ b \notin heap)

Goto(p) == pc' = p
Free(s, b) ==
  /\ heap' = heap \ Has(s, b)
  /\ broken' = (broken \/ Bad(s, b))

------------------------------------------------------------------------------

Init ==
  /\ pc = "dispatch" /\ code = NoCode /\ dbg = "wild" /\ entries = <<>>
  /\ i = 0 /\ chunk = "wild" /\ heap = {} /\ broken = FALSE /\ threw = FALSE

\* A host call failed: its error code is lifted into the caller's struct.
Lift(p) ==
  \E c \in LiftedCodes :
    /\ code' = c
    /\ heap' = heap \cup Has(c.text, Text)
    /\ Goto(p)
    /\ UNCHANGED <<dbg, entries, i, chunk, broken, threw>>

Step(p) ==
  Goto(p) /\ UNCHANGED <<code, dbg, entries, i, chunk, heap, broken, threw>>

\* outgoing-handler.handle: with a body, the upload is next.
Handle == pc = "dispatch" /\ (Step("write") \/ Step("get") \/ Lift("free"))

\* Writing the body.  A stream error is closed, or brings an own<error>.
Write ==
  pc = "write" /\ (Step("finish") \/ Step("done") \/ Step("debug"))

\* outgoing-body.finish.
Finish == pc = "finish" /\ (Step("get") \/ Lift("free"))

\* future-incoming-response.get, after pollable.block, so there is a result: a
\* response, moved out of `got`, which is then not freed; the outer error, which
\* has no payload; or a transport error.
Get == pc = "get" /\ (Step("entries") \/ Step("done") \/ Lift("free"))

\* error_code_free, for `got` reached through the frees of the nested results.
FreeCode ==
  /\ pc = "free"
  /\ LET m == FreeMember(code.tag)
     IN IF m \in Textual /\ (m = Outer => code.some)
        THEN /\ heap' = heap \ Has(code.text, Text)
             /\ broken' = \/ broken
                          \/ m # code.member
                          \/ Bad(code.text, Text)
        ELSE UNCHANGED <<heap, broken>>
  /\ Goto("done")
  /\ UNCHANGED <<code, dbg, entries, i, chunk, threw>>

------------------------------------------------------------------------------
(* The response headers: OwnedHeaderEntries in a scope of its own.           *)

FieldsEntries ==
  /\ pc = "entries"
  /\ \E es \in Entries :
       /\ entries' = es
       /\ heap' = heap \cup EntryBlocks(es, 0) \cup ListBlocks(es)
  /\ i' = 0 /\ Goto("copy")
  /\ UNCHANGED <<code, dbg, chunk, broken, threw>>

\* The loops run while i < len; past the end of the list lies no entry.
More == i < Len(entries)
At(k) == IF k <= Len(entries) THEN entries[k]
         ELSE [key |-> "wild", val |-> "wild"]

CopyEntry ==
  /\ pc = "copy" /\ More
  /\ i' = i + 1
  /\ broken' = \/ broken
               \/ List \notin heap
               \/ Bad(At(i + 1).key, Key(i + 1))
               \/ Bad(At(i + 1).val, Val(i + 1))
  /\ UNCHANGED <<pc, code, dbg, entries, chunk, heap, threw>>

\* The scope ends: ~OwnedHeaderEntries runs the loop of list_tuple2_free.
EndCopy ==
  /\ pc = "copy" /\ ~More
  /\ i' = 0 /\ Goto("freeEntries")
  /\ UNCHANGED <<code, dbg, entries, chunk, heap, broken, threw>>

FreeEntry ==
  /\ pc = "freeEntries" /\ More
  /\ i' = i + 1
  /\ heap' = heap \ (Has(At(i + 1).key, Key(i + 1))
                       \cup Has(At(i + 1).val, Val(i + 1)))
  /\ broken' = \/ broken
               \/ List \notin heap
               \/ Bad(At(i + 1).key, Key(i + 1))
               \/ Bad(At(i + 1).val, Val(i + 1))
  /\ UNCHANGED <<pc, code, dbg, entries, chunk, threw>>

\* The list itself goes last.  Then the response handler may end the request,
\* as do HEAD and a body that cannot be opened.
FreeEntryList ==
  /\ pc = "freeEntries" /\ ~More
  /\ heap' = heap \ ListBlocks(entries)
  /\ broken' = (broken \/ (entries # <<>> /\ List \notin heap))
  /\ Goto("read") \/ Goto("done")
  /\ UNCHANGED <<code, dbg, entries, i, chunk, threw>>

------------------------------------------------------------------------------
(* The body.                                                                 *)

\* Each turn of the loop declares `chunk` anew; a failed read leaves it so.
BlockingRead ==
  /\ pc = "read"
  /\ \/ /\ chunk' \in Lengths
        /\ heap' = heap \cup Has(chunk', Chunk)
        /\ Goto("deliver")
     \/ /\ chunk' = "wild" /\ UNCHANGED heap
        /\ Goto("done") \/ Goto("debug")
  /\ UNCHANGED <<code, dbg, entries, i, broken, threw>>

\* The bytes go to the handler or into resp->body.
Deliver ==
  /\ pc = "deliver" /\ Goto("freeChunk")
  /\ broken' = (broken \/ Bad(chunk, Chunk))
  /\ UNCHANGED <<code, dbg, entries, i, chunk, heap, threw>>

\* The content handler throws; nothing owns the chunk, so it stays.
DeliverThrows ==
  /\ pc = "deliver" /\ chunk = "block" /\ Goto("done")
  /\ threw' = TRUE
  /\ broken' = (broken \/ Bad(chunk, Chunk))
  /\ UNCHANGED <<code, dbg, entries, i, chunk, heap>>

\* Faulty variant: the loop goes round without the free.
FreeChunkForgotten ==
  /\ pc = "freeChunk" /\ Goto("read")
  /\ UNCHANGED <<code, dbg, entries, i, chunk, heap, broken, threw>>

FreeChunk ==
  /\ pc = "freeChunk" /\ Goto("read")
  /\ Free(chunk, Chunk)
  /\ UNCHANGED <<code, dbg, entries, i, chunk, threw>>

------------------------------------------------------------------------------
(* The diagnostic of a failed stream operation, in both directions.          *)

ToDebugString ==
  /\ pc = "debug" /\ Goto("message")
  /\ dbg' \in Lengths
  /\ heap' = heap \cup Has(dbg', Dbg)
  /\ UNCHANGED <<code, entries, i, chunk, broken, threw>>

\* The string is copied and freed; string_free empties it.  stream_error_free
\* then has no block to free.
FreeDebugString ==
  /\ pc = "message" /\ Goto("done")
  /\ Free(dbg, Dbg)
  /\ dbg' = "empty"
  /\ UNCHANGED <<code, entries, i, chunk, threw>>

Done == pc = "done" /\ UNCHANGED vars

Next ==
  \/ Handle \/ Write \/ Finish \/ Get \/ FreeCode
  \/ FieldsEntries \/ CopyEntry \/ EndCopy \/ FreeEntry \/ FreeEntryList
  \/ BlockingRead \/ Deliver \/ DeliverThrows \/ FreeChunk
  \/ ToDebugString \/ FreeDebugString \/ Done

Spec == Init /\ [][Next]_vars

------------------------------------------------------------------------------
(* Properties.                                                               *)

\* Every variable of the model has its type; the loops over the header entries
\* stay within the list.
TypeOK ==
  /\ pc \in {"dispatch", "write", "finish", "get", "free", "entries", "copy",
             "freeEntries", "read", "deliver", "freeChunk", "debug", "message",
             "done"}
  /\ code \in LiftedCodes \cup {NoCode}
  /\ dbg \in Lists /\ chunk \in Lists
  /\ entries \in Entries /\ i \in 0 .. Len(entries)
  /\ heap \subseteq Blocks
  /\ broken \in BOOLEAN /\ threw \in BOOLEAN

\* No *_free function and no copy out of a lifted value touches memory that is
\* not a live block: a freed one, a dangling pointer, an uninitialised struct,
\* another member of the union.
HeapSafe == ~broken

\* The blocks that the statements from here on still give back.
Owned ==
  CASE pc = "free"                   -> Has(code.text, Text)
    [] pc = "copy"                   -> EntryBlocks(entries, 0)
                                          \cup ListBlocks(entries)
    [] pc = "freeEntries"            -> EntryBlocks(entries, i)
                                          \cup ListBlocks(entries)
    [] pc \in {"deliver", "freeChunk"} -> Has(chunk, Chunk)
    [] pc = "message"                -> Has(dbg, Dbg)
    [] OTHER                         -> {}

\* At every statement the heap holds what the rest of Request() frees, each
\* block once, and no lifted value that is still to be read is uninitialised.
\* An exception of the content handler may lose one block, the chunk.
Accounted ==
  /\ threw => pc = "done"
  /\ ~threw => heap = Owned
  /\ threw => heap = {Chunk}
  /\ pc \in {"deliver", "freeChunk"} => chunk # "wild"
  /\ pc = "message" => dbg # "wild"
  /\ pc = "free" => code \in LiftedCodes
==============================================================================
