---------------------------- MODULE ImportResults ----------------------------
(***************************************************************************)
(* How the imported functions of http_client.c bring a result home.  The    *)
(* host stores a value of the function's WIT type in ret_area, a buffer on   *)
(* the stack that nothing has initialised; the wrapper lifts it with offsets *)
(* that wit-bindgen wrote into it, hands it out through its out-parameters,  *)
(* and the caller later gives it to the *_free functions of its C type.      *)
(* Bytes the host has not stored, or stored as part of something else, read  *)
(* as Junk.  No value has more than one string or list in it (the elements   *)
(* of lists are left to module Bindings), so the heap is {} or one block.    *)
(***************************************************************************)
EXTENDS WitTypes

Reads   == {"input-stream.read", "input-stream.blocking-read"}
Counts  == {"input-stream.skip", "input-stream.blocking-skip",
            "output-stream.check-write", "output-stream.splice",
            "output-stream.blocking-splice"}
Writes  == {"output-stream.write", "output-stream.flush",
            "output-stream.blocking-write-and-flush",
            "output-stream.blocking-flush", "output-stream.write-zeroes",
            "output-stream.blocking-write-zeroes-and-flush"}
Lists   == {"poll", "error.to-debug-string", "fields.get", "fields.entries"}
Edits   == {"fields.set", "fields.delete", "fields.append"}
Methods == {"incoming-request.method", "outgoing-request.method"}
Strings == {"incoming-request.path-with-query", "incoming-request.authority",
            "outgoing-request.path-with-query", "outgoing-request.authority"}
Schemes == {"incoming-request.scheme", "outgoing-request.scheme"}
Parts   == {"incoming-request.consume", "outgoing-request.body",
            "incoming-response.consume", "incoming-body.stream",
            "outgoing-response.body", "outgoing-body.write"}
Timeouts == {"request-options.connect-timeout",
             "request-options.first-byte-timeout",
             "request-options.between-bytes-timeout"}
Functions ==
  Reads \cup Counts \cup Writes \cup Lists \cup Edits \cup Methods
    \cup Strings \cup Schemes \cup Parts \cup Timeouts
    \cup {"http-error-code", "fields.from-list", "future-trailers.get",
          "outgoing-body.finish", "future-incoming-response.get",
          "outgoing-handler.handle"}

VARIABLES
  pc,      \* "idle", "called" or "returned"
  fn,      \* the function called, "none" when none is
  sent,    \* the value the host answered with
  area,    \* what the host stored in ret_area
  got,     \* the caller's view: the returned bool and the out-parameters
  heap,    \* the blocks cabi_realloc gave the host for the value
  wild     \* a free of something that is not a live block

vars == <<pc, fn, sent, area, got, heap, wild>>

\* The type of f's result.
ResultType(f) ==
  CASE f \in Reads   -> Result(Text, StreamError)
    [] f \in Counts  -> Result(Word(8), StreamError)
    [] f \in Writes  -> Result(Unit, StreamError)
    [] f \in Lists   -> Text
    [] f \in Edits   -> Result(Unit, HeaderError)
    [] f \in Methods -> Method
    [] f \in Strings -> Option(Text)
    [] f \in Schemes -> Option(Scheme)
    [] f \in Parts   -> Result(Handle, Unit)
    [] f \in Timeouts -> Option(Word(8))
    [] f = "http-error-code"      -> Option(ErrorCode)
    [] f = "fields.from-list"     -> Result(Handle, HeaderError)
    [] f = "outgoing-body.finish" -> Result(Unit, ErrorCode)
    [] f = "outgoing-handler.handle" -> Result(Handle, ErrorCode)
    [] f = "future-trailers.get" ->
         Option(Result(Result(Option(Handle), ErrorCode), Unit))
    [] f = "future-incoming-response.get" ->
         Option(Result(Result(Handle, ErrorCode), Unit))

\* ret_area: its bytes and its __aligned__.
Buffer(n, a) == [bytes |-> n, aligned |-> a]
\* Faulty variant: the buffer of the nested results is that of the plain one.
AreaFlat(f) ==
  IF f \in {"future-trailers.get", "future-incoming-response.get"}
  THEN Buffer(40, 8)
  ELSE IF f \in Counts \cup Timeouts THEN Buffer(16, 8) ELSE Buffer(40, 8)
Area(f) ==
  CASE f \in Reads \cup Writes \cup Methods \cup Strings  -> Buffer(12, 4)
    [] f \in Counts \cup Timeouts                         -> Buffer(16, 8)
    [] f \in Lists \cup Parts \cup {"fields.from-list"}   -> Buffer(8, 4)
    [] f \in Edits   -> Buffer(2, 1)
    [] f \in Schemes -> Buffer(16, 4)
    [] f \in {"http-error-code", "outgoing-body.finish",
              "outgoing-handler.handle"}                  -> Buffer(40, 8)
    [] f \in {"future-trailers.get",
              "future-incoming-response.get"}             -> Buffer(56, 8)

------------------------------------------------------------------------------
(* Reading ret_area, and the lifts the wrappers are made of.  The offsets    *)
(* are the code's.                                                           *)

Junk == [k |-> "junk", n |-> 255]

At(a, p, w)      == IF p \in DOMAIN a /\ a[p].w = w THEN a[p].v ELSE Junk
TextAt(a, p, q)  == [k |-> "text", ptr |-> At(a, p, 4), len |-> At(a, q, 4)]

\* switch on the byte at p; a case without a payload assigns none.
Switch(a, p, payloads) ==
  LET t == At(a, p, 1).n
  IN  Case(t, IF t \in DOMAIN payloads THEN payloads[t] ELSE Nothing)
OptionAt(a, p, some)    == Switch(a, p, [t \in {1} |-> some])
ResultAt(a, p, ok, err) == Switch(a, p, [t \in {0, 1} |-> IF t = 0 THEN ok ELSE err])

StreamErrorAt(a, p) == Switch(a, p, [t \in {0} |-> At(a, p + 4, 4)])
HeaderErrorAt(a, p) == Switch(a, p, NoCells)
OptionTextAt(a, p)  == OptionAt(a, p, TextAt(a, p + 4, p + 8))

DnsErrorAt(a, p) ==
  Fields(<<OptionTextAt(a, p), OptionAt(a, p + 12, At(a, p + 14, 2))>>)
TlsAlertAt(a, p) ==
  Fields(<<OptionAt(a, p, At(a, p + 1, 1)), OptionTextAt(a, p + 4)>>)
FieldSizeAt(a, p) ==
  Fields(<<OptionTextAt(a, p), OptionAt(a, p + 12, At(a, p + 16, 4))>>)
\* Faulty variant: the payload is taken to start at the option's own tag.
OptionFieldSizeLow(a, p) == OptionAt(a, p, FieldSizeAt(a, p))
OptionFieldSizeAt(a, p)  == OptionAt(a, p, FieldSizeAt(a, p + 4))
OptionU64At(a, p)  == OptionAt(a, p, At(a, p + 8, 8))
OptionU32At(a, p)  == OptionAt(a, p, At(a, p + 4, 4))

\* The tag at p, every payload at p + 8.
ErrorCodeAt(a, p) ==
  Switch(a, p,
    [t \in 0 .. 38 |->
       CASE t = 1                  -> DnsErrorAt(a, p + 8)
         [] t = 14                 -> TlsAlertAt(a, p + 8)
         [] t \in {17, 28}         -> OptionU64At(a, p + 8)
         [] t \in {21, 23, 26, 29} -> OptionU32At(a, p + 8)
         [] t = 22                 -> OptionFieldSizeAt(a, p + 8)
         [] t \in {24, 27, 30}     -> FieldSizeAt(a, p + 8)
         [] t \in {31, 32, 38}     -> OptionTextAt(a, p + 8)
         [] OTHER                  -> Nothing])

------------------------------------------------------------------------------
(* The wrappers: what each one makes of its ret_area.                        *)

InputStreamRead(a)       == ResultAt(a, 0, TextAt(a, 4, 8), StreamErrorAt(a, 4))
StreamCount(a)           == ResultAt(a, 0, At(a, 8, 8), StreamErrorAt(a, 8))
OutputStreamWrite(a)     == ResultAt(a, 0, Nothing, StreamErrorAt(a, 4))
FieldsFromList(a)        == ResultAt(a, 0, At(a, 4, 4), HeaderErrorAt(a, 4))
FieldsEdit(a)            == ResultAt(a, 0, Nothing, HeaderErrorAt(a, 1))
RequestMethod(a)         == Switch(a, 0, [t \in {9} |-> TextAt(a, 4, 8)])
RequestString(a)         == OptionTextAt(a, 0)
RequestScheme(a) ==
  OptionAt(a, 0, Switch(a, 4, [t \in {2} |-> TextAt(a, 8, 12)]))
MessagePart(a)           == ResultAt(a, 0, At(a, 4, 4), Nothing)
RequestOptionsTimeout(a) == OptionU64At(a, 0)
HttpErrorCode(a)         == OptionAt(a, 0, ErrorCodeAt(a, 8))
OutgoingBodyFinish(a)    == ResultAt(a, 0, Nothing, ErrorCodeAt(a, 8))
OutgoingHandlerHandle(a) == ResultAt(a, 0, At(a, 8, 4), ErrorCodeAt(a, 8))
FutureTrailersGet(a) ==
  OptionAt(a, 0,
    ResultAt(a, 8,
      ResultAt(a, 16, OptionAt(a, 24, At(a, 28, 4)), ErrorCodeAt(a, 24)),
      Nothing))
FutureIncomingResponseGet(a) ==
  OptionAt(a, 0,
    ResultAt(a, 8, ResultAt(a, 16, At(a, 24, 4), ErrorCodeAt(a, 24)), Nothing))

Lifted(f, a) ==
  CASE f \in Reads    -> InputStreamRead(a)
    [] f \in Counts   -> StreamCount(a)
    [] f \in Writes   -> OutputStreamWrite(a)
    [] f \in Lists    -> TextAt(a, 0, 4)
    [] f \in Edits    -> FieldsEdit(a)
    [] f \in Methods  -> RequestMethod(a)
    [] f \in Strings  -> RequestString(a)
    [] f \in Schemes  -> RequestScheme(a)
    [] f \in Parts    -> MessagePart(a)
    [] f \in Timeouts -> RequestOptionsTimeout(a)
    [] f = "http-error-code"         -> HttpErrorCode(a)
    [] f = "fields.from-list"        -> FieldsFromList(a)
    [] f = "outgoing-body.finish"    -> OutgoingBodyFinish(a)
    [] f = "outgoing-handler.handle" -> OutgoingHandlerHandle(a)
    [] f = "future-trailers.get"     -> FutureTrailersGet(a)
    [] f = "future-incoming-response.get" -> FutureIncomingResponseGet(a)

\* The three ways a wrapper ends: *ret = v; *ret = option.val, whether there is
\* one or not, and is_some is returned; or ok goes to *ret, err to *err.
Optional == Strings \cup Schemes \cup Timeouts
              \cup {"http-error-code", "future-trailers.get",
                    "future-incoming-response.get"}
Plain    == Lists \cup Methods
NotYet   == [rc |-> FALSE, ret |-> Nothing, err |-> Nothing]

HandOut(f, v) ==
  IF f \in Plain THEN [NotYet EXCEPT !.ret = v]
  ELSE IF f \in Optional
  THEN IF v.tag = 1 THEN [NotYet EXCEPT !.rc = TRUE, !.ret = v.val]
       ELSE [NotYet EXCEPT !.ret = Junk]
  ELSE IF v.tag = 0 THEN [NotYet EXCEPT !.rc = TRUE, !.ret = v.val]
  ELSE [NotYet EXCEPT !.err = v.val]

------------------------------------------------------------------------------
(* The *_free functions: the pointers each one frees.                        *)

FreeText(v)       == IF v.len.n > 0 THEN {v.ptr} ELSE {}
FreeMethod(v)     == IF v.tag = 9 THEN FreeText(v.val) ELSE {}
FreeScheme(v)     == IF v.tag = 2 THEN FreeText(v.val) ELSE {}
FreeOptionText(v) == IF v.tag = 1 THEN FreeText(v.val) ELSE {}
FreeFieldSizePayload(v)       == FreeOptionText(v.vs[1])
FreeOptionFieldSizePayload(v) ==
  IF v.tag = 1 THEN FreeFieldSizePayload(v.val) ELSE {}
\* Faulty variant: the last case of the switch is missing.
FreeErrorCodeShort(v) ==
  CASE v.tag = 14 -> FreeOptionText(v.val.vs[2])
    [] v.tag \in {1, 24, 27, 30} -> FreeFieldSizePayload(v.val)
    [] v.tag = 22            -> FreeOptionFieldSizePayload(v.val)
    [] v.tag \in {31, 32}    -> FreeOptionText(v.val)
    [] OTHER                 -> {}
FreeErrorCode(v) ==
  CASE v.tag = 1             -> FreeOptionText(v.val.vs[1])
    [] v.tag = 14            -> FreeOptionText(v.val.vs[2])
    [] v.tag = 22            -> FreeOptionFieldSizePayload(v.val)
    [] v.tag \in {24, 27, 30} -> FreeFieldSizePayload(v.val)
    [] v.tag \in {31, 32, 38} -> FreeOptionText(v.val)
    [] OTHER                 -> {}
\* The result inside the outer result: its ok holds a handle or nothing.
FreeNestedResult(v) ==
  IF v.tag = 0 /\ v.val.tag = 1 THEN FreeErrorCode(v.val.val) ELSE {}

\* The frees of a caller that frees what it was told it has.
Freed(f, g) ==
  CASE f \in Lists \cup (IF g.rc THEN Strings \cup Reads ELSE {}) ->
         FreeText(g.ret)
    [] f \in Methods                      -> FreeMethod(g.ret)
    [] f \in Schemes /\ g.rc              -> FreeScheme(g.ret)
    [] f = "http-error-code" /\ g.rc      -> FreeErrorCode(g.ret)
    [] f \in {"future-trailers.get", "future-incoming-response.get"} /\ g.rc ->
         FreeNestedResult(g.ret)
    [] f \in {"outgoing-body.finish", "outgoing-handler.handle"} /\ ~g.rc ->
         FreeErrorCode(g.err)
    [] OTHER                              -> {}

------------------------------------------------------------------------------

Stored(a) == {a[p].v : p \in DOMAIN a}

Init ==
  /\ pc = "idle" /\ fn = "none" /\ sent = Nothing /\ area = NoCells
  /\ got = NotYet /\ heap = {} /\ wild = FALSE

\* The wrapper has called the import, and the host has answered.
Call(f) ==
  /\ pc = "idle"
  /\ pc' = "called" /\ fn' = f
  /\ \E v \in Values(ResultType(f)) :
       /\ sent' = v
       /\ area' = ResultType(f).mem[v]
       /\ heap' = Stored(area') \cap Blocks
  /\ UNCHANGED <<got, wild>>

Return ==
  /\ pc = "called"
  /\ pc' = "returned"
  /\ got' = HandOut(fn, Lifted(fn, area))
  /\ UNCHANGED <<fn, sent, area, heap, wild>>

\* The caller is done with the value, and with its locals.
Free ==
  /\ pc = "returned"
  /\ pc' = "idle"
  /\ heap' = heap \ Freed(fn, got)
  /\ wild' = (wild \/ ~(Freed(fn, got) \subseteq heap))
  /\ fn' = "none" /\ sent' = Nothing /\ area' = NoCells /\ got' = NotYet

Next == (\E f \in Functions : Call(f)) \/ Return \/ Free
Spec == Init /\ [][Next]_vars

------------------------------------------------------------------------------

\* For every import, whatever the host answers, the caller gets exactly that:
\* the bool says which of the two parameters to look at, and the value in it is
\* the host's, to the last option inside an error code.  The offsets are written
\* out 43 times in http_client.c, five of them for all of error-code.
RoundTrip ==
  pc = "returned" =>
    IF fn \in Plain THEN got.ret = sent
    ELSE IF fn \in Optional
    THEN got.rc = (sent.tag = 1) /\ (got.rc => got.ret = sent.val)
    ELSE got = IF sent.tag = 0
               THEN [NotYet EXCEPT !.rc = TRUE, !.ret = sent.val]
               ELSE [NotYet EXCEPT !.err = sent.val]

\* Everything the host stores for the function's type lies inside ret_area, and
\* the address is aligned as the canonical ABI asks: a host writes the type's
\* full extent, so one byte short is a write over the wrapper's stack frame.
AreaFits ==
  pc = "called" =>
    /\ ResultType(fn).size <= Area(fn).bytes
    /\ Area(fn).aligned % ResultType(fn).align = 0
    /\ \A p \in DOMAIN area : p + area[p].w <= Area(fn).bytes

\* What cabi_realloc gave out for the value is freed by the free function of the
\* C type the caller holds, once, and nothing else is.
FreedOnce == ~wild /\ (pc = "idle" => heap = {})
==============================================================================
