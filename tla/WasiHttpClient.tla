---------------------------- MODULE WasiHttpClient ----------------------------
(***************************************************************************)
(* WasiHTTPClient of wasi_http_client.cpp: Get/Head/Put/Post/Delete and     *)
(* Request(), one HTTP exchange over the wasi:http imports.  Every call to  *)
(* the host is one action whose outcome the host chooses; the far side of   *)
(* the host (what has reached the server, what it answers, what of its      *)
(* answer the body stream still holds) is the external part.                *)
(* An HTTPHeaders map is a function from names to where the value came      *)
(* from; a request body is its length; a response body is a count of        *)
(* chunks, the k-th delivered being the k-th the server sent.               *)
(***************************************************************************)
EXTENDS HandleScope

CONSTANTS
  ExtraHeaders,   \* header names besides Authorization and Content-Type
  Statuses,       \* status codes a server may answer with
  DebugStrings,   \* what error.to-debug-string may return, as a class
  MaxLen,         \* bound: bytes of a request body
  MaxReads,       \* bound: successful reads of one response body
  WriteCap        \* bytes per blocking-write-and-flush (4096 in the code)

ASSUME StatusesAssumption     == Statuses \subseteq Nat
ASSUME DebugStringsAssumption == DebugStrings \subseteq STRING
ASSUME BoundsAssumption       == MaxLen \in Nat /\ MaxReads \in Nat
ASSUME WriteCapAssumption     == WriteCap \in Nat \ {0}
ASSUME HeaderNamesAssumption  ==
  ExtraHeaders \cap {"Authorization", "Content-Type"} = {}

VARIABLES
  pc, call, todo, headerError, fields, off, resp, readError, chunk, seen,
  handled, out,                                   \* Request() and its caller
  wire, phase, got, reply, status, left, sent,    \* the host and the server
  heap                                            \* blocks the host allocated

headerVars == <<todo, headerError, fields>>
bodyVars   == <<readError, chunk, seen, heap>>
uploadVars == <<wire, phase, got>>
replyVars  == <<reply, status, left, sent>>
clientVars == <<pc, call, headerVars, off, resp, bodyVars, handled, out>>
serverVars == <<uploadVars, replyVars>>
setupVars  == <<call, headerVars>>
endVars    == <<handled, out>>
vars == <<scopeVars, clientVars, serverVars>>

Names   == ExtraHeaders \cup {"Authorization", "Content-Type"}
Origins == {"absent", "caller", "info", "default"}
Verbs   == {"GET", "HEAD", "PUT", "POST", "DELETE"}
Fns     == {"Get", "Head", "Put", "Post", "Delete"}
Calls   == [fn : Fns, verb : Verbs, headers : [Names -> Origins],
            hasBody : BOOLEAN, len : 0 .. MaxLen, bearer : BOOLEAN]

Stages == {"none", "header", "build", "body", "dispatch", "open", "write",
           "finish", "transport", "consume", "stream", "read"}
\* err: which diagnostic request_error holds, "none" if it is empty.  readError
\* is a class of strings, "empty" the empty one.
Responses == [status : Nat, success : BOOLEAN, err : Stages]
NoResponse == [status |-> 0, success |-> FALSE, err |-> "none"]
Outcomes == [kind : {"none", "response", "threw"}, resp : Responses,
             buffer_out : Nat]
NoOutcome == [kind |-> "none", resp |-> NoResponse, buffer_out |-> 0]
NoCall == [fn |-> "Get", verb |-> "GET", headers |-> [n \in Names |-> "absent"],
           hasBody |-> FALSE, len |-> 0, bearer |-> FALSE]

\* Only Get passes pointers to its handlers; the other verbs pass nullptr.
HasHandlers == call.fn = "Get"

At(p) == pc = p /\ dying = {} /\ ~trapped

\* Control passes to p, at once or after the objects in S are destroyed.
Goto(p)     == pc' = p /\ UNCHANGED dying
Leave(S, p) == pc' = p /\ dying' = S

\* `return r`: the result is built first, then every live object is destroyed.
Return(r) == Keep /\ resp' = r /\ Leave(scope, "return")
Failure(stage) == [status |-> 500, success |-> FALSE, err |-> stage]
Fail(stage) == Return(Failure(stage))

ClientInit ==
  /\ pc = "idle" /\ call = NoCall /\ todo = {} /\ headerError = FALSE
  /\ fields = {} /\ off = 0 /\ resp = NoResponse /\ readError = "empty"
  /\ chunk = 0 /\ seen = 0 /\ handled = "none" /\ out = NoOutcome
  /\ heap = {}
ServerInit ==
  /\ wire = {} /\ phase = "none" /\ got = 0 /\ reply = "none" /\ status = 0
  /\ left = 0 /\ sent = 0
Init == ScopeInit /\ ClientInit /\ ServerInit

------------------------------------------------------------------------------
(* The five verbs: the headers, verb and body each hands to Request().       *)

Caller(h) == [n \in Names |-> IF n \in h THEN "caller" ELSE "absent"]
Bodyless(fn, verb, h, b) ==
  [fn |-> fn, verb |-> verb, headers |-> Caller(h), hasBody |-> FALSE,
   len |-> 0, bearer |-> b]

Get(h, b)    == Bodyless("Get", "GET", h, b)
Head(h, b)   == Bodyless("Head", "HEAD", h, b)
Delete(h, b) == Bodyless("Delete", "DELETE", h, b)
Put(h, b, hasBody, len) ==
  [fn |-> "Put", verb |-> "PUT",
   headers |-> [Caller(h) EXCEPT !["Content-Type"] = "info"],
   hasBody |-> hasBody, len |-> len, bearer |-> b]
Post(h, b, hasBody, len, sendAsGet) ==
  [fn |-> "Post", verb |-> IF sendAsGet THEN "GET" ELSE "POST",
   headers |-> IF "Content-Type" \in h THEN Caller(h)
               ELSE [Caller(h) EXCEPT !["Content-Type"] = "default"],
   hasBody |-> hasBody, len |-> len, bearer |-> b]

\* Request() is entered: constructor-fields, and a borrow of it.
Request(c) ==
  /\ At("idle")
  /\ call' = c
  /\ todo' = {n \in Names : c.headers[n] # "absent"}
  /\ headerError' = FALSE /\ fields' = {} /\ off' = 0 /\ resp' = NoResponse
  /\ readError' = "empty" /\ chunk' = 0 /\ seen' = 0 /\ handled' = "none"
  /\ out' = NoOutcome /\ heap' = heap
  /\ wire' = {} /\ phase' = "none" /\ got' = 0
  /\ reply' = "none" /\ status' = 0 /\ left' = 0 /\ sent' = 0
  /\ Exchange({}, {"fields"}, {"bf"}) /\ Uses({})
  /\ Goto("headers")

StartRequest ==
  \E h \in SUBSET Names, b \in BOOLEAN :
    \/ Request(Get(h, b))
    \/ Request(Head(h, b))
    \/ Request(Delete(h, b))
    \/ \E len \in 0 .. MaxLen : \/ Request(Put(h, b, TRUE, len))
                                \/ \E g \in BOOLEAN : Request(Post(h, b, TRUE, len, g))
    \/ Request(Put(h, b, FALSE, 0))
    \/ \E g \in BOOLEAN : Request(Post(h, b, FALSE, 0, g))

------------------------------------------------------------------------------
(* 1. Headers.                                                               *)

\* fields.append(n): accepted, or refused (forbidden, invalid, immutable).
Append(n, origin) ==
  /\ \/ fields' = fields \cup {<<n, origin>>} /\ UNCHANGED headerError
     \/ headerError' = TRUE /\ UNCHANGED fields
  /\ Keep /\ Uses({"fields"})
  /\ UNCHANGED <<call, off, resp, bodyVars, endVars, serverVars>>

\* One turn of the loop over the map; an error breaks out of it.
AppendHeader ==
  /\ At("headers") /\ ~headerError
  /\ \E n \in todo : Append(n, call.headers[n]) /\ todo' = todo \ {n}
  /\ Goto("headers")

\* Faulty variant: the token is added next to a caller's Authorization.
AppendBearerAlways ==
  /\ At("headers") /\ (headerError \/ todo = {})
  /\ IF ~headerError /\ call.bearer
     THEN Append("Authorization", "bearer")
     ELSE /\ Keep /\ Uses({})
          /\ UNCHANGED <<headerError, fields, call, off, resp, bodyVars,
                         endVars, serverVars>>
  /\ UNCHANGED todo
  /\ Leave({"bf"}, "headersDone")

\* After the loop: the bearer token, unless an Authorization header stands.
\* Then the block ends and `bf` goes.
AppendBearer ==
  /\ At("headers") /\ (headerError \/ todo = {})
  /\ IF ~headerError /\ call.bearer /\ call.headers["Authorization"] = "absent"
     THEN Append("Authorization", "bearer")
     ELSE /\ Keep /\ Uses({})
          /\ UNCHANGED <<headerError, fields, call, off, resp, bodyVars,
                         endVars, serverVars>>
  /\ UNCHANGED todo
  /\ Leave({"bf"}, "headersDone")

HeadersRefused ==
  /\ At("headersDone") /\ headerError
  /\ Fail("header") /\ Uses({})
  /\ UNCHANGED <<setupVars, off, bodyVars, endVars, serverVars>>

------------------------------------------------------------------------------
(* 2. The outgoing-request; its body is taken before handle() consumes it.   *)

\* constructor_outgoing_request consumes `fields`.
NewRequest ==
  /\ At("headersDone") /\ ~headerError
  /\ Exchange({"fields"}, {"request"}, {"breq"}) /\ Consumes("fields")
  /\ Goto("setters")
  /\ UNCHANGED <<setupVars, off, resp, bodyVars, endVars, serverVars>>

\* Method, scheme, authority, path: any of the four may be refused.  After
\* them `out_body` is declared, owning nothing yet.
SetRequest ==
  /\ At("setters") /\ Uses({"request"})
  /\ \/ /\ Exchange({}, {}, {"out_body"})
        /\ Goto(IF call.hasBody THEN "takeBody" ELSE "dispatch")
        /\ UNCHANGED resp
     \/ Fail("build")
  /\ UNCHANGED <<setupVars, off, bodyVars, endVars, serverVars>>

TakeBody ==
  /\ At("takeBody") /\ Uses({"request"})
  /\ \/ Exchange({}, {"out_body"}, {}) /\ Goto("dispatch") /\ UNCHANGED resp
     \/ Fail("body")
  /\ UNCHANGED <<setupVars, off, bodyVars, endVars, serverVars>>

------------------------------------------------------------------------------
(* 3. Dispatch and upload.                                                   *)

\* handle() consumes the request either way.  Accepted, it is on its way to
\* the server: complete, unless an outgoing-body was taken from it.
Dispatch ==
  /\ At("dispatch") /\ Consumes("request")
  /\ \/ /\ Exchange({"request"}, {"future"}, {})
        /\ wire' = fields
        /\ phase' = IF call.hasBody THEN "receiving" ELSE "complete"
        /\ Goto(IF call.hasBody THEN "openStream" ELSE "subscribe")
        /\ UNCHANGED <<resp, got>>
     \/ /\ Exchange({"request"}, {}, {})
        /\ resp' = Failure("dispatch") /\ Leave(scope, "return")
        /\ UNCHANGED uploadVars
  /\ UNCHANGED <<setupVars, off, bodyVars, endVars, replyVars>>

\* Faulty variant: the diagnostic of the step before.
OpenStreamMislabelled ==
  /\ At("openStream") /\ Uses({"out_body"})
  /\ \/ Exchange({}, {"out_stream"}, {"bos"}) /\ Goto("writing") /\ UNCHANGED resp
     \/ Fail("body")
  /\ UNCHANGED <<setupVars, off, bodyVars, endVars, serverVars>>

OpenStream ==
  /\ At("openStream") /\ Uses({"out_body"})
  /\ \/ Exchange({}, {"out_stream"}, {"bos"}) /\ Goto("writing") /\ UNCHANGED resp
     \/ Fail("open")
  /\ UNCHANGED <<setupVars, off, bodyVars, endVars, serverVars>>

NextWrite == IF call.len - off > WriteCap THEN WriteCap ELSE call.len - off

\* blocking-write-and-flush of the next n bytes.  A failed one may have put
\* some of them on the wire.  `last-operation-failed` hands over an own<error>,
\* which stream_error_free does not drop; `closed` carries nothing.
WriteChunk ==
  /\ At("writing") /\ off < call.len /\ Uses({"out_stream"})
  /\ \/ /\ off' = off + NextWrite /\ got' = got + NextWrite
        /\ Keep /\ Goto("writing") /\ UNCHANGED resp
     \/ /\ \E n \in 0 .. NextWrite : got' = got + n
        /\ \/ UNCHANGED table
           \/ table' = table \cup {"error"}
        /\ UNCHANGED <<scope, held, off>>
        /\ resp' = Failure("write") /\ Leave(scope, "return")
  /\ UNCHANGED <<setupVars, bodyVars, endVars, wire, phase, replyVars>>

\* Faulty variants: the stream outlives the inner block; a last short chunk is
\* left unwritten.
CloseStreamLate ==
  /\ At("writing") /\ off >= call.len
  /\ Keep /\ Uses({}) /\ Goto("finish")
  /\ UNCHANGED <<setupVars, off, resp, bodyVars, endVars, serverVars>>
CloseStreamEarly ==
  /\ At("writing") /\ off + WriteCap > call.len
  /\ Keep /\ Uses({})
  /\ Leave({"out_stream", "bos"}, "finish")
  /\ UNCHANGED <<setupVars, off, resp, bodyVars, endVars, serverVars>>

\* The inner block ends: the stream must be gone before finish().
CloseStream ==
  /\ At("writing") /\ off >= call.len
  /\ Keep /\ Uses({})
  /\ Leave({"out_stream", "bos"}, "finish")
  /\ UNCHANGED <<setupVars, off, resp, bodyVars, endVars, serverVars>>

\* Faulty variant: the result of finish is not looked at.
FinishBodyUnchecked ==
  /\ At("finish") /\ Consumes("out_body")
  /\ Exchange({"out_body"}, {}, {})
  /\ phase' \in {"complete", "corrupted"} /\ Goto("subscribe")
  /\ UNCHANGED <<setupVars, off, resp, bodyVars, endVars, wire, got, replyVars>>

\* outgoing-body.finish consumes the body either way.
FinishBody ==
  /\ At("finish") /\ Consumes("out_body")
  /\ Exchange({"out_body"}, {}, {})
  /\ \/ phase' = "complete" /\ Goto("subscribe") /\ UNCHANGED resp
     \/ /\ phase' \in {"complete", "corrupted"}
        /\ resp' = Failure("finish") /\ Leave(scope, "return")
  /\ UNCHANGED <<setupVars, off, bodyVars, endVars, wire, got, replyVars>>

------------------------------------------------------------------------------
(* 4. The response head.                                                     *)

Subscribe ==
  /\ At("subscribe") /\ Uses({"future"})
  /\ Exchange({}, {"pollable"}, {"bfut"})
  /\ Goto("block")
  /\ UNCHANGED <<setupVars, off, resp, bodyVars, endVars, serverVars>>

\* pollable.block returns once the future is ready.
Block ==
  /\ At("block") /\ reply # "none"
  /\ Keep /\ Uses({"pollable"})
  /\ Goto("get")
  /\ UNCHANGED <<setupVars, off, resp, bodyVars, endVars, serverVars>>

\* future.get: a response is moved out of `got`, an error code is freed with
\* it.  Asked too early, get leaves `got` uninitialised and its free follows
\* whatever bytes it finds there: anything may happen, so it is a trap here.
GetResponse ==
  /\ At("get")
  /\ trapped' = (reply = "none" \/ "future" \notin table)
  /\ IF reply = "ok"
     THEN /\ Exchange({}, {"incoming"}, {"bresp"})
          /\ Goto("head") /\ UNCHANGED resp
     ELSE Fail("transport")
  /\ UNCHANGED <<setupVars, off, bodyVars, endVars, serverVars>>

\* 5. Status and headers; `entries` and `rh` go at the end of their block.
ReadHead ==
  /\ At("head") /\ Uses({"incoming"})
  /\ resp' = [status |-> status, success |-> TRUE, err |-> "none"]
  /\ Exchange({}, {"rh"}, {"entries"})
  /\ Leave({"rh", "entries"}, "handler")
  /\ UNCHANGED <<setupVars, off, bodyVars, endVars, serverVars>>

BodyStage == IF call.verb = "HEAD" THEN "return" ELSE "consume"

\* Faulty variants: the boundary status missed; the handler's answer ignored.
ErrorStatusStrict(s) == s > 400
StopIgnored == handled' = "stop" /\ Goto("consume") /\ UNCHANGED resp

ErrorStatus(s) == s >= 400
Stopped == handled' = "stop" /\ Leave(scope, "return") /\ UNCHANGED resp

\* The response handler may go on, ask to stop, or throw; what it throws on an
\* error status is swallowed, so that the status is reported.
ResponseHandler ==
  /\ At("handler") /\ Keep /\ Uses({})
  /\ IF ~HasHandlers
     THEN /\ pc' = BodyStage
          /\ dying' = IF BodyStage = "return" THEN scope ELSE {}
          /\ UNCHANGED <<resp, handled>>
     ELSE \/ handled' = "continue" /\ Goto("consume") /\ UNCHANGED resp
          \/ Stopped
          \/ /\ handled' = "threw"
             /\ IF ErrorStatus(resp.status)
                THEN /\ resp' = [resp EXCEPT !.success = FALSE]
                     /\ Leave(scope, "return")
                ELSE Leave(scope, "throw") /\ UNCHANGED resp
  /\ UNCHANGED <<setupVars, off, bodyVars, out, serverVars>>

------------------------------------------------------------------------------
(* 6. The response body.                                                     *)

ConsumeBody ==
  /\ At("consume") /\ Uses({"incoming"})
  /\ \/ Exchange({}, {"body"}, {}) /\ Goto("bodyStream") /\ UNCHANGED resp
     \/ Fail("consume")
  /\ UNCHANGED <<setupVars, off, bodyVars, endVars, serverVars>>

BodyStream ==
  /\ At("bodyStream") /\ Uses({"body"})
  /\ \/ Exchange({}, {"stream"}, {"bstream"}) /\ Goto("reading") /\ UNCHANGED resp
     \/ Fail("stream")
  /\ UNCHANGED <<setupVars, off, bodyVars, endVars, serverVars>>

\* blocking-read: bytes (a list on our heap, perhaps empty, then freed at
\* once), the clean end, or a failure at any point of the body.
ReadChunk ==
  /\ At("reading") /\ Uses({"stream"})
  /\ \/ /\ left > 0 /\ left' = left - 1
        /\ \/ /\ sent' = sent + 1 /\ chunk' = 1 /\ heap' = heap \cup {"chunk"}
              /\ Goto("deliver")
           \/ UNCHANGED <<sent, chunk, heap>> /\ Goto("reading")
        /\ Keep /\ UNCHANGED readError
     \/ /\ left = 0 /\ Keep /\ Goto("bodyDone")
        /\ UNCHANGED <<left, sent, chunk, heap, readError>>
     \/ /\ readError' \in DebugStrings
        /\ table' = table \cup {"error"} /\ UNCHANGED <<scope, held>>
        /\ Goto("bodyDone") /\ UNCHANGED <<left, sent, chunk, heap>>
  /\ UNCHANGED <<setupVars, off, resp, seen, endVars, uploadVars, reply, status>>

\* The chunk goes to the content handler, whose answer is ignored, or to
\* resp->body; then it is freed.  A throwing handler skips the free.
Deliver ==
  /\ At("deliver") /\ Keep /\ Uses({})
  /\ \/ /\ seen' = seen + 1 /\ heap' = heap \ {"chunk"} /\ chunk' = 0
        /\ Goto("reading")
     \/ /\ HasHandlers
        /\ Leave(scope, "throw") /\ UNCHANGED <<seen, heap, chunk>>
  /\ UNCHANGED <<setupVars, off, resp, readError, endVars, serverVars>>

\* Faulty variants: a failed read is forgotten; it is tried again, at once.
BodyDoneBlind ==
  /\ At("bodyDone") /\ Uses({}) /\ Return(resp)
  /\ UNCHANGED <<setupVars, off, bodyVars, endVars, serverVars>>
BodyDoneRetry ==
  /\ At("bodyDone") /\ Uses({})
  /\ IF readError # "empty"
     THEN Keep /\ Goto("consume") /\ UNCHANGED resp
     ELSE Return(resp)
  /\ UNCHANGED <<setupVars, off, bodyVars, endVars, serverVars>>

BodyDone ==
  /\ At("bodyDone") /\ Uses({})
  /\ Return(IF readError # "empty"
            THEN [resp EXCEPT !.success = FALSE, !.err = "read"] ELSE resp)
  /\ UNCHANGED <<setupVars, off, bodyVars, endVars, serverVars>>

------------------------------------------------------------------------------
(* Leaving scopes, and the end of the call.                                  *)

\* One destructor.  An outgoing-body dropped unfinished is corrupt to the
\* server; a dropped future forgets the answer.
Destroy ==
  /\ ~trapped
  /\ \E x \in dying :
       /\ Destruct(x)
       /\ phase' = IF x = "out_body" /\ x \in held /\ phase = "receiving"
                   THEN "corrupted" ELSE phase
  /\ UNCHANGED <<clientVars, wire, got, replyVars>>

\* The caller has its answer; Post copies the body read to buffer_out.
ReturnResponse ==
  /\ At("return") /\ Keep /\ Uses({}) /\ Goto("idle")
  /\ out' = [kind |-> "response", resp |-> resp,
             buffer_out |-> IF call.fn = "Post" THEN seen ELSE 0]
  /\ UNCHANGED <<setupVars, off, resp, bodyVars, handled, serverVars>>

Rethrow ==
  /\ At("throw") /\ Keep /\ Uses({}) /\ Goto("idle")
  /\ out' = [NoOutcome EXCEPT !.kind = "threw"]
  /\ UNCHANGED <<setupVars, off, resp, bodyVars, handled, serverVars>>

\* The far side: once dispatched, the exchange may be answered at any time,
\* with a response head (and a body of so many reads) or a transport error.
Answer ==
  /\ "future" \in table /\ reply = "none"
  /\ \/ reply' = "ok" /\ status' \in Statuses /\ left' \in 0 .. MaxReads
     \/ reply' = "err" /\ UNCHANGED <<status, left>>
  /\ UNCHANGED <<scopeVars, clientVars, uploadVars, sent>>

Client ==
  \/ AppendHeader \/ AppendBearer \/ HeadersRefused \/ NewRequest
  \/ SetRequest \/ TakeBody \/ Dispatch \/ OpenStream \/ WriteChunk
  \/ CloseStream \/ FinishBody \/ Subscribe \/ Block \/ GetResponse
  \/ ReadHead \/ ResponseHandler \/ ConsumeBody \/ BodyStream \/ ReadChunk
  \/ Deliver \/ BodyDone \/ Destroy \/ ReturnResponse \/ Rethrow

Next == StartRequest \/ Client \/ Answer

Spec == Init /\ [][Next]_vars

\* Request() blocks the one thread of the instance: every statement and every
\* host call but pollable.block is over in finite time, and the exchange is
\* eventually answered or failed by the host.
FairSpec == Spec /\ WF_vars(Client) /\ WF_vars(Answer)

------------------------------------------------------------------------------
(* Properties.                                                               *)

\* Every variable stays in its type (Request() and the RAII layer).
TypeOK ==
  /\ ScopeTypeOK
  /\ pc \in {"idle", "headers", "headersDone", "setters", "takeBody",
             "dispatch", "openStream", "writing", "finish", "subscribe",
             "block", "get", "head", "handler", "consume", "bodyStream",
             "reading", "deliver", "bodyDone", "return", "throw"}
  /\ call \in Calls
  /\ todo \subseteq Names /\ headerError \in BOOLEAN
  /\ fields \subseteq Names \X (Origins \cup {"bearer"})
  /\ off \in 0 .. MaxLen /\ got \in 0 .. MaxLen
  /\ resp \in Responses /\ out \in Outcomes
  /\ readError \in DebugStrings \cup {"empty"}
  /\ chunk \in {0, 1} /\ heap \subseteq {"chunk"}
  /\ seen \in 0 .. MaxReads /\ sent \in 0 .. MaxReads /\ left \in 0 .. MaxReads
  /\ handled \in {"none", "continue", "stop", "threw"}
  /\ wire \subseteq Names \X (Origins \cup {"bearer"})
  /\ phase \in {"none", "receiving", "complete", "corrupted"}
  /\ reply \in {"none", "ok", "err"} /\ status \in Statuses \cup {0}

\* No exit path makes the host trap or a D_ASSERT fail: children are dropped
\* before parents, no released handle is used, no borrow outlives its owner,
\* and the future is not read before it is ready (OwnHandle, Request()).
NoTrap == ~trapped

\* On every path each handle the host hands out is owned by exactly one live
\* OwnHandle in scope until it is dropped or consumed, and none is left when
\* the call is over, except the own<error> of a failed stream operation.
HandlesOwned ==
  /\ held \subseteq scope
  /\ table \ {"error"} = held
  /\ pc = "idle" => table \subseteq {"error"} /\ scope = {}

\* wasi_http_client.cpp:76-79: RAII keeps the many exit paths leak-free.
LeakFree == pc = "idle" => table = {} /\ heap = {}

Returned(errs) ==
  pc = "idle" /\ out.kind = "response" /\ out.resp.err \in errs

\* wasi_http_client.cpp:464-468: a body cut short by a failed read is never
\* handed to DuckDB as a success; a success means every chunk of the body was
\* delivered, unless the response handler asked to stop.
NoSilentTruncation ==
  Returned({"none"}) /\ out.resp.success /\ call.verb # "HEAD" /\ handled # "stop"
    => left = 0 /\ seen = sent

\* The server takes a request for complete only with the whole of its body,
\* and a status or a body of the server's is reported only for such a request.
UploadWhole ==
  /\ phase = "complete" => got = call.len
  /\ Returned({"none", "transport", "consume", "stream", "read"})
       => phase = "complete"

\* A failure before dispatch never reached the server, so that the retry the
\* diagnostic asks for repeats nothing.
EarlyFailureUnsent ==
  resp.err \in {"header", "build", "body", "dispatch"} => phase = "none"

\* What is sent has all the caller's headers, once each, and the bearer token
\* as Authorization exactly when there is one and the caller gave none
\* (step 1 of Request(): the token must not be silently dropped).
WireHeaders ==
  phase # "none" =>
    wire = {<<n, call.headers[n]>> :
              n \in {m \in Names : call.headers[m] # "absent"}}
           \cup (IF call.bearer /\ call.headers["Authorization"] = "absent"
                 THEN {<<"Authorization", "bearer">>} ELSE {})

\* wasi_http_client.cpp:426-434: an error status comes back as that status,
\* whatever the response handler throws; a throw on success propagates; and
\* a response without a diagnostic carries the server's own status.
StatusReported ==
  pc = "idle" =>
    /\ handled = "threw" =>
         IF status >= 400
         THEN out.resp = [status |-> status, success |-> FALSE, err |-> "none"]
         ELSE out.kind = "threw"
    /\ Returned({"none", "read"}) => out.resp.status = status
    /\ Returned({"none"}) /\ ~out.resp.success => handled = "threw"

\* Nothing of the response body reaches DuckDB unless the response handler,
\* where there is one, has agreed to it (step 5 before step 6).
DeliveredOnConsent ==
  [][seen' > seen /\ HasHandlers => handled = "continue"]_vars

\* Every call returns or throws, if the host answers and its calls end.
CallReturns == pc # "idle" ~> pc = "idle"

\* The implemented contract: a verdict is `ok` when DuckDB takes the response
\* for the whole answer, `status` when it carries the server's status alone.
Verdict ==
  CASE out.kind = "none"  -> "none"
    [] out.kind = "threw" -> "threw"
    [] out.kind = "response" /\ out.resp.err # "none" -> "retryable"
    [] OTHER -> IF call.verb = "HEAD" \/ handled \in {"stop", "threw"}
                THEN "status" ELSE "ok"
Served == CASE phase = "none"      -> "none"
            [] phase = "receiving" -> "partial"
            [] phase = "complete"  -> "whole"
            [] phase = "corrupted" -> "torn"
Contract == INSTANCE RequestContract WITH
  busy <- pc # "idle", served <- Served, delivered <- seen,
  missing <- ~(reply = "ok" /\ left = 0 /\ seen = sent), verdict <- Verdict

\* Request() implements the contract, every step a step of it or a stutter.
ImplementsContract == Contract!Spec
==============================================================================
