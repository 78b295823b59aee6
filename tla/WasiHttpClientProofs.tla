------------------------- MODULE WasiHttpClientProofs -------------------------
(***************************************************************************)
(* Theorems about Request() for every set of header names and statuses, and *)
(* every MaxLen, MaxReads and WriteCap.                                     *)
(***************************************************************************)
EXTENDS WasiHttpClient, TLAPS

(* What the host gave is held by an object in scope.                         *)
OwnedInv == held \subseteq scope /\ table \ {"error"} = held

(* What is destroyed takes its borrows and its children with it.             *)
ClosedInv ==
  /\ dying \subseteq scope
  /\ \A b \in Borrows \cap scope : OwnerOf[b] \in dying => b \in dying
  /\ \A c \in Children \cap held : ParentOf[c] \in dying => c \in dying

ScopeInv == OwnedInv /\ ClosedInv /\ ~trapped

(* The objects being destroyed at each point of Request().                   *)
DyingInv ==
  /\ pc \notin {"headersDone", "finish", "handler", "return", "throw"}
       => dying = {}
  /\ pc = "headersDone" => dying \subseteq {"bf"}
  /\ pc = "finish" => dying \subseteq {"out_stream", "bos"}
  /\ pc = "handler" => dying \subseteq {"rh", "entries"}
  /\ pc \in {"return", "throw"} => dying = scope
  /\ pc = "idle" => scope = {}

(* The parts of Request().                                                   *)
BeforeUpload == {"idle", "headers", "headersDone", "setters", "takeBody",
                 "dispatch", "openStream"}
Uploading  == {"openStream", "writing", "finish"}
Responding == {"subscribe", "block", "get", "head", "handler", "consume",
               "bodyStream", "reading", "deliver", "bodyDone"}

(* The objects that are alive there.                                         *)
LiveInv ==
  /\ pc \in {"headers", "headersDone"} => "fields" \in held
  /\ pc = "headers" => "bf" \in scope
  /\ pc \in {"setters", "takeBody", "dispatch"} => "request" \in held
  /\ pc \in {"openStream", "writing", "finish"} => "out_body" \in held
  /\ pc = "dispatch" /\ call.hasBody => "out_body" \in held
  /\ pc = "writing" => "out_stream" \in held /\ "bos" \in scope
  /\ pc = "finish" /\ "out_stream" \in held => "out_stream" \in dying
  /\ pc \in Uploading \cup {"subscribe", "block", "get"} => "future" \in held
  /\ pc = "block" => "pollable" \in held
  /\ pc = "get" => reply # "none"
  /\ pc \in {"head", "handler", "consume"} => "incoming" \in held
  /\ pc = "bodyStream" => "body" \in held
  /\ pc \in {"reading", "deliver"} => "stream" \in held

(* How much of the request body is written, and what the server has of it.   *)
UploadInv ==
  /\ ~call.hasBody => call.len = 0
  /\ off \in 0 .. call.len /\ got \in 0 .. call.len
  /\ pc \in BeforeUpload \ {"idle"} => off = 0 /\ got = 0
  /\ pc \in {"setters", "headers", "headersDone", "takeBody", "dispatch"}
       => phase = "none"
  /\ pc = "takeBody" => call.hasBody
  /\ pc = "writing" => got = off
  /\ pc = "finish" => got = call.len
  /\ pc \in Uploading => phase = "receiving"
  /\ pc \in Responding \cup {"throw"} => phase = "complete"
  /\ phase = "complete" => got = call.len

(* How much of the response body the host has handed over and DuckDB has.    *)
ReadInv ==
  /\ seen \in Nat /\ sent \in Nat /\ left \in Nat
  /\ sent + left <= MaxReads
  /\ seen + chunk = sent
  /\ pc \notin {"idle", "deliver", "throw", "return"} => chunk = 0
  /\ pc = "deliver" => chunk = 1
  /\ reply = "none" => left = 0 /\ sent = 0

Inv == TypeOK /\ ScopeInv /\ DyingInv /\ LiveInv /\ UploadInv /\ ReadInv
------------------------------------------------------------------------------
(* A borrow is declared after its owner and a child after its parent, so     *)
(* that leaving a scope destroys it first.                                   *)
LEMMA DeclaredAfter ==
  /\ \A b \in Borrows : OwnerOf[b] \in Owners /\ Rank[OwnerOf[b]] < Rank[b]
  /\ \A c \in Children : ParentOf[c] \in Owners /\ Rank[ParentOf[c]] < Rank[c]
  /\ \A x \in Locals : Rank[x] \in Nat
BY DEF Borrows, Children, OwnerOf, ParentOf, Rank, Owners, Locals

(* A client that has made no call satisfies all of it.                       *)
LEMMA InitInv == Init => Inv
<1> SUFFICES ASSUME Init PROVE Inv
  OBVIOUS
<1> USE DEF Init, ScopeInit, ClientInit, ServerInit
<1>1. ScopeTypeOK /\ ScopeInv
  BY DEF ScopeTypeOK, ScopeInv, OwnedInv, ClosedInv
<1>2. call \in Calls
  BY BoundsAssumption DEF Calls, NoCall, Names, Origins, Fns, Verbs
<1>3. resp \in Responses /\ out \in Outcomes
  BY DEF NoResponse, Responses, Stages, NoOutcome, Outcomes
<1>4. headerError \in BOOLEAN
  OBVIOUS
<1>5. TypeOK
  BY <1>1, <1>2, <1>3, <1>4, BoundsAssumption DEF TypeOK
<1>6. DyingInv /\ LiveInv
  BY DEF DyingInv, LiveInv, Uploading
<1>7. UploadInv /\ ReadInv
  BY BoundsAssumption
     DEF NoCall, UploadInv, ReadInv, BeforeUpload, Uploading, Responding
<1> QED BY <1>1, <1>5, <1>6, <1>7 DEF Inv

(* One destructor: the drop it makes neither traps nor asserts, and the      *)
(* scopes being left stay closed under borrows and children.                 *)
LEMMA DestructSafe ==
  ASSUME TypeOK, ScopeInv, NEW x \in dying, Destruct(x)
  PROVE  ScopeInv'
<1>1. x \in Locals
  BY DEF TypeOK, ScopeTypeOK
<1>2. \A b \in Borrows \cap scope : OwnerOf[b] # x
  <2>1. SUFFICES ASSUME NEW b \in Borrows \cap scope, OwnerOf[b] = x
                 PROVE  FALSE
    OBVIOUS
  <2>2. b \in dying
    BY <2>1 DEF ScopeInv, ClosedInv
  <2>3. Rank[b] <= Rank[x] /\ Rank[x] < Rank[b] /\ Rank[x] \in Nat
         /\ Rank[b] \in Nat
    BY <1>1, <2>1, <2>2, DeclaredAfter DEF Destruct, Locals
  <2> QED BY <2>3
<1>3. \A c \in Children \cap held : ParentOf[c] # x
  <2>1. SUFFICES ASSUME NEW c \in Children \cap held, ParentOf[c] = x
                 PROVE  FALSE
    OBVIOUS
  <2>2. c \in dying
    BY <2>1 DEF ScopeInv, ClosedInv
  <2>3. c \in Locals
    BY <2>2 DEF TypeOK, ScopeTypeOK
  <2>4. Rank[c] <= Rank[x] /\ Rank[x] < Rank[c] /\ Rank[x] \in Nat
         /\ Rank[c] \in Nat
    BY <1>1, <2>1, <2>2, <2>3, DeclaredAfter DEF Destruct
  <2> QED BY <2>4
<1>4. "error" \notin Children /\ "error" \notin held
  BY DEF TypeOK, ScopeTypeOK, Owners, Children
<1>5. ~HasChild(x, table)
  BY <1>3, <1>4 DEF HasChild, ScopeInv, OwnedInv
<1>6. ~trapped'
  BY <1>2, <1>4, <1>5 DEF Destruct, DropOwn, ScopeInv, OwnedInv
<1>7. OwnedInv'
  BY <1>4 DEF Destruct, DropOwn, ScopeInv, OwnedInv
<1>8. ClosedInv'
  BY DEF Destruct, DropOwn, ScopeInv, OwnedInv, ClosedInv
<1> QED BY <1>6, <1>7, <1>8 DEF ScopeInv

(* One statement: what the host made is held, what it took is not.           *)
LEMMA OwnedExchange ==
  ASSUME OwnedInv, NEW gone, NEW made, NEW views, "error" \notin made,
         Exchange(gone, made, views)
  PROVE  OwnedInv'
BY DEF OwnedInv, Exchange

LEMMA OwnedKeep == ASSUME OwnedInv, Keep PROVE OwnedInv'
BY DEF OwnedInv, Keep

(* Every statement keeps the handles owned, a failed stream operation aside. *)
LEMMA OwnedStep == Inv /\ [Next]_vars => OwnedInv'
<1> SUFFICES ASSUME Inv, [Next]_vars PROVE OwnedInv'
  OBVIOUS
<1> USE OwnedKeep, OwnedExchange DEF Inv, ScopeInv, Return, Fail
<1>1. CASE StartRequest
  <2>1. PICK c : Request(c)
    BY <1>1 DEF StartRequest
  <2> QED BY <2>1 DEF Request
<1>2. CASE AppendHeader BY <1>2 DEF AppendHeader, Append
<1>3. CASE AppendBearer BY <1>3 DEF AppendBearer, Append
<1>4. CASE HeadersRefused BY <1>4 DEF HeadersRefused
<1>5. CASE NewRequest BY <1>5 DEF NewRequest
<1>6. CASE SetRequest BY <1>6 DEF SetRequest
<1>7. CASE TakeBody BY <1>7 DEF TakeBody
<1>8. CASE Dispatch BY <1>8 DEF Dispatch
<1>9. CASE OpenStream BY <1>9 DEF OpenStream
<1>10. CASE WriteChunk BY <1>10 DEF WriteChunk, Keep, OwnedInv
<1>11. CASE CloseStream BY <1>11 DEF CloseStream
<1>12. CASE FinishBody BY <1>12 DEF FinishBody
<1>13. CASE Subscribe BY <1>13 DEF Subscribe
<1>14. CASE Block BY <1>14 DEF Block
<1>15. CASE GetResponse BY <1>15 DEF GetResponse
<1>16. CASE ReadHead BY <1>16 DEF ReadHead
<1>17. CASE ResponseHandler BY <1>17 DEF ResponseHandler, Stopped, ErrorStatus
<1>18. CASE ConsumeBody BY <1>18 DEF ConsumeBody
<1>19. CASE BodyStream BY <1>19 DEF BodyStream
<1>20. CASE ReadChunk BY <1>20 DEF ReadChunk, Keep, OwnedInv
<1>21. CASE Deliver BY <1>21 DEF Deliver
<1>22. CASE BodyDone BY <1>22 DEF BodyDone
<1>23. CASE Destroy BY <1>23, DestructSafe DEF Destroy, Inv, ScopeInv
<1>24. CASE ReturnResponse BY <1>24 DEF ReturnResponse
<1>25. CASE Rethrow BY <1>25 DEF Rethrow
<1>26. CASE Answer BY <1>26 DEF Answer, scopeVars, OwnedInv
<1>27. CASE UNCHANGED vars
  BY <1>27 DEF OwnedInv, vars, scopeVars, clientVars, serverVars, headerVars,
       bodyVars, uploadVars, replyVars
<1> QED BY <1>1, <1>2, <1>3, <1>4, <1>5, <1>6, <1>7, <1>8, <1>9, <1>10, <1>11,
     <1>12, <1>13, <1>14, <1>15, <1>16, <1>17, <1>18, <1>19, <1>20, <1>21,
     <1>22, <1>23, <1>24, <1>25, <1>26, <1>27 DEF Next, Client

(* Leaving nothing, or everything, is closed.                                *)
LEMMA ClosedNone == ASSUME dying' = {} PROVE ClosedInv'
BY DEF ClosedInv

LEMMA ClosedAll ==
  ASSUME TypeOK, OwnedInv, dying' = scope, scope' = scope, held' \subseteq held
  PROVE  ClosedInv'
BY DEF ClosedInv, OwnedInv

(* What a return, a throw or the end of a block destroys is closed.          *)
LEMMA ClosedStep == Inv /\ [Next]_vars => ClosedInv'
<1> SUFFICES ASSUME Inv, [Next]_vars PROVE ClosedInv'
  OBVIOUS
<1> USE ClosedNone DEF Inv, ScopeInv, At, Goto, Leave
<1>1. CASE StartRequest
  <2>1. PICK c : Request(c)
    BY <1>1 DEF StartRequest
  <2> QED BY <2>1 DEF Request
<1>2. CASE AppendHeader BY <1>2 DEF AppendHeader
<1>3. CASE AppendBearer
  BY <1>3 DEF AppendBearer, ClosedInv, LiveInv, Append, Keep, OwnerOf, Borrows,
       ParentOf, Children
<1>4. CASE HeadersRefused
  BY <1>4, ClosedAll DEF HeadersRefused, Fail, Return, Keep
<1>5. CASE NewRequest BY <1>5 DEF NewRequest
<1>6. CASE SetRequest BY <1>6, ClosedAll DEF SetRequest, Fail, Return, Keep
<1>7. CASE TakeBody BY <1>7, ClosedAll DEF TakeBody, Fail, Return, Keep
<1>8. CASE Dispatch BY <1>8, ClosedAll DEF Dispatch, Exchange
<1>9. CASE OpenStream BY <1>9, ClosedAll DEF OpenStream, Fail, Return, Keep
<1>10. CASE WriteChunk BY <1>10, ClosedAll DEF WriteChunk, Keep
<1>11. CASE CloseStream
  BY <1>11 DEF CloseStream, ClosedInv, LiveInv, OwnedInv, ScopeInv, Keep,
       OwnerOf, Borrows, ParentOf, Children
<1>12. CASE FinishBody BY <1>12, ClosedAll DEF FinishBody, Exchange
<1>13. CASE Subscribe BY <1>13 DEF Subscribe
<1>14. CASE Block BY <1>14 DEF Block
<1>15. CASE GetResponse BY <1>15, ClosedAll DEF GetResponse, Fail, Return, Keep
<1>16. CASE ReadHead
  BY <1>16 DEF ReadHead, ClosedInv, Exchange, OwnerOf, Borrows, ParentOf,
       Children
<1>17. CASE ResponseHandler BY <1>17, ClosedAll DEF ResponseHandler, Stopped, ErrorStatus, Keep
<1>18. CASE ConsumeBody BY <1>18, ClosedAll DEF ConsumeBody, Fail, Return, Keep
<1>19. CASE BodyStream BY <1>19, ClosedAll DEF BodyStream, Fail, Return, Keep
<1>20. CASE ReadChunk BY <1>20 DEF ReadChunk
<1>21. CASE Deliver BY <1>21, ClosedAll DEF Deliver, Keep
<1>22. CASE BodyDone BY <1>22, ClosedAll DEF BodyDone, Fail, Return, Keep
<1>23. CASE Destroy BY <1>23, DestructSafe DEF Destroy, ScopeInv
<1>24. CASE ReturnResponse BY <1>24 DEF ReturnResponse
<1>25. CASE Rethrow BY <1>25 DEF Rethrow
<1>26. CASE Answer BY <1>26 DEF Answer, scopeVars, ScopeInv, ClosedInv
<1>27. CASE UNCHANGED vars
  BY <1>27 DEF ClosedInv, vars, scopeVars, clientVars, serverVars, headerVars,
       bodyVars, uploadVars, replyVars
<1> QED BY <1>1, <1>2, <1>3, <1>4, <1>5, <1>6, <1>7, <1>8, <1>9, <1>10, <1>11,
     <1>12, <1>13, <1>14, <1>15, <1>16, <1>17, <1>18, <1>19, <1>20, <1>21,
     <1>22, <1>23, <1>24, <1>25, <1>26, <1>27 DEF Next, Client

(* The host knows every handle Request() passes, and a handle handed over    *)
(* has no live child.                                                        *)
LEMMA KnownHandle ==
  ASSUME OwnedInv, NEW x \in held
  PROVE  x \in table
BY DEF OwnedInv

LEMMA ChildFree ==
  ASSUME TypeOK, OwnedInv, NEW x,
         \A c \in Children \cap held : ParentOf[c] # x
  PROVE  ~HasChild(x, table)
BY DEF HasChild, OwnedInv, Children

(* No statement of Request() traps and no destructor asserts.                *)
LEMMA TrapStep == Inv /\ [Next]_vars => ~trapped'
<1> SUFFICES ASSUME Inv, [Next]_vars PROVE ~trapped'
  OBVIOUS
<1> USE KnownHandle DEF Inv, ScopeInv, LiveInv, Uploading, At, Uses
<1>1. CASE StartRequest
  <2>1. PICK c : Request(c)
    BY <1>1 DEF StartRequest
  <2> QED BY <2>1 DEF Request
<1>2. CASE AppendHeader BY <1>2 DEF AppendHeader, Append
<1>3. CASE AppendBearer BY <1>3 DEF AppendBearer, Append
<1>4. CASE HeadersRefused BY <1>4 DEF HeadersRefused
<1>5. CASE NewRequest
  <2>1. /\ "fields" \in held
         /\ \A c \in Children \cap held : ParentOf[c] # "fields"
    BY <1>5 DEF NewRequest, Children, ParentOf
  <2> QED BY <2>1, <1>5, ChildFree DEF NewRequest, Consumes
<1>6. CASE SetRequest BY <1>6 DEF SetRequest
<1>7. CASE TakeBody BY <1>7 DEF TakeBody
<1>8. CASE Dispatch
  <2>1. /\ "request" \in held
         /\ \A c \in Children \cap held : ParentOf[c] # "request"
    BY <1>8 DEF Dispatch, Children, ParentOf
  <2> QED BY <2>1, <1>8, ChildFree DEF Dispatch, Consumes
<1>9. CASE OpenStream BY <1>9 DEF OpenStream
<1>10. CASE WriteChunk BY <1>10 DEF WriteChunk
<1>11. CASE CloseStream BY <1>11 DEF CloseStream
<1>12. CASE FinishBody
  <2>1. /\ "out_body" \in held
         /\ \A c \in Children \cap held : ParentOf[c] # "out_body"
    BY <1>12 DEF FinishBody, Children, ParentOf
  <2> QED BY <2>1, <1>12, ChildFree DEF FinishBody, Consumes
<1>13. CASE Subscribe BY <1>13 DEF Subscribe
<1>14. CASE Block BY <1>14 DEF Block
<1>15. CASE GetResponse BY <1>15 DEF GetResponse
<1>16. CASE ReadHead BY <1>16 DEF ReadHead
<1>17. CASE ResponseHandler BY <1>17 DEF ResponseHandler, Stopped, ErrorStatus
<1>18. CASE ConsumeBody BY <1>18 DEF ConsumeBody
<1>19. CASE BodyStream BY <1>19 DEF BodyStream
<1>20. CASE ReadChunk BY <1>20 DEF ReadChunk
<1>21. CASE Deliver BY <1>21 DEF Deliver
<1>22. CASE BodyDone BY <1>22 DEF BodyDone
<1>23. CASE Destroy BY <1>23, DestructSafe DEF Destroy, ScopeInv
<1>24. CASE ReturnResponse BY <1>24 DEF ReturnResponse
<1>25. CASE Rethrow BY <1>25 DEF Rethrow
<1>26. CASE Answer BY <1>26 DEF Answer, scopeVars
<1>27. CASE UNCHANGED vars
  BY <1>27 DEF vars, scopeVars, clientVars, serverVars, headerVars, bodyVars,
       uploadVars, replyVars
<1> QED BY <1>1, <1>2, <1>3, <1>4, <1>5, <1>6, <1>7, <1>8, <1>9, <1>10, <1>11,
     <1>12, <1>13, <1>14, <1>15, <1>16, <1>17, <1>18, <1>19, <1>20, <1>21,
     <1>22, <1>23, <1>24, <1>25, <1>26, <1>27 DEF Next, Client
(* Scopes are left only where the code leaves them.                          *)
LEMMA DyingStep == Inv /\ [Next]_vars => DyingInv'
<1> SUFFICES ASSUME Inv, [Next]_vars PROVE DyingInv'
  OBVIOUS
<1> USE DEF Inv, DyingInv, ScopeInv, ClosedInv, At, Goto, Leave, Keep,
     Exchange, Return, Fail
<1>1. CASE StartRequest
  <2>1. PICK c : Request(c)
    BY <1>1 DEF StartRequest
  <2> QED BY <2>1 DEF Request
<1>2. CASE AppendHeader BY <1>2 DEF AppendHeader, Append
<1>3. CASE AppendBearer BY <1>3 DEF AppendBearer, Append
<1>4. CASE HeadersRefused BY <1>4 DEF HeadersRefused
<1>5. CASE NewRequest BY <1>5 DEF NewRequest
<1>6. CASE SetRequest BY <1>6 DEF SetRequest
<1>7. CASE TakeBody BY <1>7 DEF TakeBody
<1>8. CASE Dispatch BY <1>8 DEF Dispatch
<1>9. CASE OpenStream BY <1>9 DEF OpenStream
<1>10. CASE WriteChunk BY <1>10 DEF WriteChunk
<1>11. CASE CloseStream BY <1>11 DEF CloseStream
<1>12. CASE FinishBody BY <1>12 DEF FinishBody
<1>13. CASE Subscribe BY <1>13 DEF Subscribe
<1>14. CASE Block BY <1>14 DEF Block
<1>15. CASE GetResponse BY <1>15 DEF GetResponse
<1>16. CASE ReadHead BY <1>16 DEF ReadHead
<1>17. CASE ResponseHandler BY <1>17 DEF ResponseHandler, Stopped, ErrorStatus, BodyStage
<1>18. CASE ConsumeBody BY <1>18 DEF ConsumeBody
<1>19. CASE BodyStream BY <1>19 DEF BodyStream
<1>20. CASE ReadChunk BY <1>20 DEF ReadChunk
<1>21. CASE Deliver BY <1>21 DEF Deliver
<1>22. CASE BodyDone BY <1>22 DEF BodyDone
<1>23. CASE Destroy BY <1>23 DEF Destroy, Destruct, clientVars
<1>24. CASE ReturnResponse BY <1>24 DEF ReturnResponse
<1>25. CASE Rethrow BY <1>25 DEF Rethrow
<1>26. CASE Answer BY <1>26 DEF Answer, scopeVars, clientVars
<1>27. CASE UNCHANGED vars
  BY <1>27 DEF vars, scopeVars, clientVars, serverVars, headerVars, bodyVars,
       uploadVars, replyVars
<1> QED BY <1>1, <1>2, <1>3, <1>4, <1>5, <1>6, <1>7, <1>8, <1>9, <1>10, <1>11,
     <1>12, <1>13, <1>14, <1>15, <1>16, <1>17, <1>18, <1>19, <1>20, <1>21,
     <1>22, <1>23, <1>24, <1>25, <1>26, <1>27 DEF Next, Client

(* At each point of Request() the objects it uses there are alive.           *)
LEMMA LiveStep == Inv /\ [Next]_vars => LiveInv'
<1> SUFFICES ASSUME Inv, [Next]_vars PROVE LiveInv'
  OBVIOUS
<1> USE DEF Inv, LiveInv, Uploading, ScopeInv, OwnedInv, At, Goto, Leave, Keep,
     Exchange, Return, Fail, setupVars, endVars, serverVars, replyVars
<1>1. CASE StartRequest
  <2>1. PICK c : Request(c)
    BY <1>1 DEF StartRequest
  <2> QED BY <2>1 DEF Request
<1>2. CASE AppendHeader BY <1>2 DEF AppendHeader, Append
<1>3. CASE AppendBearer BY <1>3 DEF AppendBearer, Append
<1>4. CASE HeadersRefused BY <1>4 DEF HeadersRefused
<1>5. CASE NewRequest BY <1>5 DEF NewRequest
<1>6. CASE SetRequest BY <1>6 DEF SetRequest
<1>7. CASE TakeBody BY <1>7 DEF TakeBody
<1>8. CASE Dispatch BY <1>8 DEF Dispatch
<1>9. CASE OpenStream BY <1>9 DEF OpenStream
<1>10. CASE WriteChunk BY <1>10 DEF WriteChunk
<1>11. CASE CloseStream BY <1>11 DEF CloseStream
<1>12. CASE FinishBody BY <1>12 DEF FinishBody
<1>13. CASE Subscribe BY <1>13 DEF Subscribe
<1>14. CASE Block BY <1>14 DEF Block
<1>15. CASE GetResponse BY <1>15 DEF GetResponse
<1>16. CASE ReadHead BY <1>16 DEF ReadHead
<1>17. CASE ResponseHandler BY <1>17 DEF ResponseHandler, Stopped, ErrorStatus, BodyStage
<1>18. CASE ConsumeBody BY <1>18 DEF ConsumeBody
<1>19. CASE BodyStream BY <1>19 DEF BodyStream
<1>20. CASE ReadChunk BY <1>20 DEF ReadChunk
<1>21. CASE Deliver BY <1>21 DEF Deliver
<1>22. CASE BodyDone BY <1>22 DEF BodyDone
<1>23. CASE Destroy
  <2>1. PICK x \in dying : Destruct(x)
    BY <1>23 DEF Destroy
  <2>2. UNCHANGED <<pc, call, reply>>
    BY <1>23 DEF Destroy, clientVars, replyVars
  <2>3. held \ {x} \subseteq held' /\ held' \subseteq held
    BY <2>1 DEF Destruct, DropOwn
  <2>4. scope' = scope \ {x} /\ dying' = dying \ {x}
    BY <2>1 DEF Destruct
  <2>5. x \in held' => x \notin Owners
    BY <2>1, <2>3 DEF Destruct, DropOwn
  <2>6. pc \in {"headersDone", "finish", "handler", "return", "throw"}
    BY <2>1 DEF DyingInv
  <2>7. CASE pc = "headersDone" BY <2>2, <2>3, <2>7 DEF DyingInv
  <2>8. CASE pc = "finish"
    <3>1. x \in {"out_stream", "bos"}
      BY <2>8 DEF DyingInv
    <3>2. "out_stream" \in held' => "out_stream" \in dying'
      BY <2>8, <2>3, <2>4, <2>5 DEF Owners
    <3> QED BY <2>2, <2>3, <2>8, <3>1, <3>2
  <2>9. CASE pc \in {"handler", "return", "throw"}
    BY <2>2, <2>3, <2>9 DEF DyingInv
  <2> QED BY <2>6, <2>7, <2>8, <2>9
<1>24. CASE ReturnResponse BY <1>24 DEF ReturnResponse
<1>25. CASE Rethrow BY <1>25 DEF Rethrow
<1>26. CASE Answer
  BY <1>26 DEF Answer, scopeVars, clientVars, setupVars, headerVars
<1>27. CASE UNCHANGED vars
  BY <1>27 DEF vars, scopeVars, clientVars, serverVars, headerVars, bodyVars,
       uploadVars, replyVars
<1> QED BY <1>1, <1>2, <1>3, <1>4, <1>5, <1>6, <1>7, <1>8, <1>9, <1>10, <1>11,
     <1>12, <1>13, <1>14, <1>15, <1>16, <1>17, <1>18, <1>19, <1>20, <1>21,
     <1>22, <1>23, <1>24, <1>25, <1>26, <1>27 DEF Next, Client

(* The counters are natural numbers, in all that follows.                    *)
LEMMA Counters ==
  ASSUME TypeOK
  PROVE  /\ call.len \in Nat /\ off \in Nat /\ got \in Nat
         /\ seen \in Nat /\ sent \in Nat /\ left \in Nat
         /\ call.hasBody \in BOOLEAN /\ chunk \in {0, 1}
BY BoundsAssumption DEF TypeOK, Calls

(* Bytes acknowledged are bytes sent, until the body is finished or torn.    *)
LEMMA UploadStep == Inv /\ [Next]_vars => UploadInv'
<1> SUFFICES ASSUME Inv, [Next]_vars PROVE UploadInv'
  OBVIOUS
<1> USE Counters DEF Inv, UploadInv, BeforeUpload, Uploading, Responding, At,
     Goto, Leave, Keep, Return, Fail, setupVars, serverVars, uploadVars
<1>1. CASE StartRequest
  BY <1>1, BoundsAssumption DEF StartRequest, Request, Get, Head, Delete,
       Bodyless, Put, Post
<1>2. CASE AppendHeader BY <1>2 DEF AppendHeader, Append
<1>3. CASE AppendBearer BY <1>3 DEF AppendBearer, Append
<1>4. CASE HeadersRefused BY <1>4 DEF HeadersRefused
<1>5. CASE NewRequest BY <1>5 DEF NewRequest
<1>6. CASE SetRequest BY <1>6 DEF SetRequest
<1>7. CASE TakeBody BY <1>7 DEF TakeBody
<1>8. CASE Dispatch BY <1>8 DEF Dispatch
<1>9. CASE OpenStream BY <1>9 DEF OpenStream
<1>10. CASE WriteChunk
  <2>1. NextWrite \in Nat /\ off + NextWrite <= call.len
    BY <1>10, WriteCapAssumption DEF WriteChunk, NextWrite
  <2> QED BY <1>10, <2>1 DEF WriteChunk
<1>11. CASE CloseStream BY <1>11 DEF CloseStream
<1>12. CASE FinishBody BY <1>12 DEF FinishBody
<1>13. CASE Subscribe BY <1>13 DEF Subscribe
<1>14. CASE Block BY <1>14 DEF Block
<1>15. CASE GetResponse BY <1>15 DEF GetResponse
<1>16. CASE ReadHead BY <1>16 DEF ReadHead
<1>17. CASE ResponseHandler BY <1>17 DEF ResponseHandler, Stopped, ErrorStatus, BodyStage
<1>18. CASE ConsumeBody BY <1>18 DEF ConsumeBody
<1>19. CASE BodyStream BY <1>19 DEF BodyStream
<1>20. CASE ReadChunk BY <1>20 DEF ReadChunk
<1>21. CASE Deliver BY <1>21 DEF Deliver
<1>22. CASE BodyDone BY <1>22 DEF BodyDone
<1>23. CASE Destroy BY <1>23 DEF Destroy, Destruct, DyingInv, clientVars
<1>24. CASE ReturnResponse BY <1>24 DEF ReturnResponse
<1>25. CASE Rethrow BY <1>25 DEF Rethrow
<1>26. CASE Answer BY <1>26 DEF Answer, scopeVars, clientVars
<1>27. CASE UNCHANGED vars
  BY <1>27 DEF vars, scopeVars, clientVars, serverVars, headerVars, bodyVars,
       uploadVars, replyVars
<1> QED BY <1>1, <1>2, <1>3, <1>4, <1>5, <1>6, <1>7, <1>8, <1>9, <1>10, <1>11,
     <1>12, <1>13, <1>14, <1>15, <1>16, <1>17, <1>18, <1>19, <1>20, <1>21,
     <1>22, <1>23, <1>24, <1>25, <1>26, <1>27 DEF Next, Client

(* Chunks read are chunks delivered, but for the one in hand.                *)
LEMMA ReadStep == Inv /\ [Next]_vars => ReadInv'
<1> SUFFICES ASSUME Inv, [Next]_vars PROVE ReadInv'
  OBVIOUS
<1> USE Counters DEF Inv, ReadInv, LiveInv, At, Goto, Leave, Keep, Return,
     Fail, serverVars, replyVars, bodyVars
<1>1. CASE StartRequest
  <2>1. PICK c : Request(c)
    BY <1>1 DEF StartRequest
  <2> QED BY <2>1, BoundsAssumption DEF Request
<1>2. CASE AppendHeader BY <1>2 DEF AppendHeader, Append
<1>3. CASE AppendBearer BY <1>3 DEF AppendBearer, Append
<1>4. CASE HeadersRefused BY <1>4 DEF HeadersRefused
<1>5. CASE NewRequest BY <1>5 DEF NewRequest
<1>6. CASE SetRequest BY <1>6 DEF SetRequest
<1>7. CASE TakeBody BY <1>7 DEF TakeBody
<1>8. CASE Dispatch BY <1>8 DEF Dispatch
<1>9. CASE OpenStream BY <1>9 DEF OpenStream
<1>10. CASE WriteChunk BY <1>10 DEF WriteChunk
<1>11. CASE CloseStream BY <1>11 DEF CloseStream
<1>12. CASE FinishBody BY <1>12 DEF FinishBody
<1>13. CASE Subscribe BY <1>13 DEF Subscribe
<1>14. CASE Block BY <1>14 DEF Block
<1>15. CASE GetResponse BY <1>15 DEF GetResponse
<1>16. CASE ReadHead BY <1>16 DEF ReadHead
<1>17. CASE ResponseHandler BY <1>17 DEF ResponseHandler, Stopped, ErrorStatus, BodyStage
<1>18. CASE ConsumeBody BY <1>18 DEF ConsumeBody
<1>19. CASE BodyStream BY <1>19 DEF BodyStream
<1>20. CASE ReadChunk
  <2>1. seen' = seen /\ reply' = reply
    BY <1>20 DEF ReadChunk
  <2>2. \/ left > 0 /\ left' = left - 1 /\ sent' \in {sent, sent + 1}
        \/ left' = left /\ sent' = sent
    BY <1>20 DEF ReadChunk
  <2>3. seen + chunk' = sent' /\ (pc' = "reading" \/ pc' = "deliver" \/ pc' =
       "bodyDone")
    BY <1>20 DEF ReadChunk
  <2>4. (pc' # "deliver" => chunk' = 0) /\ (pc' = "deliver" => chunk' = 1)
    BY <1>20 DEF ReadChunk
  <2>5. sent' + left' <= MaxReads
    BY <2>2, BoundsAssumption
  <2> QED BY <2>1, <2>2, <2>3, <2>4, <2>5
<1>21. CASE Deliver BY <1>21 DEF Deliver
<1>22. CASE BodyDone BY <1>22 DEF BodyDone
<1>23. CASE Destroy
  BY <1>23 DEF Destroy, Destruct, DyingInv, clientVars, bodyVars
<1>24. CASE ReturnResponse BY <1>24 DEF ReturnResponse
<1>25. CASE Rethrow BY <1>25 DEF Rethrow
<1>26. CASE Answer
  BY <1>26, BoundsAssumption DEF Answer, scopeVars, clientVars, bodyVars
<1>27. CASE UNCHANGED vars
  BY <1>27 DEF vars, scopeVars, clientVars, serverVars, headerVars, bodyVars,
       uploadVars, replyVars
<1> QED BY <1>1, <1>2, <1>3, <1>4, <1>5, <1>6, <1>7, <1>8, <1>9, <1>10, <1>11,
     <1>12, <1>13, <1>14, <1>15, <1>16, <1>17, <1>18, <1>19, <1>20, <1>21,
     <1>22, <1>23, <1>24, <1>25, <1>26, <1>27 DEF Next, Client

(* The objects and owners the RAII layer may name.                           *)
ScopeSets == scope \subseteq Locals /\ held \subseteq Owners

LEMMA KindsOf ==
  /\ {"fields", "request", "out_body", "future", "out_stream", "pollable",
      "incoming", "rh", "body", "stream"} \subseteq Owners
  /\ Owners \subseteq Locals
  /\ {"bf", "breq", "bos", "bfut", "bresp", "bstream", "entries"}
       \subseteq Locals
BY DEF Owners, Borrows, Locals

LEMMA ExchangeSets ==
  ASSUME ScopeSets, NEW gone, NEW made, NEW views, made \subseteq Owners,
         views \subseteq Locals, Exchange(gone, made, views)
  PROVE  ScopeSets'
BY KindsOf DEF ScopeSets, Exchange

LEMMA KeepSets == ASSUME ScopeSets, Keep PROVE ScopeSets'
BY DEF ScopeSets, Keep

(* The RAII layer only ever names objects of Request().                      *)
LEMMA SetsStep == Inv /\ [Next]_vars => ScopeSets'
<1> SUFFICES ASSUME Inv, [Next]_vars PROVE ScopeSets'
  OBVIOUS
<1>0. ScopeSets
  BY DEF Inv, TypeOK, ScopeTypeOK, ScopeSets
<1> USE <1>0, KindsOf, KeepSets, ExchangeSets DEF Return, Fail
<1>1. CASE StartRequest
  <2>1. PICK c : Request(c)
    BY <1>1 DEF StartRequest
  <2> QED BY <2>1 DEF Request
<1>2. CASE AppendHeader BY <1>2 DEF AppendHeader, Append
<1>3. CASE AppendBearer BY <1>3 DEF AppendBearer, Append
<1>4. CASE HeadersRefused BY <1>4 DEF HeadersRefused
<1>5. CASE NewRequest BY <1>5 DEF NewRequest
<1>6. CASE SetRequest BY <1>6 DEF SetRequest
<1>7. CASE TakeBody BY <1>7 DEF TakeBody
<1>8. CASE Dispatch BY <1>8 DEF Dispatch
<1>9. CASE OpenStream BY <1>9 DEF OpenStream
<1>10. CASE WriteChunk BY <1>10 DEF WriteChunk, Keep, ScopeSets
<1>11. CASE CloseStream BY <1>11 DEF CloseStream
<1>12. CASE FinishBody BY <1>12 DEF FinishBody
<1>13. CASE Subscribe BY <1>13 DEF Subscribe
<1>14. CASE Block BY <1>14 DEF Block
<1>15. CASE GetResponse BY <1>15 DEF GetResponse
<1>16. CASE ReadHead BY <1>16 DEF ReadHead
<1>17. CASE ResponseHandler BY <1>17 DEF ResponseHandler, Stopped, ErrorStatus
<1>18. CASE ConsumeBody BY <1>18 DEF ConsumeBody
<1>19. CASE BodyStream BY <1>19 DEF BodyStream
<1>20. CASE ReadChunk BY <1>20 DEF ReadChunk, Keep, ScopeSets
<1>21. CASE Deliver BY <1>21 DEF Deliver
<1>22. CASE BodyDone BY <1>22 DEF BodyDone
<1>23. CASE Destroy BY <1>23 DEF Destroy, Destruct, DropOwn, ScopeSets
<1>24. CASE ReturnResponse BY <1>24 DEF ReturnResponse
<1>25. CASE Rethrow BY <1>25 DEF Rethrow
<1>26. CASE Answer BY <1>26 DEF Answer, scopeVars, ScopeSets
<1>27. CASE UNCHANGED vars
  BY <1>27 DEF ScopeSets, vars, scopeVars, clientVars, serverVars, headerVars,
       bodyVars, uploadVars, replyVars
<1> QED BY <1>1, <1>2, <1>3, <1>4, <1>5, <1>6, <1>7, <1>8, <1>9, <1>10, <1>11,
     <1>12, <1>13, <1>14, <1>15, <1>16, <1>17, <1>18, <1>19, <1>20, <1>21,
     <1>22, <1>23, <1>24, <1>25, <1>26, <1>27 DEF Next, Client

LEMMA TrapType == Inv /\ [Next]_vars => trapped' \in BOOLEAN
<1> SUFFICES ASSUME Inv, [Next]_vars PROVE trapped' \in BOOLEAN
  OBVIOUS
<1> USE DEF Uses, Consumes, Inv, TypeOK, ScopeTypeOK
<1>1. CASE StartRequest
  <2>1. PICK c : Request(c)
    BY <1>1 DEF StartRequest
  <2> QED BY <2>1 DEF Request
<1>2. CASE AppendHeader BY <1>2 DEF AppendHeader, Append
<1>3. CASE AppendBearer BY <1>3 DEF AppendBearer, Append
<1>4. CASE HeadersRefused BY <1>4 DEF HeadersRefused
<1>5. CASE NewRequest BY <1>5 DEF NewRequest
<1>6. CASE SetRequest BY <1>6 DEF SetRequest
<1>7. CASE TakeBody BY <1>7 DEF TakeBody
<1>8. CASE Dispatch BY <1>8 DEF Dispatch
<1>9. CASE OpenStream BY <1>9 DEF OpenStream
<1>10. CASE WriteChunk BY <1>10 DEF WriteChunk, Keep
<1>11. CASE CloseStream BY <1>11 DEF CloseStream
<1>12. CASE FinishBody BY <1>12 DEF FinishBody
<1>13. CASE Subscribe BY <1>13 DEF Subscribe
<1>14. CASE Block BY <1>14 DEF Block
<1>15. CASE GetResponse BY <1>15 DEF GetResponse
<1>16. CASE ReadHead BY <1>16 DEF ReadHead
<1>17. CASE ResponseHandler BY <1>17 DEF ResponseHandler, Stopped, ErrorStatus
<1>18. CASE ConsumeBody BY <1>18 DEF ConsumeBody
<1>19. CASE BodyStream BY <1>19 DEF BodyStream
<1>20. CASE ReadChunk BY <1>20 DEF ReadChunk, Keep
<1>21. CASE Deliver BY <1>21 DEF Deliver
<1>22. CASE BodyDone BY <1>22 DEF BodyDone
<1>23. CASE Destroy BY <1>23 DEF Destroy, Destruct, DropOwn
<1>24. CASE ReturnResponse BY <1>24 DEF ReturnResponse
<1>25. CASE Rethrow BY <1>25 DEF Rethrow
<1>26. CASE Answer BY <1>26 DEF Answer, scopeVars
<1>27. CASE UNCHANGED vars
  BY <1>27 DEF vars, scopeVars, clientVars, serverVars, headerVars, bodyVars,
       uploadVars, replyVars
<1> QED BY <1>1, <1>2, <1>3, <1>4, <1>5, <1>6, <1>7, <1>8, <1>9, <1>10, <1>11,
     <1>12, <1>13, <1>14, <1>15, <1>16, <1>17, <1>18, <1>19, <1>20, <1>21,
     <1>22, <1>23, <1>24, <1>25, <1>26, <1>27 DEF Next, Client

LEMMA ScopeTypeStep == Inv /\ [Next]_vars => ScopeTypeOK'
<1> SUFFICES ASSUME Inv, [Next]_vars PROVE ScopeTypeOK'
  OBVIOUS
<1>1. ScopeSets' /\ trapped' \in BOOLEAN
  BY SetsStep, TrapType
<1>2. dying' \subseteq Locals
  BY <1>1, ClosedStep DEF ClosedInv, ScopeSets
<1>3. table' \subseteq Resources
  BY <1>1, OwnedStep DEF OwnedInv, ScopeSets, Resources
<1> QED BY <1>1, <1>2, <1>3 DEF ScopeTypeOK, ScopeSets

(* TypeOK in groups of variables that one obligation can handle.             *)
ControlType ==
  /\ pc \in {"idle", "headers", "headersDone", "setters", "takeBody",
             "dispatch", "openStream", "writing", "finish", "subscribe",
             "block", "get", "head", "handler", "consume", "bodyStream",
             "reading", "deliver", "bodyDone", "return", "throw"}
  /\ handled \in {"none", "continue", "stop", "threw"}
  /\ phase \in {"none", "receiving", "complete", "corrupted"}
  /\ reply \in {"none", "ok", "err"}
HeaderType ==
  /\ call \in Calls
  /\ todo \subseteq Names /\ headerError \in BOOLEAN
  /\ fields \subseteq Names \X (Origins \cup {"bearer"})
  /\ wire \subseteq Names \X (Origins \cup {"bearer"})
DataType ==
  /\ resp \in Responses /\ out \in Outcomes
  /\ status \in Statuses \cup {0}
  /\ readError \in DebugStrings \cup {"empty"}
  /\ chunk \in {0, 1} /\ heap \subseteq {"chunk"}

LEMMA TypeGroups == TypeOK => ControlType /\ HeaderType /\ DataType
BY DEF TypeOK, ControlType, HeaderType, DataType

LEMMA ControlTypeStep == Inv /\ [Next]_vars => ControlType'
<1> SUFFICES ASSUME Inv, [Next]_vars PROVE ControlType'
  OBVIOUS
<1> USE TypeGroups DEF Inv, ControlType, Goto, Leave, Return, Fail, setupVars,
     serverVars, uploadVars, replyVars, bodyVars, headerVars, endVars
<1>1. CASE StartRequest
  <2>1. PICK c : Request(c)
    BY <1>1 DEF StartRequest
  <2> QED BY <2>1 DEF Request
<1>2. CASE AppendHeader BY <1>2 DEF AppendHeader, Append
<1>3. CASE AppendBearer BY <1>3 DEF AppendBearer, Append
<1>4. CASE HeadersRefused BY <1>4 DEF HeadersRefused
<1>5. CASE NewRequest BY <1>5 DEF NewRequest
<1>6. CASE SetRequest BY <1>6 DEF SetRequest
<1>7. CASE TakeBody BY <1>7 DEF TakeBody
<1>8. CASE Dispatch BY <1>8 DEF Dispatch
<1>9. CASE OpenStream BY <1>9 DEF OpenStream
<1>10. CASE WriteChunk BY <1>10 DEF WriteChunk
<1>11. CASE CloseStream BY <1>11 DEF CloseStream
<1>12. CASE FinishBody BY <1>12 DEF FinishBody
<1>13. CASE Subscribe BY <1>13 DEF Subscribe
<1>14. CASE Block BY <1>14 DEF Block
<1>15. CASE GetResponse BY <1>15 DEF GetResponse
<1>16. CASE ReadHead BY <1>16 DEF ReadHead
<1>17. CASE ResponseHandler BY <1>17 DEF ResponseHandler, Stopped, ErrorStatus, BodyStage
<1>18. CASE ConsumeBody BY <1>18 DEF ConsumeBody
<1>19. CASE BodyStream BY <1>19 DEF BodyStream
<1>20. CASE ReadChunk BY <1>20 DEF ReadChunk
<1>21. CASE Deliver BY <1>21 DEF Deliver
<1>22. CASE BodyDone BY <1>22 DEF BodyDone
<1>23. CASE Destroy
  BY <1>23 DEF Destroy, Destruct, DropOwn, clientVars, bodyVars, setupVars,
       headerVars, endVars
<1>24. CASE ReturnResponse BY <1>24 DEF ReturnResponse
<1>25. CASE Rethrow BY <1>25 DEF Rethrow
<1>26. CASE Answer
  BY <1>26 DEF Answer, scopeVars, clientVars, bodyVars, setupVars, headerVars,
       endVars
<1>27. CASE UNCHANGED vars
  BY <1>27 DEF vars, scopeVars, clientVars, serverVars, headerVars, bodyVars,
       uploadVars, replyVars
<1> QED BY <1>1, <1>2, <1>3, <1>4, <1>5, <1>6, <1>7, <1>8, <1>9, <1>10, <1>11,
     <1>12, <1>13, <1>14, <1>15, <1>16, <1>17, <1>18, <1>19, <1>20, <1>21,
     <1>22, <1>23, <1>24, <1>25, <1>26, <1>27 DEF Next, Client

(* Each verb calls Request() with a well-formed call.                        *)
LEMMA StartCall == StartRequest => \E c \in Calls : Request(c)
<1> SUFFICES ASSUME StartRequest PROVE \E c \in Calls : Request(c)
  OBVIOUS
<1>1. PICK h \in SUBSET Names, b \in BOOLEAN :
        \/ Request(Get(h, b)) \/ Request(Head(h, b)) \/ Request(Delete(h, b))
        \/ \E len \in 0 .. MaxLen, g \in BOOLEAN :
             Request(Put(h, b, TRUE, len)) \/ Request(Post(h, b, TRUE, len, g))
        \/ Request(Put(h, b, FALSE, 0))
        \/ \E g \in BOOLEAN : Request(Post(h, b, FALSE, 0, g))
  BY DEF StartRequest
<1>2. Caller(h) \in [Names -> Origins]
  BY DEF Caller, Origins
<1>3. \A v \in Origins : 
          [Caller(h) EXCEPT !["Content-Type"] = v] \in [Names -> Origins]
  BY <1>2
<1>4. Get(h, b) \in Calls /\ Head(h, b) \in Calls /\ Delete(h, b) \in Calls
  BY <1>2, BoundsAssumption DEF Get, Head, Delete, Bodyless, Calls, Fns, Verbs
<1>5. \A len \in 0 .. MaxLen, x \in BOOLEAN : Put(h, b, x, len) \in Calls
  BY <1>3 DEF Put, Calls, Fns, Verbs, Origins
<1>6. \A len \in 0 .. MaxLen, x, g \in BOOLEAN : 
          Post(h, b, x, len, g) \in Calls
  BY <1>2, <1>3 DEF Post, Calls, Fns, Verbs, Origins
<1>7. 0 \in 0 .. MaxLen
  BY BoundsAssumption
<1> QED BY <1>1, <1>4, <1>5, <1>6, <1>7

LEMMA HeaderTypeStep == Inv /\ [Next]_vars => HeaderType'
<1> SUFFICES ASSUME Inv, [Next]_vars PROVE HeaderType'
  OBVIOUS
<1> USE TypeGroups DEF Inv, HeaderType, Goto, Leave, Return, Fail, setupVars,
     serverVars, uploadVars, replyVars, bodyVars, headerVars, endVars
<1>1. CASE StartRequest
  <2>1. PICK c : c \in Calls /\ Request(c)
    BY <1>1, StartCall DEF StartRequest
  <2> QED BY <2>1 DEF Request
<1>2. CASE AppendHeader
  <2>1. PICK n \in todo : Append(n, call.headers[n]) /\ todo' = todo \ {n}
    BY <1>2 DEF AppendHeader
  <2>2. n \in Names /\ call.headers[n] \in Origins
    BY <2>1 DEF Calls
  <2>3. <<n, call.headers[n]>> \in Names \X (Origins \cup {"bearer"})
    BY <2>2
  <2>4. headerError' \in BOOLEAN
    BY <2>1 DEF Append
  <2>5. fields' \subseteq Names \X (Origins \cup {"bearer"})
    BY <2>1, <2>3 DEF Append
  <2>6. call' = call /\ wire' = wire /\ todo' \subseteq todo
    BY <2>1 DEF Append
  <2> QED BY <2>4, <2>5, <2>6
<1>3. CASE AppendBearer
  <2>1. "Authorization" \in Names
    BY DEF Names
  <2>2. <<"Authorization", "bearer">> \in Names \X (Origins \cup {"bearer"})
    BY <2>1
  <2>3. headerError' \in BOOLEAN
    BY <1>3 DEF AppendBearer, Append
  <2>4. fields' \subseteq Names \X (Origins \cup {"bearer"})
    BY <1>3, <2>2 DEF AppendBearer, Append
  <2>5. call' = call /\ wire' = wire /\ todo' = todo
    BY <1>3 DEF AppendBearer, Append
  <2> QED BY <2>3, <2>4, <2>5
<1>4. CASE HeadersRefused BY <1>4 DEF HeadersRefused
<1>5. CASE NewRequest BY <1>5 DEF NewRequest
<1>6. CASE SetRequest BY <1>6 DEF SetRequest
<1>7. CASE TakeBody BY <1>7 DEF TakeBody
<1>8. CASE Dispatch BY <1>8 DEF Dispatch
<1>9. CASE OpenStream BY <1>9 DEF OpenStream
<1>10. CASE WriteChunk BY <1>10 DEF WriteChunk
<1>11. CASE CloseStream BY <1>11 DEF CloseStream
<1>12. CASE FinishBody BY <1>12 DEF FinishBody
<1>13. CASE Subscribe BY <1>13 DEF Subscribe
<1>14. CASE Block BY <1>14 DEF Block
<1>15. CASE GetResponse BY <1>15 DEF GetResponse
<1>16. CASE ReadHead BY <1>16 DEF ReadHead
<1>17. CASE ResponseHandler BY <1>17 DEF ResponseHandler, Stopped, ErrorStatus, BodyStage
<1>18. CASE ConsumeBody BY <1>18 DEF ConsumeBody
<1>19. CASE BodyStream BY <1>19 DEF BodyStream
<1>20. CASE ReadChunk BY <1>20 DEF ReadChunk
<1>21. CASE Deliver BY <1>21 DEF Deliver
<1>22. CASE BodyDone BY <1>22 DEF BodyDone
<1>23. CASE Destroy
  BY <1>23 DEF Destroy, Destruct, DropOwn, clientVars, bodyVars, setupVars,
       headerVars, endVars
<1>24. CASE ReturnResponse BY <1>24 DEF ReturnResponse
<1>25. CASE Rethrow BY <1>25 DEF Rethrow
<1>26. CASE Answer
  BY <1>26 DEF Answer, scopeVars, clientVars, bodyVars, setupVars, headerVars,
       endVars
<1>27. CASE UNCHANGED vars
  BY <1>27 DEF vars, scopeVars, clientVars, serverVars, headerVars, bodyVars,
       uploadVars, replyVars
<1> QED BY <1>1, <1>2, <1>3, <1>4, <1>5, <1>6, <1>7, <1>8, <1>9, <1>10, <1>11,
     <1>12, <1>13, <1>14, <1>15, <1>16, <1>17, <1>18, <1>19, <1>20, <1>21,
     <1>22, <1>23, <1>24, <1>25, <1>26, <1>27 DEF Next, Client

LEMMA StatusNat == ASSUME DataType PROVE status \in Nat
<1>1. CASE status \in Statuses
  BY <1>1, StatusesAssumption
<1>2. CASE status = 0
  BY <1>2
<1> QED BY <1>1, <1>2 DEF DataType

(* What the return statements build is an HTTPResponse.                      *)
LEMMA Results ==
  /\ NoResponse \in Responses /\ NoOutcome \in Outcomes
  /\ \A s \in Stages : Failure(s) \in Responses
BY DEF NoResponse, Responses, NoOutcome, Outcomes, Failure, Stages

LEMMA DataTypeStep == Inv /\ [Next]_vars => DataType'
<1> SUFFICES ASSUME Inv, [Next]_vars PROVE DataType'
  OBVIOUS
<1> USE TypeGroups, Results DEF Inv, DataType, Stages, Goto, Leave, Return,
     Fail, setupVars, serverVars, uploadVars, replyVars, bodyVars, headerVars,
     endVars
<1>1. CASE StartRequest
  <2>1. PICK c : Request(c)
    BY <1>1 DEF StartRequest
  <2> QED BY <2>1, Results DEF Request
<1>2. CASE AppendHeader BY <1>2 DEF AppendHeader, Append
<1>3. CASE AppendBearer BY <1>3 DEF AppendBearer, Append
<1>4. CASE HeadersRefused BY <1>4 DEF HeadersRefused
<1>5. CASE NewRequest BY <1>5 DEF NewRequest
<1>6. CASE SetRequest BY <1>6 DEF SetRequest
<1>7. CASE TakeBody BY <1>7 DEF TakeBody
<1>8. CASE Dispatch BY <1>8 DEF Dispatch
<1>9. CASE OpenStream BY <1>9 DEF OpenStream
<1>10. CASE WriteChunk BY <1>10 DEF WriteChunk
<1>11. CASE CloseStream BY <1>11 DEF CloseStream
<1>12. CASE FinishBody BY <1>12 DEF FinishBody
<1>13. CASE Subscribe BY <1>13 DEF Subscribe
<1>14. CASE Block BY <1>14 DEF Block
<1>15. CASE GetResponse BY <1>15 DEF GetResponse
<1>16. CASE ReadHead
  <2>1. status \in Nat
    BY StatusNat
  <2>2. \A n \in Nat : [status |-> n, success |-> TRUE, err |-> "none"] \in
       Responses
    BY DEF Responses, Stages
  <2> QED BY <1>16, <2>1, <2>2 DEF ReadHead
<1>17. CASE ResponseHandler
  <2>1. [resp EXCEPT !.success = FALSE] \in Responses
    BY DEF Responses
  <2> QED BY <1>17, <2>1 DEF ResponseHandler, Stopped, ErrorStatus, BodyStage
<1>18. CASE ConsumeBody BY <1>18 DEF ConsumeBody
<1>19. CASE BodyStream BY <1>19 DEF BodyStream
<1>20. CASE ReadChunk BY <1>20 DEF ReadChunk
<1>21. CASE Deliver BY <1>21 DEF Deliver
<1>22. CASE BodyDone
  <2>1. [resp EXCEPT !.success = FALSE, !.err = "read"] \in Responses
    BY DEF Responses, Stages
  <2> QED BY <1>22, <2>1 DEF BodyDone
<1>23. CASE Destroy
  BY <1>23 DEF Destroy, Destruct, DropOwn, clientVars, bodyVars, setupVars,
       headerVars, endVars
<1>24. CASE ReturnResponse
  <2>1. (IF call.fn = "Post" THEN seen ELSE 0) \in Nat
    BY Counters
  <2>2. resp \in Responses
    BY DEF DataType
  <2>3. \A r \in Responses, n \in Nat :
          [kind |-> "response", resp |-> r, buffer_out |-> n] \in Outcomes
    BY DEF Outcomes
  <2>4. out' = [kind |-> "response", resp |-> resp,
                buffer_out |-> IF call.fn = "Post" THEN seen ELSE 0]
    BY <1>24 DEF ReturnResponse
  <2>5. out' \in Outcomes
    BY <2>1, <2>2, <2>3, <2>4
  <2> QED BY <1>24, <2>5 DEF ReturnResponse
<1>25. CASE Rethrow
  <2>1. [NoOutcome EXCEPT !.kind = "threw"] \in Outcomes
    BY Results DEF Outcomes
  <2> QED BY <1>25, <2>1 DEF Rethrow
<1>26. CASE Answer
  BY <1>26 DEF Answer, scopeVars, clientVars, bodyVars, setupVars, headerVars,
       endVars
<1>27. CASE UNCHANGED vars
  BY <1>27 DEF vars, scopeVars, clientVars, serverVars, headerVars, bodyVars,
       uploadVars, replyVars
<1> QED BY <1>1, <1>2, <1>3, <1>4, <1>5, <1>6, <1>7, <1>8, <1>9, <1>10, <1>11,
     <1>12, <1>13, <1>14, <1>15, <1>16, <1>17, <1>18, <1>19, <1>20, <1>21,
     <1>22, <1>23, <1>24, <1>25, <1>26, <1>27 DEF Next, Client

(* The parts together.                                                       *)
LEMMA TypeStep == Inv /\ [Next]_vars => TypeOK'
<1> SUFFICES ASSUME Inv, [Next]_vars PROVE TypeOK'
  OBVIOUS
<1>1. ScopeTypeOK' /\ ControlType' /\ HeaderType' /\ DataType'
  BY ScopeTypeStep, ControlTypeStep, HeaderTypeStep, DataTypeStep
<1>2. call.len' \in 0 .. MaxLen
  BY <1>1 DEF HeaderType, Calls
<1>3. off' \in 0 .. MaxLen /\ got' \in 0 .. MaxLen
  BY <1>2, UploadStep, BoundsAssumption DEF UploadInv
<1>4. chunk' \in {0, 1}
  BY <1>1 DEF DataType
<1>5. seen' \in 0 .. MaxReads /\ sent' \in 0 .. MaxReads /\ left' \in 0 .. MaxReads
  BY <1>4, ReadStep, BoundsAssumption DEF ReadInv
<1> QED BY <1>1, <1>3, <1>5 DEF TypeOK, ControlType, HeaderType, DataType

LEMMA InvStep == Inv /\ [Next]_vars => Inv'
BY TypeStep, OwnedStep, ClosedStep, TrapStep, DyingStep, LiveStep, UploadStep,
   ReadStep DEF Inv, ScopeInv

(* The inductive invariant holds in every state of Request(), the callee of  *)
(* all five verbs of WasiHTTPClient.                                         *)
THEOREM Invariance == Spec => []Inv
BY InitInv, InvStep, PTL DEF Spec

(* Every variable of Request() and of its RAII layer stays in its type: no   *)
(* offset passes the end of the request body, no more is read than was sent. *)
THEOREM TypeCorrect == Spec => []TypeOK
BY Invariance, PTL DEF Inv

(* On no path of Request(), whatever the host answers, is a handle used after *)
(* it went, a parent dropped before its child, or an owner reset under a live *)
(* borrow (the D_ASSERT of OwnHandle::Reset).                                 *)
THEOREM TrapFree == Spec => []NoTrap
<1>1. Inv => NoTrap
  BY DEF Inv, ScopeInv, NoTrap
<1> QED BY <1>1, Invariance, PTL

(* Every handle is owned by exactly one live OwnHandle in scope, and none is  *)
(* left after Request(), but for the own<error> of failed stream operations.  *)
THEOREM Ownership == Spec => []HandlesOwned
<1>1. Inv => HandlesOwned
  BY DEF Inv, ScopeInv, OwnedInv, DyingInv, HandlesOwned
<1> QED BY <1>1, Invariance, PTL

------------------------------------------------------------------------------
(* What a call returns, and what it says of the two bodies.                  *)

Late == {"none", "transport", "consume", "stream", "read"}

(* A diagnostic of a late stage, or none, is only for a request served whole. *)
OutcomeInv ==
  /\ pc \in {"head", "handler", "consume", "bodyStream", "reading", "deliver",
             "bodyDone"} => reply = "ok"
  /\ pc = "return" /\ resp.err \in Late => phase = "complete"
  /\ pc = "idle" /\ out.kind = "response" /\ out.resp.err \in Late
       => phase = "complete"

(* Only a request served whole gets past the transport.                      *)
LEMMA OutcomeStep == Inv /\ Inv' /\ OutcomeInv /\ [Next]_vars => OutcomeInv'
<1> SUFFICES ASSUME Inv, Inv', OutcomeInv, [Next]_vars PROVE OutcomeInv'
  OBVIOUS
<1> USE DEF Inv, OutcomeInv, DyingInv, UploadInv, LiveInv, Responding,
     Uploading, Late, Failure, At, Goto, Leave, Return, Fail, setupVars,
     serverVars, uploadVars, replyVars, bodyVars, endVars
<1>1. CASE StartRequest
  <2>1. PICK c : Request(c)
    BY <1>1 DEF StartRequest
  <2> QED BY <2>1 DEF Request, NoResponse, NoOutcome
<1>2. CASE AppendHeader BY <1>2 DEF AppendHeader, Append
<1>3. CASE AppendBearer BY <1>3 DEF AppendBearer, Append
<1>4. CASE HeadersRefused BY <1>4 DEF HeadersRefused
<1>5. CASE NewRequest BY <1>5 DEF NewRequest
<1>6. CASE SetRequest BY <1>6 DEF SetRequest
<1>7. CASE TakeBody BY <1>7 DEF TakeBody
<1>8. CASE Dispatch BY <1>8 DEF Dispatch
<1>9. CASE OpenStream BY <1>9 DEF OpenStream
<1>10. CASE WriteChunk BY <1>10 DEF WriteChunk
<1>11. CASE CloseStream BY <1>11 DEF CloseStream
<1>12. CASE FinishBody BY <1>12 DEF FinishBody
<1>13. CASE Subscribe BY <1>13 DEF Subscribe
<1>14. CASE Block BY <1>14 DEF Block
<1>15. CASE GetResponse BY <1>15 DEF GetResponse
<1>16. CASE ReadHead BY <1>16 DEF ReadHead
<1>17. CASE ResponseHandler BY <1>17 DEF ResponseHandler, Stopped, ErrorStatus, BodyStage
<1>18. CASE ConsumeBody BY <1>18 DEF ConsumeBody
<1>19. CASE BodyStream BY <1>19 DEF BodyStream
<1>20. CASE ReadChunk BY <1>20 DEF ReadChunk
<1>21. CASE Deliver BY <1>21 DEF Deliver
<1>22. CASE BodyDone BY <1>22 DEF BodyDone
<1>23. CASE Destroy BY <1>23 DEF Destroy, clientVars, replyVars
<1>24. CASE ReturnResponse BY <1>24 DEF ReturnResponse
<1>25. CASE Rethrow BY <1>25 DEF Rethrow, NoOutcome
<1>26. CASE Answer BY <1>26 DEF Answer, clientVars, uploadVars
<1>27. CASE UNCHANGED vars
  BY <1>27 DEF vars, scopeVars, clientVars, serverVars, headerVars, bodyVars,
       uploadVars, replyVars
<1> QED BY <1>1, <1>2, <1>3, <1>4, <1>5, <1>6, <1>7, <1>8, <1>9, <1>10, <1>11,
     <1>12, <1>13, <1>14, <1>15, <1>16, <1>17, <1>18, <1>19, <1>20, <1>21,
     <1>22, <1>23, <1>24, <1>25, <1>26, <1>27 DEF Next, Client

(* The server takes a request for complete only with all of its body, and     *)
(* Request() reports a status or a body only for a request served whole: the  *)
(* write loop skips no byte for any length and any size of a write.           *)
THEOREM UploadWholeAlways == Spec => []UploadWhole
<1>1. Init => OutcomeInv
  BY DEF Init, ClientInit, OutcomeInv, NoOutcome
<1>2. Inv /\ OutcomeInv => UploadWhole
  BY DEF Inv, UploadInv, OutcomeInv, UploadWhole, Returned, Late
<1> QED BY <1>1, <1>2, OutcomeStep, Invariance, PTL DEF Spec

(* A success without a diagnostic has delivered all there was to deliver.    *)
Delivered == left = 0 /\ seen = sent
Whole(r) == r.err = "none" /\ r.success /\ call.verb # "HEAD" /\ handled #
     "stop"
CompleteInv ==
  /\ pc = "bodyDone" /\ readError = "empty" => Delivered
  /\ pc = "return" /\ resp.err = "none" => reply = "ok"
  /\ pc = "return" /\ Whole(resp) => Delivered
  /\ pc = "idle" /\ out.kind = "response" /\ Whole(out.resp) => Delivered

(* A clean end of the body stream is the only way to a success without a     *)
(* diagnostic, when a failed read always leaves one.                         *)
LEMMA CompleteStep ==
  Inv /\ Inv' /\ CompleteInv /\ OutcomeInv /\ "empty" \notin DebugStrings
    /\ [Next]_vars => CompleteInv'
<1> SUFFICES ASSUME Inv, Inv', CompleteInv, OutcomeInv,
                    "empty" \notin DebugStrings, [Next]_vars
              PROVE CompleteInv'
  OBVIOUS
<1> USE DEF Inv, CompleteInv, OutcomeInv, DyingInv, ReadInv, Delivered, Whole,
     Failure, At, Goto, Leave, Return, Fail, setupVars, serverVars, uploadVars,
     replyVars, bodyVars, endVars
<1>1. CASE StartRequest
  <2>1. PICK c : Request(c)
    BY <1>1 DEF StartRequest
  <2> QED BY <2>1 DEF Request, NoResponse, NoOutcome
<1>2. CASE AppendHeader BY <1>2 DEF AppendHeader, Append
<1>3. CASE AppendBearer BY <1>3 DEF AppendBearer, Append
<1>4. CASE HeadersRefused BY <1>4 DEF HeadersRefused
<1>5. CASE NewRequest BY <1>5 DEF NewRequest
<1>6. CASE SetRequest BY <1>6 DEF SetRequest
<1>7. CASE TakeBody BY <1>7 DEF TakeBody
<1>8. CASE Dispatch BY <1>8 DEF Dispatch
<1>9. CASE OpenStream BY <1>9 DEF OpenStream
<1>10. CASE WriteChunk BY <1>10 DEF WriteChunk
<1>11. CASE CloseStream BY <1>11 DEF CloseStream
<1>12. CASE FinishBody BY <1>12 DEF FinishBody
<1>13. CASE Subscribe BY <1>13 DEF Subscribe
<1>14. CASE Block BY <1>14 DEF Block
<1>15. CASE GetResponse BY <1>15 DEF GetResponse
<1>16. CASE ReadHead BY <1>16 DEF ReadHead
<1>17. CASE ResponseHandler
  <2>1. pc' \in {"consume", "return", "throw"} /\ reply' = "ok"
    BY <1>17 DEF ResponseHandler, Stopped, ErrorStatus, BodyStage
  <2>2. CASE ~HasHandlers BY <1>17, <2>1, <2>2 DEF ResponseHandler, Stopped, ErrorStatus, BodyStage
  <2>3. CASE HasHandlers /\ handled' = "threw" /\ resp.status >= 400
    <3>1. resp' = [resp EXCEPT !.success = FALSE]
      BY <1>17, <2>3 DEF ResponseHandler, Stopped, ErrorStatus
    <3>2. resp'.success = FALSE
      BY <3>1 DEF TypeOK, Responses
    <3> QED BY <2>1, <3>2
  <2>4. CASE HasHandlers /\ ~(handled' = "threw" /\ resp.status >= 400)
    BY <1>17, <2>1, <2>4 DEF ResponseHandler, Stopped, ErrorStatus
  <2> QED BY <2>2, <2>3, <2>4
<1>18. CASE ConsumeBody BY <1>18 DEF ConsumeBody
<1>19. CASE BodyStream BY <1>19 DEF BodyStream
<1>20. CASE ReadChunk
  <2>1. pc' = "bodyDone" /\ readError' = "empty" => left = 0 /\ left' = left /\
       sent' = sent
    BY <1>20 DEF ReadChunk
  <2>2. chunk = 0 /\ seen' = seen /\ seen + chunk = sent /\ seen \in Nat
    BY <1>20 DEF ReadChunk
  <2>3. pc' \in {"reading", "deliver", "bodyDone"}
    BY <1>20 DEF ReadChunk
  <2> QED BY <2>1, <2>2, <2>3
<1>21. CASE Deliver BY <1>21 DEF Deliver
<1>22. CASE BodyDone BY <1>22 DEF BodyDone
<1>23. CASE Destroy BY <1>23 DEF Destroy, clientVars, replyVars
<1>24. CASE ReturnResponse BY <1>24 DEF ReturnResponse
<1>25. CASE Rethrow BY <1>25 DEF Rethrow, NoOutcome
<1>26. CASE Answer
  <2>1. reply = "none" /\ pc # "idle"
    BY <1>26 DEF Answer, ScopeInv, OwnedInv, HandlesOwned
  <2> QED BY <1>26, <2>1 DEF Answer, clientVars, uploadVars
<1>27. CASE UNCHANGED vars
  BY <1>27 DEF vars, scopeVars, clientVars, serverVars, headerVars, bodyVars,
       uploadVars, replyVars
<1> QED BY <1>1, <1>2, <1>3, <1>4, <1>5, <1>6, <1>7, <1>8, <1>9, <1>10, <1>11,
     <1>12, <1>13, <1>14, <1>15, <1>16, <1>17, <1>18, <1>19, <1>20, <1>21,
     <1>22, <1>23, <1>24, <1>25, <1>26, <1>27 DEF Next, Client

(* With a host whose error.to-debug-string never returns the empty string, a  *)
(* body cut short never comes back from Request() as a success: that string   *)
(* is all the code remembers of a failed read.                                *)
THEOREM SpeakingHostSuffices ==
  ASSUME "empty" \notin DebugStrings
  PROVE  Spec => []NoSilentTruncation
<1>1. Init => CompleteInv /\ OutcomeInv
  BY DEF Init, ClientInit, OutcomeInv, CompleteInv, NoOutcome
<1>2. Inv /\ CompleteInv => NoSilentTruncation
  BY DEF CompleteInv, NoSilentTruncation, Returned, Delivered, Whole
<1>3. Inv /\ Inv' /\ CompleteInv /\ OutcomeInv /\ [Next]_vars
        => CompleteInv' /\ OutcomeInv'
  BY CompleteStep, OutcomeStep
<1> QED BY <1>1, <1>2, <1>3, Invariance, PTL DEF Spec

------------------------------------------------------------------------------
(* What Request() tells its caller, and what it tells the server; and that   *)
(* it implements RequestContract.                                            *)

(* The points of Request() before its response object holds a status.        *)
Setup   == {"headers", "headersDone", "setters", "takeBody", "dispatch"}
Sending == {"openStream", "writing", "finish", "subscribe", "block", "get",
            "head"}
Reading == {"consume", "bodyStream", "reading", "deliver", "bodyDone"}

------------------------------------------------------------------------------
(* An early diagnostic is that of a request which never left.                *)
EarlyInv ==
  /\ pc \in Setup \cup Sending => resp.err = "none"
  /\ EarlyFailureUnsent

LEMMA EarlyStep == Inv /\ Inv' /\ EarlyInv /\ [Next]_vars => EarlyInv'
<1> SUFFICES ASSUME Inv, Inv', EarlyInv, [Next]_vars PROVE EarlyInv'
  OBVIOUS
<1> USE DEF Inv, EarlyInv, EarlyFailureUnsent, Setup, Sending, UploadInv,
     DyingInv, Responding, Uploading, Failure, At, Goto, Leave, Return, Fail,
     setupVars, serverVars, uploadVars, replyVars, bodyVars, endVars
<1>1. CASE StartRequest
  <2>1. PICK c : Request(c)
    BY <1>1 DEF StartRequest
  <2> QED BY <2>1 DEF Request, NoResponse
<1>2. CASE AppendHeader BY <1>2 DEF AppendHeader, Append
<1>3. CASE AppendBearer BY <1>3 DEF AppendBearer, Append
<1>4. CASE HeadersRefused BY <1>4 DEF HeadersRefused
<1>5. CASE NewRequest BY <1>5 DEF NewRequest
<1>6. CASE SetRequest BY <1>6 DEF SetRequest
<1>7. CASE TakeBody BY <1>7 DEF TakeBody
<1>8. CASE Dispatch BY <1>8 DEF Dispatch
<1>9. CASE OpenStream BY <1>9 DEF OpenStream
<1>10. CASE WriteChunk BY <1>10 DEF WriteChunk
<1>11. CASE CloseStream BY <1>11 DEF CloseStream
<1>12. CASE FinishBody BY <1>12 DEF FinishBody
<1>13. CASE Subscribe BY <1>13 DEF Subscribe
<1>14. CASE Block BY <1>14 DEF Block
<1>15. CASE GetResponse BY <1>15 DEF GetResponse
<1>16. CASE ReadHead BY <1>16 DEF ReadHead
<1>17. CASE ResponseHandler
  <2>1. pc' \in {"consume", "return", "throw"} /\ phase' = phase
    BY <1>17 DEF ResponseHandler, Stopped, ErrorStatus, BodyStage
  <2>2. resp' \in {resp, [resp EXCEPT !.success = FALSE]}
    BY <1>17 DEF ResponseHandler, Stopped, ErrorStatus
  <2>3. resp'.err = resp.err
    BY <2>2 DEF TypeOK, Responses
  <2> QED BY <2>1, <2>3
<1>18. CASE ConsumeBody BY <1>18 DEF ConsumeBody
<1>19. CASE BodyStream BY <1>19 DEF BodyStream
<1>20. CASE ReadChunk BY <1>20 DEF ReadChunk
<1>21. CASE Deliver BY <1>21 DEF Deliver
<1>22. CASE BodyDone BY <1>22 DEF BodyDone
<1>23. CASE Destroy BY <1>23 DEF Destroy, clientVars
<1>24. CASE ReturnResponse BY <1>24 DEF ReturnResponse
<1>25. CASE Rethrow BY <1>25 DEF Rethrow
<1>26. CASE Answer BY <1>26 DEF Answer, clientVars
<1>27. CASE UNCHANGED vars BY <1>27 DEF vars, clientVars
<1> QED BY <1>1, <1>2, <1>3, <1>4, <1>5, <1>6, <1>7, <1>8, <1>9, <1>10, <1>11,
     <1>12, <1>13, <1>14, <1>15, <1>16, <1>17, <1>18, <1>19, <1>20, <1>21,
     <1>22, <1>23, <1>24, <1>25, <1>26, <1>27 DEF Next, Client

(* A failure Request() reports as one of header, build, body or dispatch is   *)
(* of a request the server has not seen, so that repeating it is harmless.    *)
THEOREM EarlyFailureHarmless == Spec => []EarlyFailureUnsent
<1>1. Init => EarlyInv
  BY DEF Init, ClientInit, ServerInit, EarlyInv, EarlyFailureUnsent, NoResponse
<1>2. EarlyInv => EarlyFailureUnsent
  BY DEF EarlyInv
<1> QED BY <1>1, <1>2, EarlyStep, Invariance, PTL DEF Spec

------------------------------------------------------------------------------
(* The headers on the wire.                                                  *)
Named    == {m \in Names : call.headers[m] # "absent"}
Pairs(S) == {<<n, call.headers[n]>> : n \in S}
Token    == IF call.bearer /\ call.headers["Authorization"] = "absent"
            THEN {<<"Authorization", "bearer">>} ELSE {}
Wanted   == Pairs(Named) \cup Token

(* The loop has appended what it has taken from the map; past the bearer      *)
(* token, with no error, the fields are all there.                           *)
HeaderInv ==
  /\ pc = "headers" => todo \subseteq Named
  /\ pc = "headers" /\ ~headerError => fields = Pairs(Named \ todo)
  /\ pc = "headersDone" /\ ~headerError => fields = Wanted
  /\ pc \in {"setters", "takeBody", "dispatch"} => fields = Wanted
  /\ phase # "none" => wire = Wanted

(* What the caller's map and the token ask for is settled by the call.       *)
LEMMA WantedFixed ==
  ASSUME call' = call
  PROVE  Wanted' = Wanted /\ Named' = Named /\ \A S : Pairs(S)' = Pairs(S)
BY DEF Wanted, Named, Pairs, Token

LEMMA HeaderStep == Inv /\ Inv' /\ HeaderInv /\ [Next]_vars => HeaderInv'
<1> SUFFICES ASSUME Inv, Inv', HeaderInv, [Next]_vars PROVE HeaderInv'
  OBVIOUS
<1> USE DEF Inv, UploadInv, Responding, Uploading, At, Goto, Leave, Return,
     Fail, setupVars, headerVars, serverVars, uploadVars, replyVars, bodyVars,
     endVars
<1>1. CASE StartRequest
  <2>1. PICK c : Request(c)
    BY <1>1 DEF StartRequest
  <2>2. pc' = "headers" /\ phase' = "none" /\ fields' = {} /\ todo' = Named'
    BY <2>1 DEF Request, Named
  <2>3. Pairs(Named \ todo)' = {}
    BY <2>2 DEF Pairs
  <2> QED BY <2>2, <2>3 DEF HeaderInv
<1>2. CASE AppendHeader
  <2>1. PICK n \in todo : Append(n, call.headers[n]) /\ todo' = todo \ {n}
    BY <1>2 DEF AppendHeader
  <2>2. pc = "headers" /\ pc' = "headers" /\ ~headerError /\ call' = call
         /\ phase' = "none"
    BY <1>2, <2>1 DEF AppendHeader, Append
  <2>3. Pairs(Named \ (todo \ {n})) = Pairs(Named \ todo) \cup
         {<<n, call.headers[n]>>}
    BY <2>1, <2>2 DEF HeaderInv, Pairs
  <2>4. ~headerError' => fields' = Pairs(Named \ todo')
    BY <2>1, <2>2, <2>3 DEF HeaderInv, Append
  <2>5. Pairs(Named \ todo)' = Pairs(Named \ todo') /\ Named' = Named
    BY <2>2 DEF Pairs, Named
  <2> QED BY <2>1, <2>2, <2>4, <2>5 DEF HeaderInv
<1>3. CASE AppendBearer
  <2>1. pc = "headers" /\ pc' = "headersDone" /\ call' = call /\ phase' = "none"
    BY <1>3 DEF AppendBearer, Append
  <2>2. ~headerError' => fields' = Pairs(Named \ todo) \cup Token /\ todo = {}
    BY <1>3 DEF AppendBearer, Append, HeaderInv, Token
  <2>3. ~headerError' => fields' = Wanted
    BY <2>2 DEF Wanted, Named
  <2> QED BY <2>1, <2>3, WantedFixed DEF HeaderInv
<1>4. CASE HeadersRefused
  BY <1>4, WantedFixed DEF HeaderInv, HeadersRefused
<1>5. CASE NewRequest BY <1>5, WantedFixed DEF HeaderInv, NewRequest
<1>6. CASE SetRequest BY <1>6, WantedFixed DEF HeaderInv, SetRequest
<1>7. CASE TakeBody BY <1>7, WantedFixed DEF HeaderInv, TakeBody
<1>8. CASE Dispatch BY <1>8, WantedFixed DEF HeaderInv, Dispatch
<1>9. CASE OpenStream BY <1>9, WantedFixed DEF HeaderInv, OpenStream
<1>10. CASE WriteChunk BY <1>10, WantedFixed DEF HeaderInv, WriteChunk
<1>11. CASE CloseStream BY <1>11, WantedFixed DEF HeaderInv, CloseStream
<1>12. CASE FinishBody BY <1>12, WantedFixed DEF HeaderInv, FinishBody
<1>13. CASE Subscribe BY <1>13, WantedFixed DEF HeaderInv, Subscribe
<1>14. CASE Block BY <1>14, WantedFixed DEF HeaderInv, Block
<1>15. CASE GetResponse BY <1>15, WantedFixed DEF HeaderInv, GetResponse
<1>16. CASE ReadHead BY <1>16, WantedFixed DEF HeaderInv, ReadHead
<1>17. CASE ResponseHandler
  BY <1>17, WantedFixed
     DEF HeaderInv, ResponseHandler, Stopped, ErrorStatus, BodyStage
<1>18. CASE ConsumeBody BY <1>18, WantedFixed DEF HeaderInv, ConsumeBody
<1>19. CASE BodyStream BY <1>19, WantedFixed DEF HeaderInv, BodyStream
<1>20. CASE ReadChunk BY <1>20, WantedFixed DEF HeaderInv, ReadChunk
<1>21. CASE Deliver BY <1>21, WantedFixed DEF HeaderInv, Deliver
<1>22. CASE BodyDone BY <1>22, WantedFixed DEF HeaderInv, BodyDone
<1>23. CASE Destroy
  <2>1. UNCHANGED <<pc, call, todo, headerError, fields, wire>>
         /\ (phase' # "none" => phase # "none")
    BY <1>23 DEF Destroy, clientVars
  <2> QED BY <2>1, WantedFixed DEF HeaderInv, Named, Pairs
<1>24. CASE ReturnResponse BY <1>24, WantedFixed DEF HeaderInv, ReturnResponse
<1>25. CASE Rethrow BY <1>25, WantedFixed DEF HeaderInv, Rethrow
<1>26. CASE Answer
  BY <1>26, WantedFixed DEF HeaderInv, Answer, clientVars, Named, Pairs
<1>27. CASE UNCHANGED vars
  BY <1>27, WantedFixed DEF HeaderInv, vars, clientVars, Named, Pairs
<1> QED BY <1>1, <1>2, <1>3, <1>4, <1>5, <1>6, <1>7, <1>8, <1>9, <1>10, <1>11,
     <1>12, <1>13, <1>14, <1>15, <1>16, <1>17, <1>18, <1>19, <1>20, <1>21,
     <1>22, <1>23, <1>24, <1>25, <1>26, <1>27 DEF Next, Client

(* Whatever headers the host refuses, a request that leaves has every header  *)
(* of the caller's map once, and the bearer token exactly when it is wanted.  *)
THEOREM HeadersComplete == Spec => []WireHeaders
<1>1. Init => HeaderInv
  BY DEF Init, ClientInit, ServerInit, HeaderInv
<1>2. HeaderInv => WireHeaders
  BY DEF HeaderInv, WireHeaders, Wanted, Pairs, Named, Token
<1> QED BY <1>1, <1>2, HeaderStep, Invariance, PTL DEF Spec

------------------------------------------------------------------------------
(* What the response handler said, and what the response object says.        *)
AsReceived == [status |-> status, success |-> TRUE, err |-> "none"]
AsError    == [status |-> status, success |-> FALSE, err |-> "none"]
FromServer(r) ==
  /\ handled = "threw" => r = AsError /\ status >= 400
  /\ r.err \in {"none", "read"} => r.status = status
  /\ r.err = "none" /\ ~r.success => handled = "threw"
  /\ r.err \in {"none", "read"} \/ handled = "threw" => reply = "ok"

ReportInv ==
  /\ pc \in Setup \cup Sending \cup {"handler"} => handled = "none"
  /\ pc \in Reading => handled \in {"none", "continue"}
                         /\ (HasHandlers => handled = "continue")
  /\ pc \in Reading \cup {"handler"} => resp = AsReceived
  /\ pc \in Reading \cup {"head", "handler"} => reply = "ok"
  /\ pc = "return" => FromServer(resp)
  /\ pc = "throw" => reply = "ok" /\ (handled = "threw" => status < 400)
  /\ pc = "idle" /\ out.kind = "response" => FromServer(out.resp)
  /\ pc = "idle" /\ out.kind # "response"
       => (handled = "threw" => out.kind = "threw" /\ status < 400)

LEMMA StartIsRequest == StartRequest => \E c : Request(c)
BY DEF StartRequest

LEMMA StatusIsNat == ASSUME Inv PROVE status \in Nat
<1>1. status \in Statuses \cup {0}
  BY DEF Inv, TypeOK
<1> QED BY <1>1, StatusesAssumption

(* A call that is over is not answered any more.                             *)
LEMMA AnswerAwaited ==
  ASSUME Inv, Answer
  PROVE  reply = "none" /\ pc # "idle" /\ "future" \in held
BY DEF Inv, ScopeInv, OwnedInv, DyingInv, Answer

LEMMA ReportStep == Inv /\ Inv' /\ ReportInv /\ [Next]_vars => ReportInv'
<1> SUFFICES ASSUME Inv, Inv', ReportInv, [Next]_vars PROVE ReportInv'
  OBVIOUS
<1> USE DEF ReportInv, FromServer, AsReceived, AsError, Setup, Sending, Reading,
     Failure, HasHandlers, At, Goto, Leave, Return, Fail, setupVars, serverVars,
     uploadVars, replyVars, bodyVars, endVars
<1>0. DyingInv /\ resp \in Responses
  BY DEF Inv, TypeOK
<1>1. CASE StartRequest
  <2>1. PICK c : Request(c)
    BY <1>1, StartIsRequest
  <2> QED BY <2>1 DEF Request
<1>2. CASE AppendHeader BY <1>2 DEF AppendHeader, Append
<1>3. CASE AppendBearer BY <1>3 DEF AppendBearer, Append
<1>4. CASE HeadersRefused BY <1>4 DEF HeadersRefused
<1>5. CASE NewRequest BY <1>5 DEF NewRequest
<1>6. CASE SetRequest BY <1>6 DEF SetRequest
<1>7. CASE TakeBody BY <1>7 DEF TakeBody
<1>8. CASE Dispatch BY <1>8 DEF Dispatch
<1>9. CASE OpenStream BY <1>9 DEF OpenStream
<1>10. CASE WriteChunk BY <1>10 DEF WriteChunk
<1>11. CASE CloseStream BY <1>11 DEF CloseStream
<1>12. CASE FinishBody BY <1>12 DEF FinishBody
<1>13. CASE Subscribe BY <1>13 DEF Subscribe
<1>14. CASE Block BY <1>14 DEF Block
<1>15. CASE GetResponse BY <1>15 DEF GetResponse
<1>16. CASE ReadHead BY <1>16 DEF ReadHead
<1>17. CASE ResponseHandler
  <2>1. /\ handled = "none" /\ resp = AsReceived /\ reply = "ok"
        /\ status' = status /\ reply' = reply
    BY <1>17 DEF ResponseHandler
  <2>2. CASE ~HasHandlers
    BY <1>17, <2>1, <2>2 DEF ResponseHandler, BodyStage
  <2>3. CASE HasHandlers /\ handled' = "threw" /\ status >= 400
    <3>1. resp' = [resp EXCEPT !.success = FALSE] /\ pc' = "return"
      BY <1>17, <2>1, <2>3 DEF ResponseHandler, Stopped, ErrorStatus
    <3>2. resp' = AsError'
      BY <2>1, <3>1
    <3> QED BY <2>1, <2>3, <3>1, <3>2
  <2>4. CASE HasHandlers /\ handled' = "threw" /\ ~(status >= 400)
    <3>1. pc' = "throw"
      BY <1>17, <2>1, <2>4 DEF ResponseHandler, Stopped, ErrorStatus
    <3>2. status \in Nat
      BY StatusIsNat
    <3> QED BY <2>1, <2>4, <3>1, <3>2
  <2>5. CASE HasHandlers /\ handled' # "threw"
    BY <1>17, <2>1, <2>5 DEF ResponseHandler, Stopped, ErrorStatus
  <2> QED BY <2>2, <2>3, <2>4, <2>5
<1>18. CASE ConsumeBody BY <1>18 DEF ConsumeBody
<1>19. CASE BodyStream BY <1>19 DEF BodyStream
<1>20. CASE ReadChunk BY <1>20 DEF ReadChunk
<1>21. CASE Deliver BY <1>21 DEF Deliver
<1>22. CASE BodyDone
  <2>1. resp' = IF readError # "empty"
                THEN [resp EXCEPT !.success = FALSE, !.err = "read"] ELSE resp
    BY <1>22 DEF BodyDone
  <2> QED BY <1>22, <2>1 DEF BodyDone
<1>23. CASE Destroy BY <1>23 DEF Destroy, clientVars
<1>24. CASE ReturnResponse BY <1>24 DEF ReturnResponse
<1>25. CASE Rethrow BY <1>25 DEF Rethrow, NoOutcome
<1>26. CASE Answer BY <1>26, AnswerAwaited DEF Answer, clientVars
<1>27. CASE UNCHANGED vars BY <1>27 DEF vars, clientVars
<1> QED BY <1>1, <1>2, <1>3, <1>4, <1>5, <1>6, <1>7, <1>8, <1>9, <1>10, <1>11,
     <1>12, <1>13, <1>14, <1>15, <1>16, <1>17, <1>18, <1>19, <1>20, <1>21,
     <1>22, <1>23, <1>24, <1>25, <1>26, <1>27 DEF Next, Client

LEMMA ReportAlways == Spec => []ReportInv
<1>1. Init => ReportInv
  BY DEF Init, ClientInit, ReportInv, Setup, Sending, Reading, NoOutcome
<1> QED BY <1>1, ReportStep, Invariance, PTL DEF Spec

(* An error status reaches DuckDB as that status whatever the response       *)
(* handler throws at it, a throw on any other propagates, and a response      *)
(* without a diagnostic, or cut short in its body, has the server's status.   *)
THEOREM StatusAlwaysReported == Spec => []StatusReported
<1>1. Inv /\ ReportInv => StatusReported
  BY StatusIsNat DEF ReportInv, FromServer, AsError, StatusReported, Returned
<1> QED BY <1>1, ReportAlways, Invariance, PTL

(* Only the delivery of a chunk counts it as seen.                           *)
LEMMA SeenOnlyDelivered ==
  ASSUME Inv, Next, seen' > seen
  PROVE  Deliver
<1> USE DEF setupVars, bodyVars, endVars, serverVars, clientVars
<1>1. seen \in Nat
  BY DEF Inv, ReadInv
<1>2. CASE StartRequest
  BY <1>1, <1>2, StartIsRequest DEF Request
<1>3. CASE AppendHeader \/ AppendBearer \/ HeadersRefused \/ NewRequest
  BY <1>1, <1>3 DEF AppendHeader, AppendBearer, Append, HeadersRefused, NewRequest
<1>4. CASE SetRequest \/ TakeBody \/ Dispatch \/ OpenStream \/ WriteChunk
  BY <1>1, <1>4 DEF SetRequest, TakeBody, Dispatch, OpenStream, WriteChunk
<1>5. CASE CloseStream \/ FinishBody \/ Subscribe \/ Block \/ GetResponse
  BY <1>1, <1>5 DEF CloseStream, FinishBody, Subscribe, Block, GetResponse
<1>6. CASE ReadHead \/ ResponseHandler \/ ConsumeBody \/ BodyStream \/ ReadChunk
  BY <1>1, <1>6 DEF ReadHead, ResponseHandler, ConsumeBody, BodyStream, ReadChunk
<1>7. CASE BodyDone \/ Destroy \/ ReturnResponse \/ Rethrow \/ Answer
  BY <1>1, <1>7 DEF BodyDone, Destroy, ReturnResponse, Rethrow, Answer
<1> QED BY <1>2, <1>3, <1>4, <1>5, <1>6, <1>7 DEF Next, Client

(* Where the verb has handlers no chunk of the body is delivered before the   *)
(* response handler has agreed to the response.                              *)
THEOREM ConsentPrecedesDelivery == Spec => DeliveredOnConsent
<1>1. Inv /\ ReportInv /\ [Next]_vars
        => [seen' > seen /\ HasHandlers => handled = "continue"]_vars
  BY SeenOnlyDelivered DEF Deliver, At, ReportInv, Reading
<1> QED BY <1>1, ReportAlways, Invariance, PTL DEF Spec, DeliveredOnConsent

------------------------------------------------------------------------------
(* The exchange is on its way from the moment there is a future for it, and   *)
(* a call in progress has no outcome yet.                                    *)
CallInv ==
  /\ "future" \in held => phase # "none"
  /\ pc # "idle" => out = NoOutcome

LEMMA CallStep == Inv /\ Inv' /\ CallInv /\ [Next]_vars => CallInv'
<1> SUFFICES ASSUME Inv, Inv', CallInv, [Next]_vars PROVE CallInv'
  OBVIOUS
<1> USE DEF CallInv, At, Goto, Leave, Return, Fail, Keep, Exchange, setupVars,
     serverVars, uploadVars, replyVars, bodyVars, endVars
<1>0. DyingInv /\ OwnedInv
  BY DEF Inv, ScopeInv
<1>1. CASE StartRequest
  <2>1. PICK c : Request(c)
    BY <1>1, StartIsRequest
  <2>2. pc = "idle" /\ held = {}
    BY <1>0, <2>1 DEF Request, DyingInv, OwnedInv
  <2> QED BY <2>1, <2>2 DEF Request
<1>2. CASE AppendHeader BY <1>2 DEF AppendHeader, Append
<1>3. CASE AppendBearer BY <1>3 DEF AppendBearer, Append
<1>4. CASE HeadersRefused BY <1>4 DEF HeadersRefused
<1>5. CASE NewRequest BY <1>5 DEF NewRequest
<1>6. CASE SetRequest BY <1>6 DEF SetRequest
<1>7. CASE TakeBody BY <1>7 DEF TakeBody
<1>8. CASE Dispatch BY <1>8 DEF Dispatch
<1>9. CASE OpenStream BY <1>9 DEF OpenStream
<1>10. CASE WriteChunk BY <1>10 DEF WriteChunk
<1>11. CASE CloseStream BY <1>11 DEF CloseStream
<1>12. CASE FinishBody BY <1>12 DEF FinishBody
<1>13. CASE Subscribe BY <1>13 DEF Subscribe
<1>14. CASE Block BY <1>14 DEF Block
<1>15. CASE GetResponse BY <1>15 DEF GetResponse
<1>16. CASE ReadHead BY <1>16 DEF ReadHead
<1>17. CASE ResponseHandler BY <1>17 DEF ResponseHandler, Stopped
<1>18. CASE ConsumeBody BY <1>18 DEF ConsumeBody
<1>19. CASE BodyStream BY <1>19 DEF BodyStream
<1>20. CASE ReadChunk BY <1>20 DEF ReadChunk
<1>21. CASE Deliver BY <1>21 DEF Deliver
<1>22. CASE BodyDone BY <1>22 DEF BodyDone
<1>23. CASE Destroy
  <2>1. held' \subseteq held
    BY <1>23 DEF Destroy, Destruct, DropOwn
  <2> QED BY <1>23, <2>1 DEF Destroy, clientVars
<1>24. CASE ReturnResponse BY <1>24 DEF ReturnResponse
<1>25. CASE Rethrow BY <1>25 DEF Rethrow
<1>26. CASE Answer BY <1>26 DEF Answer, clientVars, scopeVars
<1>27. CASE UNCHANGED vars BY <1>27 DEF vars, clientVars, scopeVars
<1> QED BY <1>1, <1>2, <1>3, <1>4, <1>5, <1>6, <1>7, <1>8, <1>9, <1>10, <1>11,
     <1>12, <1>13, <1>14, <1>15, <1>16, <1>17, <1>18, <1>19, <1>20, <1>21,
     <1>22, <1>23, <1>24, <1>25, <1>26, <1>27 DEF Next, Client

LEMMA CallAlways == Spec => []CallInv
<1>1. Init => CallInv
  BY DEF Init, ScopeInit, ClientInit, CallInv
<1> QED BY <1>1, CallStep, Invariance, PTL DEF Spec

------------------------------------------------------------------------------
(* The refinement: what the contract sees of a state of Request().           *)
Missing == ~(reply = "ok" /\ left = 0 /\ seen = sent)
Seen    == <<pc # "idle", Served, seen, Missing, Verdict>>

LEMMA NoVerdictYet == ASSUME out = NoOutcome PROVE Verdict = "none"
BY DEF Verdict, NoOutcome

LEMMA ServedValue ==
  ASSUME TypeOK
  PROVE  /\ phase = "none" => Served = "none"
         /\ phase = "receiving" => Served = "partial"
         /\ phase = "complete" => Served = "whole"
         /\ phase = "corrupted" => Served = "torn"
         /\ phase # "none" => Served # "none"
BY DEF TypeOK, Served

(* A step inside the call that changes neither the server's view, nor what    *)
(* the host has of the answer, nor what DuckDB has, is hidden.               *)
Hidden == /\ pc # "idle" /\ pc' # "idle"
          /\ phase' = phase /\ seen' = seen /\ Missing' = Missing

LEMMA HiddenStutters ==
  ASSUME CallInv, CallInv', Hidden
  PROVE  Seen' = Seen
<1>1. Verdict = "none" /\ Verdict' = "none"
  BY NoVerdictYet DEF CallInv, Hidden, Verdict, NoOutcome
<1>2. Served' = Served
  BY DEF Hidden, Served
<1> QED BY <1>1, <1>2 DEF Hidden, Seen

(* The steps of the setup, of the response head and of leaving a scope.      *)
Inside == \/ AppendHeader \/ AppendBearer \/ HeadersRefused \/ NewRequest
          \/ SetRequest \/ TakeBody \/ OpenStream \/ WriteChunk \/ CloseStream
          \/ Subscribe \/ Block \/ GetResponse \/ ReadHead \/ ResponseHandler
          \/ ConsumeBody \/ BodyStream \/ BodyDone

LEMMA InsideHidden ==
  ASSUME Inside
  PROVE  Hidden
<1> USE DEF Hidden, Missing, At, Goto, Leave, Return, Fail, setupVars, bodyVars,
     endVars, serverVars, uploadVars, replyVars
<1>1. CASE AppendHeader \/ AppendBearer
  BY <1>1 DEF AppendHeader, AppendBearer, Append
<1>2. CASE HeadersRefused \/ NewRequest \/ SetRequest \/ TakeBody
  BY <1>2 DEF HeadersRefused, NewRequest, SetRequest, TakeBody
<1>3. CASE OpenStream \/ WriteChunk \/ CloseStream
  BY <1>3 DEF OpenStream, WriteChunk, CloseStream
<1>4. CASE Subscribe \/ Block \/ GetResponse \/ ReadHead
  BY <1>4 DEF Subscribe, Block, GetResponse, ReadHead
<1>5. CASE ResponseHandler
  BY <1>5 DEF ResponseHandler, Stopped, BodyStage
<1>6. CASE ConsumeBody \/ BodyStream \/ BodyDone
  BY <1>6 DEF ConsumeBody, BodyStream, BodyDone
<1> QED BY <1>1, <1>2, <1>3, <1>4, <1>5, <1>6 DEF Inside

(* What a call relies on while it goes on.                                   *)
CallFacts == Inv /\ OutcomeInv /\ CallInv /\ ReportInv

LEMMA BeginsCall ==
  ASSUME CallFacts, StartRequest
  PROVE  Contract!Begin
<1>1. PICK c : Request(c)
  BY StartIsRequest
<1>2. /\ pc = "idle" /\ pc' = "headers" /\ phase' = "none" /\ seen' = 0
      /\ reply' = "none" /\ out' = NoOutcome
  BY <1>1 DEF Request, At, Goto
<1>3. Served' = "none" /\ Verdict' = "none"
  BY <1>2 DEF Served, Verdict, NoOutcome
<1> QED BY <1>2, <1>3 DEF Contract!Begin

(* The server's view changes with the dispatch, the end of the upload and    *)
(* the destructor of an outgoing-body.                                       *)
LEMMA ServesRequest ==
  ASSUME CallFacts, CallInv', pc # "idle", pc' # "idle", seen' = seen,
         Missing' = Missing,
         \/ phase = "none" /\ phase' \in {"receiving", "complete"}
         \/ phase = "receiving" /\ phase' \in {"complete", "corrupted"}
  PROVE  Contract!Serve
<1>1. Verdict = "none" /\ Verdict' = "none"
  BY DEF CallFacts, CallInv, Verdict, NoOutcome
<1>2. \/ Served = "none" /\ Served' \in {"partial", "whole"}
      \/ Served = "partial" /\ Served' \in {"whole", "torn"}
  BY DEF Served
<1>3. (reply = "ok" /\ left = 0 /\ seen = sent)'
        = (reply = "ok" /\ left = 0 /\ seen = sent)
  BY DEF Missing
<1> QED BY <1>1, <1>2, <1>3 DEF Contract!Serve

(* The host has an answer with an empty body, or takes an empty chunk as the *)
(* last of the body.                                                         *)
LEMMA LearnsEnd ==
  ASSUME CallFacts, CallInv', pc # "idle", pc' # "idle", seen' = seen,
         phase' = phase, phase # "none", Missing, ~Missing'
  PROVE  Contract!Learn
<1>1. Verdict = "none" /\ Verdict' = "none"
  BY DEF CallFacts, CallInv, Verdict, NoOutcome
<1>2. Served' = Served /\ Served # "none"
  BY ServedValue DEF Served, CallFacts, Inv
<1> QED BY <1>1, <1>2 DEF Contract!Learn, Missing

LEMMA DeliversChunk ==
  ASSUME CallFacts, CallInv', Deliver, seen' # seen
  PROVE  Contract!Deliver
<1>1. /\ pc = "deliver" /\ pc' = "reading" /\ phase' = phase /\ seen' = seen + 1
      /\ phase = "complete"
  BY DEF Deliver, At, Goto, CallFacts, Inv, UploadInv, Responding, serverVars,
     uploadVars
<1>2. Verdict = "none" /\ Verdict' = "none"
  BY <1>1 DEF CallFacts, CallInv, Verdict, NoOutcome
<1>3. Served' = "whole" /\ Served = "whole"
  BY <1>1 DEF Served
<1>4. seen # sent
  BY <1>1 DEF CallFacts, Inv, ReadInv
<1> QED BY <1>1, <1>2, <1>3, <1>4 DEF Contract!Deliver

(* Only a request served whole is given a verdict that is not retryable, and *)
(* `ok` only a response that is whole too.                                   *)
LEMMA EndsCall ==
  ASSUME CallFacts, CompleteInv, ReturnResponse
  PROVE  Contract!End
<1>1. /\ pc = "return" /\ pc' = "idle" /\ out'.kind = "response"
      /\ out'.resp = resp
      /\ UNCHANGED <<phase, seen, reply, left, sent, handled, call>>
  BY DEF ReturnResponse, At, Goto, setupVars, serverVars, uploadVars, replyVars,
     bodyVars
<1>2. CASE resp.err # "none"
  <2>1. Verdict' = "retryable"
    BY <1>1, <1>2 DEF Verdict
  <2> QED BY <1>1, <2>1 DEF Contract!End, Served
<1>3. CASE resp.err = "none"
  <2>1. phase = "complete"
    BY <1>1, <1>3 DEF CallFacts, OutcomeInv, Late
  <2>2. Served = "whole" /\ Served' = Served
    BY <1>1, <2>1 DEF Served
  <2>3. CASE call.verb = "HEAD" \/ handled \in {"stop", "threw"}
    <3>1. Verdict' = "status"
      BY <1>1, <1>3, <2>3 DEF Verdict
    <3> QED BY <1>1, <2>2, <3>1 DEF Contract!End
  <2>4. CASE ~(call.verb = "HEAD" \/ handled \in {"stop", "threw"})
    <3>1. Verdict' = "ok"
      BY <1>1, <1>3, <2>4 DEF Verdict
    <3>2. resp.success
      BY <1>1, <1>3, <2>4 DEF CallFacts, ReportInv, FromServer, Inv, TypeOK,
         Responses
    <3>3. reply = "ok" /\ left = 0 /\ seen = sent
      BY <1>1, <1>3, <2>4, <3>2 DEF CompleteInv, Whole, Delivered
    <3> QED BY <1>1, <2>2, <3>1, <3>3 DEF Contract!End
  <2> QED BY <2>3, <2>4
<1> QED BY <1>2, <1>3

LEMMA EndsInThrow ==
  ASSUME CallFacts, Rethrow
  PROVE  Contract!End
<1>1. /\ pc = "throw" /\ pc' = "idle" /\ out'.kind = "threw"
      /\ UNCHANGED <<phase, seen, reply, left, sent>>
  BY DEF Rethrow, NoOutcome, At, Goto, setupVars, serverVars, uploadVars,
     replyVars, bodyVars
<1>2. phase = "complete"
  BY <1>1 DEF CallFacts, Inv, UploadInv
<1>3. Served = "whole" /\ Served' = Served /\ Verdict' = "threw"
  BY <1>1, <1>2 DEF Served, Verdict
<1> QED BY <1>1, <1>3 DEF Contract!End

LEMMA ContractStep ==
  CallFacts /\ CallInv' /\ CompleteInv /\ [Next]_vars
    => [Contract!Next]_(Contract!contractVars)
<1> SUFFICES ASSUME CallFacts, CallInv', CompleteInv, [Next]_vars
              PROVE  Contract!Next \/ Seen' = Seen
  BY DEF Contract!contractVars, Seen, Missing
<1> USE DEF Contract!Next
<1>0. Inv /\ CallInv /\ DyingInv /\ UploadInv /\ ReadInv /\ TypeOK
  BY DEF CallFacts, Inv
<1>1. CASE StartRequest BY <1>1, BeginsCall
<1>2. CASE Inside BY <1>0, <1>2, InsideHidden, HiddenStutters
<1>3. CASE Dispatch
  <2>1. /\ pc = "dispatch" /\ pc' # "idle" /\ seen' = seen /\ Missing' = Missing
        /\ phase = "none" /\ phase' \in {"none", "receiving", "complete"}
    BY <1>0, <1>3 DEF Dispatch, At, Goto, Leave, Missing, bodyVars, replyVars,
       uploadVars, UploadInv
  <2>2. CASE phase' = "none"
    BY <1>0, <2>1, <2>2, HiddenStutters DEF Hidden
  <2>3. CASE phase' # "none"
    BY <2>1, <2>3, ServesRequest
  <2> QED BY <2>2, <2>3
<1>4. CASE FinishBody
  <2>1. /\ pc = "finish" /\ pc' # "idle" /\ seen' = seen /\ Missing' = Missing
        /\ phase = "receiving" /\ phase' \in {"complete", "corrupted"}
    BY <1>0, <1>4 DEF FinishBody, At, Goto, Leave, Missing, bodyVars, replyVars,
       UploadInv, Uploading
  <2> QED BY <2>1, ServesRequest
<1>5. CASE ReadChunk
  <2>1. /\ pc = "reading" /\ pc' # "idle" /\ seen' = seen /\ phase' = phase
        /\ phase = "complete" /\ chunk = 0
    BY <1>0, <1>5 DEF ReadChunk, At, Goto, uploadVars, UploadInv, Responding,
       ReadInv
  <2>2. CASE Missing' = Missing
    BY <1>0, <2>1, <2>2, HiddenStutters DEF Hidden
  <2>3. CASE Missing' # Missing
    <3>1. left > 0 /\ reply' = reply
      BY <1>5, <2>1, <2>3 DEF ReadChunk, Missing
    <3>2. Missing /\ ~Missing'
      BY <1>0, <2>3, <3>1 DEF Missing, ReadInv
    <3> QED BY <2>1, <3>2, LearnsEnd
  <2> QED BY <2>2, <2>3
<1>6. CASE Deliver
  <2>1. CASE seen' = seen
    <3>1. Hidden
      BY <1>6, <2>1 DEF Deliver, Hidden, Missing, At, Goto, Leave, serverVars,
         uploadVars, replyVars
    <3> QED BY <1>0, <3>1, HiddenStutters
  <2>2. CASE seen' # seen
    BY <1>6, <2>2, DeliversChunk
  <2> QED BY <2>1, <2>2
<1>7. CASE Destroy
  <2>1. /\ pc # "idle" /\ pc' = pc /\ seen' = seen /\ Missing' = Missing
        /\ \/ phase' = phase
           \/ phase = "receiving" /\ phase' = "corrupted"
    BY <1>0, <1>7 DEF Destroy, DyingInv, Missing, clientVars, bodyVars, replyVars
  <2>2. CASE phase' = phase
    BY <1>0, <2>1, <2>2, HiddenStutters DEF Hidden
  <2>3. CASE phase = "receiving" /\ phase' = "corrupted"
    BY <2>1, <2>3, ServesRequest
  <2> QED BY <2>1, <2>2, <2>3
<1>8. CASE ReturnResponse BY <1>8, EndsCall
<1>9. CASE Rethrow BY <1>9, EndsInThrow
<1>10. CASE Answer
  <2>1. reply = "none" /\ pc # "idle" /\ phase # "none"
    BY <1>0, <1>10, AnswerAwaited DEF CallInv
  <2>2. pc' = pc /\ seen' = seen /\ phase' = phase /\ Missing
    BY <1>10, <2>1 DEF Answer, Missing, clientVars, bodyVars, uploadVars
  <2>3. CASE Missing'
    BY <1>0, <2>1, <2>2, <2>3, HiddenStutters DEF Hidden, Missing
  <2>4. CASE ~Missing'
    BY <2>1, <2>2, <2>4, LearnsEnd
  <2> QED BY <2>3, <2>4
<1>11. CASE UNCHANGED vars
  BY <1>11 DEF vars, clientVars, serverVars, uploadVars, replyVars, bodyVars,
     setupVars, endVars, Seen, Served, Missing, Verdict
<1> QED BY <1>1, <1>2, <1>3, <1>4, <1>5, <1>6, <1>7, <1>8, <1>9, <1>10, <1>11
     DEF Next, Client, Inside

LEMMA ContractInit == Init => Contract!Init
BY DEF Init, ClientInit, ServerInit, Contract!Init, Served, Verdict, NoOutcome

LEMMA CompleteAlways ==
  ASSUME "empty" \notin DebugStrings
  PROVE  Spec => [](OutcomeInv /\ CompleteInv)
<1>1. Init => OutcomeInv /\ CompleteInv
  BY DEF Init, ClientInit, OutcomeInv, CompleteInv, NoOutcome
<1>2. Inv /\ Inv' /\ OutcomeInv /\ CompleteInv /\ [Next]_vars
        => OutcomeInv' /\ CompleteInv'
  BY CompleteStep, OutcomeStep
<1> QED BY <1>1, <1>2, Invariance, PTL DEF Spec

(* Request() implements its contract with the retry layer, on every host whose *)
(* error.to-debug-string never returns the empty string: `ok` only with both   *)
(* bodies whole, a bare status or a throw only for a request served whole.    *)
THEOREM Implementation ==
  ASSUME "empty" \notin DebugStrings
  PROVE  Spec => ImplementsContract
<1>1. CallFacts /\ CallInv' /\ CompleteInv /\ [Next]_vars
        => [Contract!Next]_(Contract!contractVars)
  BY ContractStep
<1>2. Inv /\ OutcomeInv /\ CallInv /\ ReportInv => CallFacts
  BY DEF CallFacts
<1> QED BY <1>1, <1>2, ContractInit, CompleteAlways, CallAlways, ReportAlways,
     Invariance, PTL DEF Spec, ImplementsContract, Contract!Spec

------------------------------------------------------------------------------
(* A call does not go on for ever.                                           *)

(* The statements of Request() in the order in which they are passed; only    *)
(* the read loop goes back, for the next chunk.                               *)
Ahead ==
  [idle |-> 0, return |-> 1, throw |-> 1, bodyDone |-> 2, reading |-> 3,
   deliver |-> 4, bodyStream |-> 5, consume |-> 6, handler |-> 7, head |-> 8,
   get |-> 9, block |-> 10, subscribe |-> 11, finish |-> 12, writing |-> 13,
   openStream |-> 14, dispatch |-> 15, takeBody |-> 16, setters |-> 17,
   headersDone |-> 18, headers |-> 19]

(* What is ahead of the call: statements, bytes to write, and reads, of which *)
(* there may still be as many as an answer can have while none has come.      *)
ToRead == IF reply = "none" THEN 2 * MaxReads + 1 ELSE 2 * left
Work   == Ahead[pc] + (MaxLen - off) + ToRead

Shrinks(S, T) == T \subseteq S /\ T # S

(* The call comes nearer to its end: less is ahead, or as much but fewer      *)
(* headers to append, or as much but fewer objects to destroy.                *)
Nearer ==
  /\ Work \in Nat /\ Work' \in Nat
  /\ \/ Work' < Work
     \/ Work' = Work /\ Shrinks(todo, todo')
     \/ Work' = Work /\ todo' = todo /\ Shrinks(dying, dying')

(* A statement has a natural number.                                          *)
LEMMA AheadNat ==
  ASSUME NEW p, p \in DOMAIN Ahead PROVE Ahead[p] \in Nat
BY DEF Ahead

(* What is ahead is a natural number, and so is each part of it.              *)
LEMMA WorkParts ==
  ASSUME Inv
  PROVE  /\ pc \in DOMAIN Ahead /\ Ahead[pc] \in Nat
         /\ MaxLen - off \in Nat /\ ToRead \in Nat /\ Work \in Nat
<1>1. pc \in DOMAIN Ahead
  BY DEF Inv, TypeOK, Ahead
<1>2. Ahead[pc] \in Nat
  BY <1>1, AheadNat
<1>3. MaxLen - off \in Nat
  BY BoundsAssumption DEF Inv, TypeOK
<1>4. ToRead \in Nat
  BY BoundsAssumption DEF Inv, ReadInv, ToRead
<1> QED BY <1>1, <1>2, <1>3, <1>4 DEF Work

(* And after the step too.                                                    *)
LEMMA WorkPartsNext ==
  ASSUME Inv'
  PROVE  Ahead[pc'] \in Nat /\ MaxLen - off' \in Nat /\ ToRead' \in Nat
<1>1. pc' \in DOMAIN Ahead
  BY DEF Inv, TypeOK, Ahead
<1>2. Ahead[pc'] \in Nat
  BY <1>1, AheadNat
<1>3. MaxLen - off' \in Nat
  <2>1. \A o \in 0 .. MaxLen : MaxLen - o \in Nat
    BY BoundsAssumption
  <2>2. off' \in 0 .. MaxLen
    BY DEF Inv, TypeOK
  <2> QED BY <2>1, <2>2
<1>4. ToRead' \in Nat
  <2>1. 2 * MaxReads + 1 \in Nat /\ \A l \in Nat : 2 * l \in Nat
    BY BoundsAssumption
  <2>2. left' \in Nat
    BY DEF Inv, ReadInv
  <2> QED BY <2>1, <2>2 DEF ToRead
<1> QED BY <1>2, <1>3, <1>4

(* A statement passed for good.                                              *)
LEMMA Passed ==
  ASSUME Inv, Inv', Ahead[pc'] < Ahead[pc], UNCHANGED <<off, reply, left>>
  PROVE  Nearer
<1>1. MaxLen - off' = MaxLen - off /\ ToRead' = ToRead
  BY DEF ToRead
<1>2. /\ Ahead[pc] \in Nat /\ MaxLen - off \in Nat /\ ToRead \in Nat
      /\ Work \in Nat
  BY WorkParts
<1>3. Ahead[pc'] \in Nat
  BY WorkPartsNext
<1>4. Work' = Ahead[pc'] + (MaxLen - off) + ToRead
  BY <1>1 DEF Work
<1>5. Work' < Work /\ Work' \in Nat
  BY <1>2, <1>3, <1>4 DEF Work
<1> QED BY <1>2, <1>5 DEF Nearer

(* No statement is passed, but there is less to write or to read.             *)
LEMMA LessLeft ==
  ASSUME Inv, Inv', NEW d \in {0, 1}, Ahead[pc'] = Ahead[pc] + d,
         MaxLen - off' + ToRead' < MaxLen - off + ToRead - d
  PROVE  Nearer
<1>1. /\ Ahead[pc] \in Nat /\ MaxLen - off \in Nat /\ ToRead \in Nat
      /\ Work \in Nat
  BY WorkParts
<1>2. MaxLen - off' \in Nat /\ ToRead' \in Nat
  BY WorkPartsNext
<1>3. Work' = Ahead[pc] + d + (MaxLen - off') + ToRead'
  BY DEF Work
<1>4. Work' < Work /\ Work' \in Nat
  BY <1>1, <1>2, <1>3 DEF Work
<1> QED BY <1>1, <1>4 DEF Nearer

(* Every step of a call, and the answer of the host, brings its end nearer.   *)
LEMMA NearerStep == Inv /\ Inv' /\ (Client \/ Answer) => Nearer
<1> SUFFICES ASSUME Inv, Inv', Client \/ Answer PROVE Nearer
  OBVIOUS
<1> USE DEF At, Goto, Leave, Return, Fail, setupVars, headerVars, serverVars,
     uploadVars, replyVars, bodyVars, endVars, Ahead
<1>1. CASE AppendHeader
  <2>1. PICK n \in todo : todo' = todo \ {n}
    BY <1>1 DEF AppendHeader
  <2>2. UNCHANGED <<pc, off, reply, left>>
    BY <1>1 DEF AppendHeader, Append
  <2>3. Work' = Work
    BY <2>2 DEF Work, ToRead
  <2>4. Work \in Nat
    BY WorkParts
  <2> QED BY <2>1, <2>3, <2>4 DEF Nearer, Shrinks
<1>2. CASE AppendBearer BY <1>2, Passed DEF AppendBearer, Append
<1>3. CASE HeadersRefused BY <1>3, Passed DEF HeadersRefused
<1>4. CASE NewRequest BY <1>4, Passed DEF NewRequest
<1>5. CASE SetRequest BY <1>5, Passed DEF SetRequest
<1>6. CASE TakeBody BY <1>6, Passed DEF TakeBody
<1>7. CASE Dispatch BY <1>7, Passed DEF Dispatch
<1>8. CASE OpenStream BY <1>8, Passed DEF OpenStream
<1>9. CASE WriteChunk
  <2>1. CASE pc' = "writing"
    <3>1. /\ off' = off + NextWrite /\ pc = "writing" /\ off < call.len
          /\ UNCHANGED <<reply, left>>
      BY <1>9, <2>1 DEF WriteChunk
    <3>2. off \in Nat /\ call.len \in Nat
      BY DEF Inv, TypeOK, Calls
    <3>3. NextWrite \in Nat \ {0}
      BY <3>1, <3>2, WriteCapAssumption DEF NextWrite
    <3>4. ToRead' = ToRead /\ ToRead \in Nat
      BY <3>1, WorkParts DEF ToRead
    <3>5. MaxLen - off' + ToRead' < MaxLen - off + ToRead - 0
      BY <3>1, <3>2, <3>3, <3>4, BoundsAssumption
    <3> QED BY <2>1, <3>1, <3>5, LessLeft
  <2>2. CASE pc' # "writing"
    BY <1>9, <2>2, Passed DEF WriteChunk
  <2> QED BY <2>1, <2>2
<1>10. CASE CloseStream BY <1>10, Passed DEF CloseStream
<1>11. CASE FinishBody BY <1>11, Passed DEF FinishBody
<1>12. CASE Subscribe BY <1>12, Passed DEF Subscribe
<1>13. CASE Block BY <1>13, Passed DEF Block
<1>14. CASE GetResponse BY <1>14, Passed DEF GetResponse
<1>15. CASE ReadHead BY <1>15, Passed DEF ReadHead
<1>16. CASE ResponseHandler
  BY <1>16, Passed DEF ResponseHandler, BodyStage, Stopped
<1>17. CASE ConsumeBody BY <1>17, Passed DEF ConsumeBody
<1>18. CASE BodyStream BY <1>18, Passed DEF BodyStream
<1>19. CASE ReadChunk
  <2>1. CASE pc' = "bodyDone"
    BY <1>19, <2>1, Passed DEF ReadChunk
  <2>2. CASE pc' # "bodyDone"
    <3>1. /\ pc = "reading" /\ pc' \in {"deliver", "reading"}
          /\ left > 0 /\ left' = left - 1 /\ UNCHANGED <<off, reply>>
      BY <1>19, <2>2 DEF ReadChunk
    <3>2. left \in Nat /\ reply # "none"
      BY <3>1 DEF Inv, ReadInv
    <3>3. ToRead' = ToRead - 2 /\ ToRead \in Nat
      BY <3>1, <3>2 DEF ToRead
    <3>4. off \in Nat
      BY DEF Inv, TypeOK
    <3>5. \A d \in {0, 1} : MaxLen - off' + ToRead' < MaxLen - off + ToRead - d
      BY <3>1, <3>3, <3>4, BoundsAssumption
    <3>6. CASE pc' = "deliver"
      BY <3>1, <3>5, <3>6, LessLeft
    <3>7. CASE pc' = "reading"
      BY <3>1, <3>5, <3>7, LessLeft
    <3> QED BY <3>1, <3>6, <3>7
  <2> QED BY <2>1, <2>2
<1>20. CASE Deliver BY <1>20, Passed DEF Deliver
<1>21. CASE BodyDone BY <1>21, Passed DEF BodyDone
<1>22. CASE Destroy
  <2>1. PICK x \in dying : dying' = dying \ {x}
    BY <1>22 DEF Destroy, Destruct
  <2>2. UNCHANGED <<pc, off, reply, left, todo>>
    BY <1>22 DEF Destroy, clientVars
  <2>3. Work' = Work
    BY <2>2 DEF Work, ToRead
  <2>4. Work \in Nat
    BY WorkParts
  <2> QED BY <2>1, <2>2, <2>3, <2>4 DEF Nearer, Shrinks
<1>23. CASE ReturnResponse BY <1>23, Passed DEF ReturnResponse
<1>24. CASE Rethrow BY <1>24, Passed DEF Rethrow
<1>25. CASE Answer
  <2>1. /\ reply = "none" /\ reply' # "none" /\ UNCHANGED <<pc, off>>
        /\ left' \in 0 .. MaxReads \/ left' = left
    BY <1>25 DEF Answer, clientVars
  <2>2. left = 0
    BY <2>1 DEF Inv, ReadInv
  <2>3. ToRead' < ToRead /\ ToRead' \in Nat /\ ToRead \in Nat
    BY <2>1, <2>2, BoundsAssumption DEF ToRead
  <2>4. MaxLen - off \in Nat /\ MaxLen - off' = MaxLen - off
    BY <2>1, WorkParts
  <2>5. MaxLen - off' + ToRead' < MaxLen - off + ToRead - 0
    BY <2>3, <2>4
  <2>6. Ahead[pc'] = Ahead[pc] + 0
    <3>1. Ahead[pc] \in Nat
      BY WorkParts
    <3> QED BY <2>1, <3>1
  <2> QED BY <2>5, <2>6, LessLeft
<1> QED BY <1>1, <1>2, <1>3, <1>4, <1>5, <1>6, <1>7, <1>8, <1>9, <1>10, <1>11,
     <1>12, <1>13, <1>14, <1>15, <1>16, <1>17, <1>18, <1>19, <1>20, <1>21,
     <1>22, <1>23, <1>24, <1>25 DEF Client

(* Between two calls of the five verbs no sequence of steps is endless:       *)
(* whatever the host and the handlers do, each step leaves less to be done    *)
(* before Request() has returned.  A request has finitely many headers and a  *)
(* scope finitely many objects, so there is no infinite descent: with the     *)
(* fairness of Spec this is what CallReturns rests on.                        *)
THEOREM CallsAdvance == Spec => [][StartRequest \/ Nearer]_vars
<1>1. Inv /\ Inv' /\ [Next]_vars => [StartRequest \/ Nearer]_vars
  BY NearerStep DEF Next
<1> QED BY <1>1, Invariance, PTL DEF Spec
==============================================================================
