----------------------------- MODULE UploadDuplex -----------------------------
(***************************************************************************)
(* A PUT or POST of WasiHTTPClient and the server behind the host, which    *)
(* buffers a bounded part of the body and of the answer.  Request() looks   *)
(* at the answer only when the whole body is written; the server may begin  *)
(* to answer before that, and does one thing at a time too.  The unit is a  *)
(* piece: of the body what one write hands over, of the answer its head and *)
(* then what one read returns.                                              *)
(***************************************************************************)
EXTENDS Naturals

CONSTANTS
  MaxBody,         \* bound: pieces of a request body
  MaxAnswer,       \* bound: pieces of an answer
  BodyWindow,      \* pieces of the body the host and the network hold
  AnswerWindow     \* pieces of the answer they hold

ASSUME WindowAssumption ==
  /\ MaxBody \in Nat /\ MaxAnswer \in Nat \ {0}
  /\ BodyWindow \in Nat \ {0} /\ AnswerWindow \in Nat \ {0}

VARIABLES
  pc,                \* of Request()
  body, off,         \* pieces of the body: all, written
  up, ended,         \* pieces under way to the server; finish() was called
  answer,            \* pieces of the answer, the head included
  eager,             \* the server may answer before it has the whole body
  server,            \* "taking", "sending", "answered" or "hungup"
  sent, down         \* pieces of the answer: sent, under way

vars == <<pc, body, off, up, ended, answer, eager, server, sent, down>>
client == <<pc, off, ended>>
request == <<body, answer, eager>>

Init ==
  /\ pc = "write" /\ off = 0 /\ up = 0 /\ ended = FALSE
  /\ server = "taking" /\ sent = 0 /\ down = 0
  /\ body \in 0 .. MaxBody /\ answer \in 1 .. MaxAnswer /\ eager \in BOOLEAN

Over == pc \in {"ok", "failed"}

------------------------------------------------------------------------------
(* Request().  Every blocking call fails when the server has hung up. *)

Fail == pc' = "failed" /\ UNCHANGED <<off, up, ended, down>>

More == off < body

\* blocking-write-and-flush returns when the piece is on its way.
WriteChunk ==
  /\ pc = "write" /\ More
  /\ \/ /\ server # "hungup" /\ up < BodyWindow
        /\ up' = up + 1 /\ off' = off + 1 /\ UNCHANGED <<pc, ended, down>>
     \/ server = "hungup" /\ Fail
  /\ UNCHANGED <<request, server, sent>>

\* Faulty variant: finish() is forgotten.
FinishForgotten == ended' = FALSE
FinishCalled    == ended' = TRUE

FinishBody ==
  /\ pc = "write" /\ ~More
  /\ \/ /\ server # "hungup"
        /\ FinishCalled /\ pc' = "block" /\ UNCHANGED <<off, up, down>>
     \/ server = "hungup" /\ Fail
  /\ UNCHANGED <<request, server, sent>>

\* pollable.block and future.get: the head of the answer, or an error.
Block ==
  /\ pc = "block"
  /\ \/ /\ down > 0 /\ pc' = "read" /\ down' = down - 1
        /\ UNCHANGED <<off, up, ended>>
     \/ down = 0 /\ server = "hungup" /\ Fail
  /\ UNCHANGED <<request, server, sent>>

\* Faulty variant: the end of what has come is taken for the end of the body.
ReadSoFar == down = 0
ReadAll   == down = 0 /\ sent = answer

ReadChunk ==
  /\ pc = "read"
  /\ \/ down > 0 /\ down' = down - 1 /\ UNCHANGED <<pc, off, up, ended>>
     \/ ReadAll /\ pc' = "ok" /\ UNCHANGED <<off, up, ended, down>>
     \/ down = 0 /\ sent # answer /\ server = "hungup" /\ Fail
  /\ UNCHANGED <<request, server, sent>>

Request == WriteChunk \/ FinishBody \/ Block \/ ReadChunk

------------------------------------------------------------------------------
(* The server. *)

Take ==
  /\ server \in {"taking", "answered"} /\ up > 0 /\ up' = up - 1
  /\ UNCHANGED <<client, request, server, sent, down>>

\* It turns to its answer: when it has the body, or, if eager, at any time.
TurnToAnswer ==
  /\ server = "taking" /\ sent < answer
  /\ eager \/ (ended /\ up = 0)
  /\ server' = "sending"
  /\ UNCHANGED <<client, request, up, sent, down>>

\* A piece of the answer leaves; then it reads on, or has answered.
Send ==
  /\ server = "sending" /\ down < AnswerWindow
  /\ down' = down + 1 /\ sent' = sent + 1
  /\ server' = IF sent' = answer THEN "answered" ELSE "taking"
  /\ UNCHANGED <<client, request, up>>

\* It closes the connection, early or after its answer.
HangUp ==
  /\ server # "hungup" /\ server' = "hungup" /\ up' = 0
  /\ UNCHANGED <<client, request, sent, down>>

Server == Take \/ TurnToAnswer \/ Send

Next == Request \/ Server \/ HangUp

\* The host ends a call that can end; the server goes on with what it can do,
\* and as long as it has an answer to give, with that.
Fairness == WF_vars(Request) /\ WF_vars(Server) /\ WF_vars(TurnToAnswer)
Spec == Init /\ [][Next]_vars /\ Fairness

------------------------------------------------------------------------------
TypeOK ==
  /\ pc \in {"write", "block", "read", "ok", "failed"}
  /\ body \in 0 .. MaxBody /\ off \in 0 .. body
  /\ up \in 0 .. BodyWindow /\ up <= off /\ ended \in BOOLEAN
  /\ answer \in 1 .. MaxAnswer /\ eager \in BOOLEAN
  /\ server \in {"taking", "sending", "answered", "hungup"}
  /\ sent \in 0 .. answer /\ down \in 0 .. AnswerWindow /\ down <= sent

ClientWaits ==
  \/ pc = "write" /\ off < body /\ up = BodyWindow
  \/ pc = "block" /\ down = 0
  \/ pc = "read" /\ down = 0 /\ sent # answer
ServerWaits ==
  \/ server = "sending" /\ down = AnswerWindow
  \/ server = "taking" /\ up = 0 /\ ~eager /\ ~ended
  \/ server = "answered" /\ up = 0

\* An answer that begins early fits the buffers on its way.
Fits == eager => answer <= AnswerWindow

\* Request() and the server never wait for each other, if the server either has
\* the whole body before it answers or answers no more than the buffers hold
\* (the write loop, which does not look at the answer).
NoMutualWait == Fits => ~(ClientWaits /\ ServerWaits)

\* A response that Request() returns is the whole answer, and the server had
\* been sent the whole body and its end.
WholeExchange ==
  pc = "ok" => off = body /\ ended /\ sent = answer /\ down = 0

\* Then a call ends, whenever the server answers and whether it hangs up.
CallEnds == Fits ~> Over
==============================================================================
