---------------------------- MODULE RequestContract ----------------------------
(***************************************************************************)
(* What one call of WasiHTTPClient promises to DuckDB's retry layer, with   *)
(* none of how Request() does it.  WasiHttpClient implements it.            *)
(***************************************************************************)
EXTENDS Naturals

VARIABLES
  busy,       \* a call is in progress
  served,     \* the server's view of the request of the call
  delivered,  \* chunks of the response body handed to the caller
  missing,    \* some of the response body is still to be handed over
  verdict     \* how the last call ended

contractVars == <<busy, served, delivered, missing, verdict>>

Init == /\ busy = FALSE /\ served = "none" /\ delivered = 0
        /\ missing = TRUE /\ verdict = "none"

Begin == /\ ~busy /\ busy' = TRUE
         /\ served' = "none" /\ delivered' = 0 /\ missing' = TRUE
         /\ verdict' = "none"

\* The request reaches the server whole, or begins to and ends whole or torn.
Serve == /\ busy
         /\ \/ served = "none" /\ served' \in {"partial", "whole"}
            \/ served = "partial" /\ served' \in {"whole", "torn"}
         /\ UNCHANGED <<busy, delivered, missing, verdict>>

\* The response body arrives, in order and nothing twice.  An empty one may
\* be known before the server has taken the whole request.
Learn == /\ busy /\ served # "none"
         /\ missing /\ missing' = FALSE
         /\ UNCHANGED <<busy, served, delivered, verdict>>
Deliver == /\ busy /\ served = "whole"
           /\ missing /\ missing' \in BOOLEAN
           /\ delivered' = delivered + 1
           /\ UNCHANGED <<busy, served, verdict>>

\* A verdict: `ok` only with the request and the response whole; the server's
\* bare status, or a throw, only for a request that reached it whole; a
\* failure the retry layer may repeat at any time.
End == /\ busy /\ busy' = FALSE
       /\ \/ verdict' = "ok" /\ served = "whole" /\ ~missing
          \/ verdict' \in {"status", "threw"} /\ served = "whole"
          \/ verdict' = "retryable"
       /\ UNCHANGED <<served, delivered, missing>>

Next == Begin \/ Serve \/ Learn \/ Deliver \/ End

Spec == Init /\ [][Next]_contractVars
==============================================================================
