----------------------------- MODULE HandleScope -----------------------------
(***************************************************************************)
(* The RAII layer of wasi_http_client.cpp: OwnHandle<Own, DropOwn>,         *)
(* Borrowed<Borrow, Owner> and OwnedHeaderEntries, over the host's table of *)
(* resource handles.  Request() declares each object below at most once,    *)
(* so an object is named by its C++ variable and a host resource by the     *)
(* variable that owns it.  Leaving a C++ scope destroys its objects one by  *)
(* one, the last declared first; a destructor is one step, so that the host *)
(* is seen between two drops.                                               *)
(***************************************************************************)
EXTENDS Naturals

VARIABLES
  scope,    \* the objects constructed and not yet destroyed
  held,     \* the OwnHandles whose `live` flag is set
  table,    \* the kinds of host resources the component has a handle to
  dying,    \* the objects of the scopes being left, not yet destroyed
  trapped   \* a host trap or a failed D_ASSERT ended the module instance

scopeVars == <<scope, held, table, dying, trapped>>

\* The objects of Request(), numbered in the order of their declarations.
Rank == [fields |-> 1, bf |-> 2, request |-> 3, breq |-> 4, out_body |-> 5,
         future |-> 6, out_stream |-> 7, bos |-> 8, bfut |-> 9,
         pollable |-> 10, incoming |-> 11, bresp |-> 12, rh |-> 13,
         entries |-> 14, body |-> 15, stream |-> 16, bstream |-> 17]

Owners  == {"fields", "request", "out_body", "future", "out_stream",
            "pollable", "incoming", "rh", "body", "stream"}
Borrows == {"bf", "breq", "bos", "bfut", "bresp", "bstream"}
Locals  == Owners \cup Borrows \cup {"entries"}

\* wasi:io `error`: minted by a failed stream operation; no C++ object owns it.
Resources == Owners \cup {"error"}

OwnerOf == [bf |-> "fields", breq |-> "request", bos |-> "out_stream",
            bfut |-> "future", bresp |-> "incoming", bstream |-> "stream"]

\* A child must be dropped before its parent, or the host traps.
ParentOf == [out_stream |-> "out_body", pollable |-> "future",
             rh |-> "incoming", stream |-> "body"]
Children == {"out_stream", "pollable", "rh", "stream"}

HasChild(x, T) == \E c \in Children \cap T : ParentOf[c] = x

\* A call that borrows the handles in S traps if the host does not know one.
Uses(S) == trapped' = ~(S \subseteq table)

\* A call that takes own<x> also traps while x has a live child.
Consumes(x) == trapped' = (x \notin table \/ HasChild(x, table))

\* The effect of one statement: the owners in `gone` are released to a callee,
\* the host makes the resources in `made`, their owners (new in scope unless
\* default-constructed earlier) and the views in `views` come into scope.
Exchange(gone, made, views) ==
  /\ scope' = scope \cup made \cup views
  /\ held'  = (held \ gone) \cup made
  /\ table' = (table \ gone) \cup made
Keep == UNCHANGED <<scope, held, table>>

\* Faulty variant: Reset() clears `live` and forgets to drop the handle.
ForgetOwn(x) ==
  /\ x \in held
  /\ held' = held \ {x}
  /\ UNCHANGED <<table, trapped>>

\* ~OwnHandle / Reset(): a live owner asserts that no borrow of it is left
\* and drops its handle.  An empty or released one does nothing.
DropOwn(x) ==
  /\ x \in held
  /\ held' = held \ {x}
  /\ table' = table \ {x}
  /\ trapped' = \/ \E b \in Borrows \cap scope : OwnerOf[b] = x
                \/ x \notin table
                \/ HasChild(x, table)

Destruct(x) ==
  /\ \A y \in dying : Rank[y] <= Rank[x]
  /\ scope' = scope \ {x}
  /\ dying' = dying \ {x}
  /\ \/ DropOwn(x)
     \/ x \notin held /\ UNCHANGED <<held, table, trapped>>

ScopeInit ==
  /\ scope = {} /\ held = {} /\ table = {} /\ dying = {} /\ trapped = FALSE

ScopeTypeOK ==
  /\ scope \subseteq Locals
  /\ held \subseteq Owners
  /\ table \subseteq Resources
  /\ dying \subseteq Locals
  /\ trapped \in BOOLEAN
==============================================================================
